-------------------------- MODULE Recording_proofs --------------------------
(***************************************************************************)
(* Theorems about Recording, for every number of rounds, pieces of text    *)
(* and calls, every size of the lossy ring and every fault: where the      *)
(* reliable ring holds a turn, what is recorded of its course is what      *)
(* happened, and a finished recording replays to a conversation whose      *)
(* calls are answered.                                                     *)
(*                                                                         *)
(* Both are about folds over the log.  The first part says what such a     *)
(* fold returns for a log and for the log with one event more.             *)
(***************************************************************************)
EXTENDS Recording, FiniteSetTheorems, WellFoundedInduction, TLAPS

(* A collection of finite sets has a member no other member is part of. *)
LEMMA SmallestSet ==
  ASSUME NEW sets, sets # {}, \A T \in sets : IsFiniteSet(T)
  PROVE  \E T \in sets : \A s \in sets : s \subseteq T => s = T
<1> DEFINE all == UNION sets
<1>1. sets \subseteq FiniteSubsetsOf(all)
  BY DEF FiniteSubsetsOf
<1>2. IsWellFoundedOn(StrictSubsetOrdering(all), FiniteSubsetsOf(all))
  BY FS_StrictSubsetOrderingWellFounded
<1>3. PICK T \in sets : \A s \in sets : ~ (<<s, T>> \in StrictSubsetOrdering(all))
  <2> HIDE DEF all
  <2> QED
    BY ONLY <1>1, <1>2, sets # {}, WFMin, Zenon
<1>4. ASSUME NEW s \in sets, s \subseteq T
      PROVE  s = T
  BY <1>3, <1>4 DEF StrictSubsetOrdering
<1> QED
  BY <1>4

(* The last of a set of positions of a log. *)
LEMMA MaxIsMember ==
  ASSUME NEW n \in Nat, NEW S, S \subseteq 0..n, S # {}
  PROVE  Max(S) \in S /\ \A x \in S : x <= Max(S)
<1> DEFINE Above(x) == {y \in 0..n : y > x}
           sets == {Above(x) : x \in S}
<1>1. \A T \in sets : IsFiniteSet(T)
  <2>1. IsFiniteSet(0..n)
    BY FS_Interval
  <2>2. \A T \in sets : T \subseteq 0..n
    OBVIOUS
  <2> HIDE DEF sets
  <2> QED
    BY <2>1, <2>2, FS_Subset
<1>2. PICK T \in sets : \A s \in sets : s \subseteq T => s = T
  <2>1. sets # {}
    OBVIOUS
  <2> HIDE DEF sets
  <2> QED
    BY <1>1, <2>1, SmallestSet
<1>3. PICK x \in S : T = Above(x)
  BY <1>2
<1>4. ASSUME NEW y \in S
      PROVE  x >= y
  <2>1. x \in 0..n /\ y \in 0..n
    OBVIOUS
  <2>2. CASE y > x
    <3>1. Above(y) \subseteq Above(x)
      BY <2>1, <2>2
    <3>2. Above(y) = Above(x)
      BY <1>2, <1>3, <3>1
    <3>3. y \in Above(x) /\ ~ (y \in Above(y))
      BY <2>1, <2>2
    <3> QED
      BY <3>2, <3>3
  <2> QED
    BY <2>1, <2>2
<1>5. \E z \in S : \A y \in S : z >= y
  BY <1>4
<1>6. Max(S) \in S /\ \A y \in S : Max(S) >= y
  BY <1>5 DEF Max
<1> QED
  BY <1>6

-----------------------------------------------------------------------------
(* Folds over a log.                                                       *)

\* The two folds: what is announced, and what is rebuilt.
Base(what) == IF what = "announced" THEN <<>> ELSE NothingYet

Step(what, r, e) ==
    IF what = "announced"
    THEN IF e.kind = "token_delta" THEN r ELSE Append(r, e)
    ELSE Folded(r, e)

\* g is the recursion a fold unfolds, on the sets of positions in S.
Folds(what, events, S, g) ==
    g = [s \in SUBSET S |->
            IF s = {} THEN Base(what) ELSE Step(what, g[s \ {Max(s)}], events[Max(s)])]

\* v is what the fold returns for the log.
Returns(what, events, v) ==
    \E g : Folds(what, events, DOMAIN events, g) /\ v = g[DOMAIN events]

Replayed(events) == FoldLeft(Folded, NothingYet, events)

LEMMA FoldsAt ==
  ASSUME NEW what, NEW events, NEW S, NEW g, Folds(what, events, S, g), NEW s, s \subseteq S
  PROVE  /\ s = {} => g[s] = Base(what)
         /\ s # {} => g[s] = Step(what, g[s \ {Max(s)}], events[Max(s)])
BY DEF Folds

LEMMA FoldsTop ==
  ASSUME NEW what, NEW events, NEW S, NEW g, Folds(what, events, S, g)
  PROVE  /\ S = {} => g[S] = Base(what)
         /\ S # {} => g[S] = Step(what, g[S \ {Max(S)}], events[Max(S)])
<1>1. S \in SUBSET S
  OBVIOUS
<1> QED
  BY <1>1 DEF Folds

LEMMA FoldsOnPart ==
  ASSUME NEW what, NEW events, NEW S, NEW g, Folds(what, events, S, g), NEW T, T \subseteq S
  PROVE  Folds(what, events, T, [s \in SUBSET T |-> g[s]])
<1> DEFINE h == [s \in SUBSET T |-> g[s]]
<1>1. ASSUME NEW s \in SUBSET T
      PROVE  h[s] = IF s = {} THEN Base(what) ELSE Step(what, h[s \ {Max(s)}], events[Max(s)])
  <2>1. s \in SUBSET S /\ s \ {Max(s)} \in SUBSET T
    OBVIOUS
  <2>2. g[s] = IF s = {} THEN Base(what) ELSE Step(what, g[s \ {Max(s)}], events[Max(s)])
    BY <2>1, FoldsAt
  <2>3. h[s] = g[s] /\ h[s \ {Max(s)}] = g[s \ {Max(s)}]
    BY <2>1
  <2> QED
    BY <2>2, <2>3
<1>2. h = [s \in SUBSET T |-> h[s]]
  OBVIOUS
<1> HIDE DEF h
<1>3. Folds(what, events, T, h)
  BY <1>1, <1>2 DEF Folds
<1> QED
  BY <1>3 DEF h

LEMMA FoldsSeenOnPart ==
  ASSUME NEW what, NEW events, NEW S, NEW g, Folds(what, events, S, g), NEW T, T \subseteq S
  PROVE  \E f : Folds(what, events, T, f) /\ f[T] = g[T]
<1> DEFINE f == [s \in SUBSET T |-> g[s]]
<1>1. Folds(what, events, T, f)
  BY FoldsOnPart
<1>2. f[T] = g[T]
  OBVIOUS
<1> HIDE DEF f
<1> QED
  BY <1>1, <1>2

(* Logs that agree on the positions agree on the fold. *)
LEMMA FoldsAgree ==
  ASSUME NEW what, NEW events, NEW other, NEW n \in Nat, NEW S, S \subseteq 1..n,
         NEW g, Folds(what, events, S, g), \A i \in S : other[i] = events[i]
  PROVE  Folds(what, other, S, g)
<1>1. ASSUME NEW s \in SUBSET S, s # {}
      PROVE  other[Max(s)] = events[Max(s)]
  <2>1. s \subseteq 0..n
    OBVIOUS
  <2>2. Max(s) \in s
    BY <1>1, <2>1, MaxIsMember
  <2> QED
    BY <2>2
<1>2. g = [s \in SUBSET S |-> g[s]]
  BY DEF Folds
<1>3. ASSUME NEW s \in SUBSET S
      PROVE  g[s] = IF s = {} THEN Base(what) ELSE Step(what, g[s \ {Max(s)}], other[Max(s)])
  <2>1. g[s] = IF s = {} THEN Base(what) ELSE Step(what, g[s \ {Max(s)}], events[Max(s)])
    BY DEF Folds
  <2> QED
    BY <1>1, <2>1
<1> QED
  BY <1>2, <1>3 DEF Folds

(* Over positions of a log there is one such recursion and no other. *)
LEMMA OneFold ==
  ASSUME NEW what, NEW events, NEW n \in Nat, NEW S, S \subseteq 1..n
  PROVE  /\ \E g : Folds(what, events, S, g)
         /\ \A g, h : Folds(what, events, S, g) /\ Folds(what, events, S, h) => g[S] = h[S]
<1> DEFINE Good(T) == /\ \E g : Folds(what, events, T, g)
                      /\ \A g, h : Folds(what, events, T, g) /\ Folds(what, events, T, h)
                                      => g[T] = h[T]
           bad == {T \in SUBSET S : ~ Good(T)}
<1>0. ASSUME NEW s \in SUBSET S, s # {}
      PROVE  Max(s) \in s
  <2>1. s \subseteq 0..n
    OBVIOUS
  <2> QED
    BY <1>0, <2>1, MaxIsMember
<1>1. ASSUME NEW T \in SUBSET S, \A s \in SUBSET T : s # T => Good(s)
      PROVE  Good(T)
  <2> HIDE DEF bad
  <2> DEFINE A(s) == (CHOOSE g : Folds(what, events, s, g))[s]
             k == [s \in SUBSET T |-> IF s = {} THEN Base(what)
                      ELSE Step(what, A(s \ {Max(s)}), events[Max(s)])]
  <2>1. ASSUME NEW g, NEW h, Folds(what, events, T, g), Folds(what, events, T, h),
               NEW s \in SUBSET T, s # T
        PROVE  g[s] = h[s]
    <3>1. Folds(what, events, s, [r \in SUBSET s |-> g[r]])
      BY <2>1, FoldsOnPart
    <3>2. Folds(what, events, s, [r \in SUBSET s |-> h[r]])
      BY <2>1, FoldsOnPart
    <3>3. [r \in SUBSET s |-> g[r]][s] = [r \in SUBSET s |-> h[r]][s]
      BY <1>1, <2>1, <3>1, <3>2
    <3> QED
      BY <3>3
  <2>2. ASSUME NEW g, NEW h, Folds(what, events, T, g), Folds(what, events, T, h)
        PROVE  g[T] = h[T]
    <3>1. /\ T = {} => g[T] = Base(what)
          /\ T # {} => g[T] = Step(what, g[T \ {Max(T)}], events[Max(T)])
      BY ONLY <2>2, FoldsTop
    <3>2. /\ T = {} => h[T] = Base(what)
          /\ T # {} => h[T] = Step(what, h[T \ {Max(T)}], events[Max(T)])
      BY ONLY <2>2, FoldsTop
    <3>3. T # {} => g[T \ {Max(T)}] = h[T \ {Max(T)}]
      BY <1>0, <2>1, <2>2
    <3> QED
      BY <3>1, <3>2, <3>3
  <2>3. ASSUME NEW s \in SUBSET T, s # T
        PROVE  A(s) = k[s]
    <3>1. PICK c : Folds(what, events, s, c) /\ A(s) = c[s]
      BY <1>1, <2>3
    <3>2. CASE s = {}
      <4>1. c[s] = Base(what)
        BY ONLY <3>1, <3>2, FoldsTop
      <4> QED
        BY <3>1, <3>2, <4>1
    <3>3. CASE s # {}
      <4> DEFINE r == s \ {Max(s)}
      <4>1. Max(s) \in s
        BY <1>0, <3>3
      <4>2. r \in SUBSET T /\ r \subseteq s /\ r # T
        BY <4>1
      <4>3. PICK d : Folds(what, events, r, d) /\ A(r) = d[r]
        BY <1>1, <4>2
      <4>4. Folds(what, events, r, [q \in SUBSET r |-> c[q]])
        <5> HIDE DEF r
        <5> QED
          BY <3>1, <4>2, FoldsOnPart
      <4>5. d[r] = [q \in SUBSET r |-> c[q]][r]
        <5> HIDE DEF r
        <5> QED
          BY <1>1, <4>2, <4>3, <4>4
      <4>6. d[r] = c[r]
        BY <4>5
      <4>7. c[s] = Step(what, c[r], events[Max(s)])
        BY ONLY <3>1, <3>3, FoldsTop
      <4>8. k[s] = Step(what, A(r), events[Max(s)])
        <5> HIDE DEF A
        <5> QED
          BY <3>3
      <4> HIDE DEF A, k, r
      <4> QED
        BY <3>1, <4>3, <4>6, <4>7, <4>8
    <3> QED
      BY <3>2, <3>3
  <2>4. ASSUME NEW s \in SUBSET T
        PROVE  k[s] = IF s = {} THEN Base(what)
                      ELSE Step(what, k[s \ {Max(s)}], events[Max(s)])
    <3>1. CASE s = {}
      BY <3>1
    <3>2. CASE s # {}
      <4>1. Max(s) \in s
        BY <1>0, <3>2
      <4>2. s \ {Max(s)} \in SUBSET T /\ s \ {Max(s)} # T
        BY <4>1
      <4>3. A(s \ {Max(s)}) = k[s \ {Max(s)}]
        <5> HIDE DEF A, k
        <5> QED
          BY <2>3, <4>2
      <4>4. k[s] = Step(what, A(s \ {Max(s)}), events[Max(s)])
        <5> HIDE DEF A
        <5> QED
          BY <3>2
      <4> HIDE DEF A, k
      <4> QED
        BY <3>2, <4>3, <4>4
    <3> QED
      BY <3>1, <3>2
  <2>5. Folds(what, events, T, k)
    <3>1. k = [s \in SUBSET T |-> k[s]]
      OBVIOUS
    <3> HIDE DEF k
    <3> QED
      BY <2>4, <3>1 DEF Folds
  <2> HIDE DEF k
  <2> QED
    BY <2>2, <2>5
<1>2. ASSUME bad # {}
      PROVE  FALSE
  <2>1. \A T \in bad : IsFiniteSet(T)
    <3>1. IsFiniteSet(1..n)
      BY FS_Interval
    <3>2. \A T \in bad : T \in SUBSET (1..n)
      OBVIOUS
    <3> HIDE DEF bad
    <3> QED
      BY <3>1, <3>2, FS_Subset
  <2>2. PICK T \in bad : \A s \in bad : s \subseteq T => s = T
    <3> HIDE DEF bad
    <3> QED
      BY <1>2, <2>1, SmallestSet
  <2>3. \A s \in SUBSET T : s # T => Good(s)
    <3> HIDE DEF Good
    <3> QED
      BY <2>2
  <2> HIDE DEF Good
  <2> QED
    BY <1>1, <2>2, <2>3
<1>3. Good(S)
  <2> HIDE DEF Good
  <2> QED
    BY <1>2
<1> QED
  BY <1>3

LEMMA FoldReturns ==
  ASSUME NEW E, NEW events \in Seq(E), NEW what
  PROVE  /\ \E g : Folds(what, events, DOMAIN events, g)
         /\ \A v, w : Returns(what, events, v) /\ Returns(what, events, w) => v = w
<1>1. Len(events) \in Nat /\ DOMAIN events \subseteq 1..Len(events)
  OBVIOUS
<1>2. /\ \E g : Folds(what, events, DOMAIN events, g)
      /\ \A g, h : Folds(what, events, DOMAIN events, g) /\ Folds(what, events, DOMAIN events, h)
                      => g[DOMAIN events] = h[DOMAIN events]
  BY <1>1, OneFold
<1> QED
  BY <1>2 DEF Returns

LEMMA AnnouncedReturns ==
  ASSUME NEW E, NEW events \in Seq(E)
  PROVE  Returns("announced", events, Announced(events))
<1> DEFINE Unfolds(g) ==
             g = [s \in SUBSET DOMAIN events |->
                     IF s = {} THEN <<>>
                     ELSE IF events[Max(s)].kind = "token_delta" THEN g[s \ {Max(s)}]
                          ELSE Append(g[s \ {Max(s)}], events[Max(s)])]
<1>1. Announced(events) = (CHOOSE g : Unfolds(g))[DOMAIN events]
  BY DEF Announced, FoldLeft, MapThenFoldSet
<1>2. \A g : Unfolds(g) <=> Folds("announced", events, DOMAIN events, g)
  BY DEF Folds, Base, Step
<1>3. \E g : Unfolds(g)
  BY <1>2, FoldReturns
<1>4. Unfolds(CHOOSE g : Unfolds(g))
  <2> HIDE DEF Unfolds
  <2> QED
    BY <1>3
<1> HIDE DEF Unfolds
<1> QED
  BY <1>1, <1>2, <1>4 DEF Returns

LEMMA ReplayedReturns ==
  ASSUME NEW E, NEW events \in Seq(E)
  PROVE  Returns("replayed", events, Replayed(events))
<1> DEFINE Unfolds(g) ==
             g = [s \in SUBSET DOMAIN events |->
                     IF s = {} THEN NothingYet
                     ELSE Folded(g[s \ {Max(s)}], events[Max(s)])]
<1>1. Replayed(events) = (CHOOSE g : Unfolds(g))[DOMAIN events]
  BY DEF Replayed, FoldLeft, MapThenFoldSet
<1>2. \A g : Unfolds(g) <=> Folds("replayed", events, DOMAIN events, g)
  BY DEF Folds, Base, Step
<1>3. \E g : Unfolds(g)
  BY <1>2, FoldReturns
<1>4. Unfolds(CHOOSE g : Unfolds(g))
  <2> HIDE DEF Unfolds
  <2> QED
    BY <1>3
<1> HIDE DEF Unfolds
<1> QED
  BY <1>1, <1>2, <1>4 DEF Returns

LEMMA ReturnsAtStart ==
  ASSUME NEW what, NEW v, Returns(what, <<>>, v)
  PROVE  v = Base(what)
<1>1. PICK g : Folds(what, <<>>, DOMAIN <<>>, g) /\ v = g[DOMAIN <<>>]
  BY DEF Returns
<1>2. DOMAIN <<>> = {}
  OBVIOUS
<1>3. g[{}] = Base(what)
  <2>1. Folds(what, <<>>, {}, g)
    BY <1>1, <1>2
  <2> QED
    BY ONLY <2>1, FoldsTop
<1> QED
  BY <1>1, <1>2, <1>3

(* One event more is one step more. *)
LEMMA ReturnsOneMore ==
  ASSUME NEW E, NEW events \in Seq(E), NEW e \in E, NEW what, NEW v, NEW w,
         Returns(what, events, v), Returns(what, Append(events, e), w)
  PROVE  w = Step(what, v, e)
<1> DEFINE longer == Append(events, e)
           n == Len(events)
           P == 1..n
           Q == 1..(n + 1)
<1>1. /\ longer \in Seq(E) /\ n \in Nat
      /\ DOMAIN events = P /\ DOMAIN longer = Q
      /\ longer[n + 1] = e
      /\ \A i \in P : longer[i] = events[i]
  OBVIOUS
<1> HIDE DEF longer, n
<1>2. PICK g : Folds(what, events, P, g) /\ v = g[P]
  <2>1. Returns(what, events, v)
    OBVIOUS
  <2> QED
    BY <1>1, <2>1 DEF Returns
<1>3. PICK h : Folds(what, longer, Q, h) /\ w = h[Q]
  <2>1. Returns(what, longer, w)
    BY DEF longer
  <2> QED
    BY <1>1, <2>1 DEF Returns
<1>4. Max(Q) = n + 1
  <2>1. Q \subseteq 0..(n + 1) /\ Q # {} /\ n + 1 \in Q /\ n + 1 \in Nat
    BY <1>1
  <2>2. Max(Q) \in Q /\ \A x \in Q : x <= Max(Q)
    <3> HIDE DEF Q
    <3> QED
      BY <2>1, MaxIsMember
  <2>3. n + 1 <= Max(Q) /\ Max(Q) <= n + 1
    BY <1>1, <2>1, <2>2
  <2> HIDE DEF Q
  <2> QED
    BY <1>1, <2>1, <2>2, <2>3
<1>5. Q # {} /\ Q \ {n + 1} = P /\ P \subseteq Q
  <2>1. \A x : x \in P <=> x \in Q /\ x # n + 1
    BY <1>1
  <2>2. n + 1 \in Q
    BY <1>1
  <2> HIDE DEF P, Q
  <2> QED
    BY <2>1, <2>2
<1> HIDE DEF P, Q
<1>6. w = Step(what, h[P], e)
  <2>1. h[Q] = Step(what, h[Q \ {Max(Q)}], longer[Max(Q)])
    BY ONLY <1>3, <1>5, FoldsTop
  <2> QED
    BY <1>1, <1>3, <1>4, <1>5, <2>1
<1>7. PICK f : Folds(what, longer, P, f) /\ f[P] = h[P]
  BY ONLY <1>3, <1>5, FoldsSeenOnPart
<1>8. Folds(what, events, P, f)
  <2>1. \A i \in P : events[i] = longer[i]
    BY <1>1 DEF P
  <2>2. P \subseteq 1..n
    BY DEF P
  <2> QED
    BY <1>1, <1>7, <2>1, <2>2, FoldsAgree
<1>9. g[P] = h[P]
  <2>1. P \subseteq 1..n
    BY DEF P
  <2>2. f[P] = g[P]
    BY <1>1, <1>2, <1>8, <2>1, OneFold
  <2> QED
    BY <1>7, <2>2
<1> QED
  BY <1>2, <1>6, <1>9

(* What is announced of a log, and what it replays to, event by event. *)
LEMMA AnnouncedLaw ==
  ASSUME NEW E, NEW events \in Seq(E), NEW e \in E
  PROVE  /\ Announced(<<>>) = <<>>
         /\ e.kind = "token_delta" => Announced(Append(events, e)) = Announced(events)
         /\ e.kind # "token_delta" =>
               Announced(Append(events, e)) = Append(Announced(events), e)
<1>1. Append(events, e) \in Seq(E) /\ <<>> \in Seq(E)
  OBVIOUS
<1>2. Announced(Append(events, e)) = Step("announced", Announced(events), e)
  BY <1>1, AnnouncedReturns, ReturnsOneMore
<1>3. Announced(<<>>) = Base("announced")
  BY <1>1, AnnouncedReturns, ReturnsAtStart
<1> QED
  BY <1>2, <1>3 DEF Step, Base

LEMMA ReplayedLaw ==
  ASSUME NEW E, NEW events \in Seq(E), NEW e \in E
  PROVE  /\ Replayed(<<>>) = NothingYet
         /\ Replayed(Append(events, e)) = Folded(Replayed(events), e)
<1>1. Append(events, e) \in Seq(E) /\ <<>> \in Seq(E)
  OBVIOUS
<1>2. Replayed(Append(events, e)) = Step("replayed", Replayed(events), e)
  BY <1>1, ReplayedReturns, ReturnsOneMore
<1>3. Replayed(<<>>) = Base("replayed")
  BY <1>1, ReplayedReturns, ReturnsAtStart
<1> QED
  BY <1>2, <1>3 DEF Step, Base

-----------------------------------------------------------------------------
(* What a fold keeps of a part of the log.                                 *)

LEMMA LeastPosition ==
  ASSUME NEW n \in Nat, NEW S, S \subseteq 0..n, S # {}
  PROVE  \E x \in S : \A y \in S : x <= y
<1> DEFINE T == {n - x : x \in S}
<1>1. T \subseteq 0..n /\ T # {}
  <2>1. PICK x \in S : TRUE
    OBVIOUS
  <2>2. n - x \in T
    BY <2>1
  <2>3. \A x1 \in 0..n : n - x1 \in 0..n
    OBVIOUS
  <2> QED
    BY <2>2, <2>3
<1>2. Max(T) \in T /\ \A t \in T : t <= Max(T)
  <2> HIDE DEF T
  <2> QED
    BY <1>1, MaxIsMember
<1>3. PICK x \in S : Max(T) = n - x
  BY <1>2
<1>4. ASSUME NEW y \in S
      PROVE  x <= y
  <2>1. n - y \in T
    OBVIOUS
  <2>2. n - y <= n - x
    BY <1>2, <1>3, <2>1
  <2>3. x \in 0..n /\ y \in 0..n
    OBVIOUS
  <2> QED
    BY <2>2, <2>3
<1> QED
  BY <1>4

\* s is how t begins.
Part(s, t) == Len(s) <= Len(t) /\ \A i \in 1..Len(s) : s[i] = t[i]

LEMMA FrontStep ==
  ASSUME NEW E, NEW events \in Seq(E), NEW k \in 1..Len(events)
  PROVE  /\ SubSeq(events, 1, k - 1) \in Seq(E) /\ events[k] \in E
         /\ SubSeq(events, 1, k) = Append(SubSeq(events, 1, k - 1), events[k])
<1>1. events[k] \in E /\ k \in Nat /\ k - 1 \in Nat /\ k <= Len(events) /\ Len(events) \in Nat
  OBVIOUS
<1> DEFINE a == SubSeq(events, 1, k)
           f == SubSeq(events, 1, k - 1)
<1>2. /\ f \in Seq(E) /\ Len(f) = k - 1
      /\ \A i \in 1..(k - 1) : f[i] = events[i]
  OBVIOUS
<1>3. /\ a \in Seq(E) /\ Len(a) = k
      /\ \A i \in 1..k : a[i] = events[i]
  OBVIOUS
<1> HIDE DEF a, f
<1>4. Append(f, events[k]) \in Seq(E) /\ Len(Append(f, events[k])) = Len(a)
  BY <1>1, <1>2, <1>3
<1>5. \A i \in 1..Len(a) : Append(f, events[k])[i] = a[i]
  BY <1>1, <1>2, <1>3
<1>6. Append(f, events[k]) = a
  BY <1>3, <1>4, <1>5
<1> QED
  BY <1>1, <1>2, <1>6 DEF a, f

LEMMA AnnouncedOfFront ==
  ASSUME NEW E, NEW events \in Seq(E), NEW k \in 0..Len(events)
  PROVE  Announced(SubSeq(events, 1, k)) \in Seq(E)
<1> DEFINE A(i) == Announced(SubSeq(events, 1, i))
           bad == {i \in 0..Len(events) : ~ (A(i) \in Seq(E))}
<1>1. Len(events) \in Nat
  OBVIOUS
<1>2. A(0) = <<>>
  <2>1. SubSeq(events, 1, 0) = <<>>
    OBVIOUS
  <2>2. CASE E = {}
    <3>1. events = <<>>
      BY <2>2
    <3>2. Announced(<<>>) = Base("announced")
      BY <3>1, AnnouncedReturns, ReturnsAtStart
    <3> QED
      BY <2>1, <3>2 DEF Base
  <2>3. CASE E # {}
    <3>1. PICK e \in E : TRUE
      BY <2>3
    <3>2. Announced(<<>>) = <<>>
      BY AnnouncedLaw
    <3> QED
      BY <2>1, <3>2
  <2> QED
    BY <2>2, <2>3
<1>3. ASSUME NEW i \in 1..Len(events), A(i - 1) \in Seq(E)
      PROVE  A(i) \in Seq(E)
  <2>1. /\ SubSeq(events, 1, i - 1) \in Seq(E) /\ events[i] \in E
        /\ SubSeq(events, 1, i) = Append(SubSeq(events, 1, i - 1), events[i])
    BY FrontStep
  <2>2. A(i) \in {A(i - 1), Append(A(i - 1), events[i])}
    BY <2>1, AnnouncedLaw
  <2>3. A(i - 1) \in Seq(E) /\ events[i] \in E
    BY <1>3, <2>1
  <2> HIDE DEF A
  <2> QED
    BY <2>2, <2>3
<1>4. ASSUME bad # {}
      PROVE  FALSE
  <2> HIDE DEF A
  <2>1. PICK i \in bad : \A j \in bad : i <= j
    <3> DEFINE n == Len(events)
    <3>1. n \in Nat /\ bad \subseteq 0..n
      OBVIOUS
    <3> HIDE DEF bad, n
    <3> QED
      BY <1>4, <3>1, LeastPosition
  <2>2. i # 0
    <3>1. <<>> \in Seq(E)
      OBVIOUS
    <3>2. A(0) \in Seq(E)
      BY <1>2, <3>1
    <3>3. ~ (A(i) \in Seq(E))
      BY <2>1
    <3> QED
      BY <3>2, <3>3
  <2>3. i \in 1..Len(events) /\ i - 1 \in 0..Len(events) /\ ~ (i <= i - 1)
    BY <1>1, <2>1, <2>2
  <2>4. A(i - 1) \in Seq(E)
    BY <2>1, <2>3
  <2> QED
    BY <1>3, <2>1, <2>3, <2>4
<1>5. A(k) \in Seq(E)
  <2> HIDE DEF A
  <2> QED
    BY <1>4
<1> QED
  BY <1>5

LEMMA AnnouncedType ==
  ASSUME NEW E, NEW events \in Seq(E)
  PROVE  Announced(events) \in Seq(E)
<1>1. SubSeq(events, 1, Len(events)) = events /\ Len(events) \in 0..Len(events)
  OBVIOUS
<1> QED
  BY <1>1, AnnouncedOfFront

(* What is announced of the beginning of a log is how the whole announces begins. *)
LEMMA AnnouncedOfPart ==
  ASSUME NEW E, NEW events \in Seq(E), NEW k \in 0..Len(events)
  PROVE  Part(Announced(SubSeq(events, 1, k)), Announced(events))
<1> DEFINE n == Len(events)
           A(i) == Announced(SubSeq(events, 1, i))
           bad == {i \in 0..n : ~ Part(A(i), Announced(events))}
<1>1. n \in Nat
  OBVIOUS
<1>2. A(n) = Announced(events)
  <2>1. SubSeq(events, 1, n) = events
    OBVIOUS
  <2> QED
    BY <2>1
<1>3. \A i \in 0..n : A(i) \in Seq(E)
  BY AnnouncedOfFront
<1>4. ASSUME NEW i \in 1..n
      PROVE  Part(A(i - 1), A(i))
  <2>1. /\ SubSeq(events, 1, i - 1) \in Seq(E) /\ events[i] \in E
        /\ SubSeq(events, 1, i) = Append(SubSeq(events, 1, i - 1), events[i])
    BY FrontStep
  <2>2. A(i) \in {A(i - 1), Append(A(i - 1), events[i])}
    BY <2>1, AnnouncedLaw
  <2>3. A(i - 1) \in Seq(E)
    BY <1>1, <1>3
  <2> HIDE DEF A
  <2> QED
    BY <2>1, <2>2, <2>3 DEF Part
<1>5. ASSUME bad # {}
      PROVE  FALSE
  <2> HIDE DEF A
  <2>1. Max(bad) \in bad /\ \A i \in bad : i <= Max(bad)
    <3>1. bad \subseteq 0..n
      OBVIOUS
    <3> HIDE DEF bad, n
    <3> QED
      BY <1>1, <1>5, <3>1, MaxIsMember
  <2> DEFINE m == Max(bad)
  <2>2. m \in 0..n /\ ~ Part(A(m), Announced(events))
    BY <2>1
  <2>3. m # n
    <3>1. Part(A(n), Announced(events))
      BY <1>2 DEF Part
    <3> HIDE DEF m, n
    <3> QED
      BY <2>2, <3>1
  <2>4. m + 1 \notin bad /\ m + 1 \in 1..n
    <3> HIDE DEF m, bad, n
    <3>1. m + 1 \in 1..n /\ m \in Nat
      BY <1>1, <2>2, <2>3
    <3>2. ~ (m + 1 <= m)
      BY <3>1
    <3> QED
      BY <2>1, <3>1, <3>2 DEF m
  <2>5. Part(A(m + 1), Announced(events))
    <3> HIDE DEF m
    <3> QED
      BY <1>1, <2>4
  <2>6. Part(A(m), A(m + 1))
    <3> HIDE DEF m, n
    <3>1. (m + 1) - 1 = m
      BY <1>1, <2>2
    <3> QED
      BY <1>4, <2>4, <3>1
  <2>7. A(m) \in Seq(E) /\ A(m + 1) \in Seq(E) /\ Announced(events) \in Seq(E)
    <3> HIDE DEF m
    <3> QED
      BY <1>1, <1>3, <2>2, <2>4, AnnouncedType
  <2>8. Part(A(m), Announced(events))
    <3> HIDE DEF m
    <3> QED
      BY <2>5, <2>6, <2>7 DEF Part
  <2> QED
    BY <2>2, <2>8
<1>6. Part(A(k), Announced(events))
  <2> HIDE DEF A
  <2> QED
    BY <1>5
<1> QED
  BY <1>6

-----------------------------------------------------------------------------
(* The invariant.                                                          *)

\* The reliable ring holds every event of a turn but its pieces of text: its two
\* opening events, a call and a result for each call, and its end.
Rounds == MaxCalls * (MaxRounds - 1)
RingHoldsTurn == 3 + 2 * Rounds <= ReliableCapacity

Kinds   == {"turn_start", "user_message", "token_delta", "tool_call", "tool_result",
            "turn_end"}
Piece   == Nat \X Nat
Event   == [kind : Kinds, of : Piece]
Message == [role : {"user", "assistant", "tool"}, text : Seq(Piece), calls : Seq(Piece)]
Rebuild == [messages : Seq(Message), open : BOOLEAN, text : Seq(Piece), calls : Seq(Piece)]
Course  == [does : {"streaming", "calling", "answering", "ending", "broken", "failed", "over"},
            round : 1..MaxRounds, text : Seq(Piece), calls : Seq(Piece)]

Asking == turn.does \in {"calling", "answering"}
Done   == turn.does \in {"over", "failed"}

Types ==
    /\ turn \in Course
    /\ sent \in Seq(Event) /\ lossy \in Seq(Event) /\ reliable \in Seq(Event)
    /\ buffer \in Seq(Event) /\ disk \in Seq(Event)
    /\ printer \in {"running", "stopped", "broken", "killed"}
    /\ Asking => turn.calls # <<>> /\ turn.round < MaxRounds

\* How what the turn has announced is ordered: no pieces of text, a call and then its
\* result, and nothing after the end.
Ordered(said, t) ==
    /\ Len(said) >= 1
    /\ \A i \in 1..Len(said) : said[i].kind # "token_delta"
    /\ \A i \in 1..(Len(said) - 1) :
          said[i].kind = "tool_call" => said[i + 1] = Returned(said[i].of)
    /\ \A i \in 1..Len(said) :
          said[i].kind = "tool_result" => i > 1 /\ said[i - 1] = Called(said[i].of)
    /\ \A i \in 1..Len(said) :
          said[i].kind = "turn_end" => i = Len(said) /\ t.does \in {"over", "failed"}
    /\ t.does = "answering" => said[Len(said)] = Called(Head(t.calls))
    /\ t.does # "answering" => said[Len(said)].kind # "tool_call"

\* How many events the turn may still announce.
Left(t) ==
    CASE t.does = "streaming" -> 1 + 2 * (MaxCalls * (MaxRounds - t.round))
      [] t.does = "calling"   -> 1 + 2 * Len(t.calls) + 2 * (MaxCalls * (MaxRounds - t.round - 1))
      [] t.does = "answering" -> 2 * Len(t.calls) + 2 * (MaxCalls * (MaxRounds - t.round - 1))
      [] t.does \in {"ending", "broken"} -> 1
      [] OTHER -> 0

Room(said, t) == Len(said) + Left(t) <= 3 + 2 * Rounds

\* queue is what of said is not in written.
Follows(written, said, queue) ==
    /\ Len(said) = Len(written) + Len(queue)
    /\ \A i \in 1..Len(queue) : queue[i] = said[Len(written) + i]

\* What is recorded is how the course began; while the printer runs, what it has not
\* received is the rest of it.
Logged(written, said) ==
    /\ Part(written, said)
    /\ printer = "running" => Follows(written, said, reliable)
    /\ printer # "running" => buffer = <<>>
    /\ printer = "stopped" => written = said /\ Done
    /\ \A i \in 1..Len(lossy) : lossy[i].kind = "token_delta"

Answered(messages) ==
    \A i \in 1..Len(messages) : messages[i].calls # <<>> =>
        /\ i < Len(messages) /\ messages[i + 1].role = "tool"
        /\ messages[i].calls = messages[i + 1].text

\* What the rebuild has in hand after the written log: at most the one call that was
\* announced last.
InHand(r, written) ==
    /\ r \in Rebuild
    /\ Answered(r.messages)
    /\ r.calls # <<>> => /\ Len(written) >= 1
                         /\ \E c \in Piece : written[Len(written)] = Called(c) /\ r.calls = <<c>>

Log == disk \o buffer

IInv ==
    /\ Types
    /\ Ordered(Announced(sent), turn)
    /\ Room(Announced(sent), turn)
    /\ Logged(Announced(Log), Announced(sent))
    /\ printer \in {"running", "stopped"} => InHand(Replayed(Log), Announced(Log))
    /\ printer = "stopped" => Replayed(Log).calls = <<>>

LEMMA LogTypes ==
  ASSUME Types
  PROVE  /\ Log \in Seq(Event)
         /\ Announced(Log) \in Seq(Event)
         /\ Announced(sent) \in Seq(Event)
<1>1. Log \in Seq(Event)
  BY DEF Types, Log
<1> QED
  BY <1>1, AnnouncedType DEF Types

LEMMA EventTypes ==
  ASSUME NEW c \in Piece
  PROVE  Delta(c) \in Event /\ Called(c) \in Event /\ Returned(c) \in Event
BY DEF Delta, Called, Returned, Event, Kinds

LEMMA LifecycleType ==
  ASSUME NEW k \in Kinds
  PROVE  Lifecycle(k) \in Event
BY DEF Lifecycle, Event, Piece

(* What a message adds to a conversation whose calls are answered. *)
LEMMA AnsweredOneMore ==
  ASSUME NEW messages \in Seq(Message), Answered(messages), NEW m \in Message, m.calls = <<>>
  PROVE  Append(messages, m) \in Seq(Message) /\ Answered(Append(messages, m))
<1> DEFINE longer == Append(messages, m)
           n == Len(messages)
<1>1. /\ longer \in Seq(Message) /\ n \in Nat /\ Len(longer) = n + 1
      /\ longer[n + 1] = m /\ \A i \in 1..n : longer[i] = messages[i]
  OBVIOUS
<1> HIDE DEF longer, n
<1>2. ASSUME NEW i \in 1..(n + 1), longer[i].calls # <<>>
      PROVE  /\ i < n + 1 /\ longer[i + 1].role = "tool"
             /\ longer[i].calls = longer[i + 1].text
  <2>1. i \in 1..n
    BY <1>1, <1>2
  <2>2. messages[i].calls # <<>>
    BY <1>1, <1>2, <2>1
  <2>3. /\ i < n /\ messages[i + 1].role = "tool"
        /\ messages[i].calls = messages[i + 1].text
    BY <2>1, <2>2 DEF Answered, n
  <2>4. i + 1 \in 1..n
    BY <1>1, <2>1, <2>3
  <2> QED
    BY <1>1, <2>1, <2>3, <2>4
<1>3. Answered(longer)
  BY <1>1, <1>2 DEF Answered
<1> QED
  BY <1>1, <1>3 DEF longer

LEMMA AnsweredPair ==
  ASSUME NEW messages \in Seq(Message), Answered(messages), NEW c \in Piece, NEW text \in Seq(Piece)
  PROVE  LET more == Append(Append(messages, Said(text, <<c>>)), Reply(c))
         IN  more \in Seq(Message) /\ Answered(more)
<1> DEFINE asks == Said(text, <<c>>)
           tool == Reply(c)
           more == Append(Append(messages, asks), tool)
           n == Len(messages)
<1>1. /\ asks \in Message /\ asks.calls = <<c>>
      /\ tool \in Message /\ tool.calls = <<>> /\ tool.text = <<c>> /\ tool.role = "tool"
  BY DEF Said, Reply, Message
<1> HIDE DEF asks, tool
<1>2. /\ more \in Seq(Message) /\ n \in Nat /\ Len(more) = n + 2
      /\ more[n + 1] = asks /\ more[n + 2] = tool
      /\ \A i \in 1..n : more[i] = messages[i]
  BY <1>1
<1> HIDE DEF more, n
<1>3. ASSUME NEW i \in 1..(n + 2), more[i].calls # <<>>
      PROVE  /\ i < n + 2 /\ more[i + 1].role = "tool"
             /\ more[i].calls = more[i + 1].text
  <2>1. i # n + 2
    BY <1>1, <1>2, <1>3
  <2>2. CASE i = n + 1
    <3>1. i + 1 = n + 2 /\ i < n + 2
      BY <1>2, <2>2
    <3> QED
      BY <1>1, <1>2, <2>2, <3>1
  <2>3. CASE i \in 1..n
    <3>1. messages[i].calls # <<>>
      BY <1>2, <1>3, <2>3
    <3>2. /\ i < n /\ messages[i + 1].role = "tool"
          /\ messages[i].calls = messages[i + 1].text
      BY <2>3, <3>1 DEF Answered, n
    <3>3. i + 1 \in 1..n /\ i < n + 2
      BY <1>2, <2>3, <3>2
    <3> QED
      BY <1>2, <2>3, <3>2, <3>3
  <2> QED
    BY <1>2, <2>1, <2>2, <2>3
<1>4. Answered(more)
  BY <1>2, <1>3 DEF Answered
<1> QED
  BY <1>2, <1>4 DEF more, asks, tool

(* flush_turn closes the message in hand; without a call in it, it asks for none. *)
LEMMA FlushedQuiet ==
  ASSUME NEW r \in Rebuild, Answered(r.messages), r.calls = <<>>
  PROVE  /\ Flushed(r) \in Rebuild /\ Answered(Flushed(r).messages)
         /\ Flushed(r).calls = <<>> /\ ~ Flushed(r).open
<1> DEFINE kept == IF r.open /\ (r.text # <<>> \/ r.calls # <<>>)
                   THEN Append(r.messages, Said(r.text, r.calls)) ELSE r.messages
<1>1. r.messages \in Seq(Message) /\ r.text \in Seq(Piece) /\ r.calls \in Seq(Piece)
  BY DEF Rebuild
<1>2. Said(r.text, r.calls) \in Message /\ Said(r.text, r.calls).calls = <<>>
  BY <1>1 DEF Said, Message
<1>3. kept \in Seq(Message) /\ Answered(kept)
  <2>1. CASE kept = r.messages
    BY <1>1, <2>1
  <2>2. CASE kept = Append(r.messages, Said(r.text, r.calls))
    BY <1>1, <1>2, <2>2, AnsweredOneMore
  <2> QED
    BY <2>1, <2>2
<1>4. Flushed(r) = [messages |-> kept, open |-> FALSE, text |-> <<>>, calls |-> <<>>]
  <2>1. Flushed(r) = [NothingYet EXCEPT !.messages = kept]
    BY DEF Flushed
  <2> HIDE DEF kept
  <2> QED
    BY <2>1 DEF NothingYet
<1>5. <<>> \in Seq(Piece)
  OBVIOUS
<1> HIDE DEF kept
<1> QED
  BY <1>3, <1>4, <1>5 DEF Rebuild

(* With the one call just announced in hand, its result closes the pair. *)
LEMMA FlushedAsking ==
  ASSUME NEW r \in Rebuild, Answered(r.messages), NEW c \in Piece, r.calls = <<c>>
  PROVE  /\ Append(Flushed(r).messages, Reply(c)) \in Seq(Message)
         /\ Answered(Append(Flushed(r).messages, Reply(c)))
<1>1. r.messages \in Seq(Message) /\ r.text \in Seq(Piece)
  BY DEF Rebuild
<1>2. Reply(c) \in Message /\ Reply(c).calls = <<>>
  BY DEF Reply, Message
<1>3. CASE r.open
  <2>1. r.calls # <<>>
    OBVIOUS
  <2>2. Flushed(r).messages = Append(r.messages, Said(r.text, <<c>>))
    BY <1>3, <2>1 DEF Flushed, NothingYet
  <2> QED
    BY <1>1, <2>2, AnsweredPair
<1>4. CASE ~ r.open
  <2>1. Flushed(r).messages = r.messages
    BY <1>4 DEF Flushed, NothingYet
  <2> QED
    BY <1>1, <1>2, <2>1, AnsweredOneMore
<1> QED
  BY <1>3, <1>4

(* The rebuild of one more event: what is in hand stays the call last announced. *)
LEMMA InHandStep ==
  ASSUME NEW written \in Seq(Event), NEW r, InHand(r, written), NEW e \in Event,
         e.kind = "tool_result" => Len(written) >= 1 /\ written[Len(written)] = Called(e.of),
         Len(written) >= 1 /\ written[Len(written)].kind = "tool_call"
            => e.kind \in {"tool_result", "token_delta"}
  PROVE  /\ e.kind = "token_delta" => InHand(Folded(r, e), written)
         /\ e.kind # "token_delta" => InHand(Folded(r, e), Append(written, e))
         /\ e.kind = "turn_end" => Folded(r, e).calls = <<>>
<1> DEFINE longer == Append(written, e)
<1>1. /\ r \in Rebuild /\ Answered(r.messages)
      /\ r.calls # <<>> => /\ Len(written) >= 1
                           /\ \E c \in Piece : written[Len(written)] = Called(c) /\ r.calls = <<c>>
  BY DEF InHand
<1>2. /\ r.messages \in Seq(Message) /\ r.open \in BOOLEAN /\ r.text \in Seq(Piece)
      /\ r.calls \in Seq(Piece) /\ e.of \in Piece /\ e.kind \in Kinds
      /\ r = [messages |-> r.messages, open |-> r.open, text |-> r.text, calls |-> r.calls]
  BY <1>1 DEF Rebuild, Event
<1>3. Len(longer) >= 1 /\ longer[Len(longer)] = e
  OBVIOUS
<1>4. /\ Reply(e.of) \in Message /\ Reply(e.of).calls = <<>>
      /\ User \in Message /\ User.calls = <<>>
  <2>1. /\ Reply(e.of).text = <<e.of>> /\ Reply(e.of) \in Message /\ Reply(e.of).calls = <<>>
    BY <1>2 DEF Reply, Message
  <2>2. <<0, 0>> \in Piece
    BY DEF Piece
  <2>3. << <<0, 0>> >> \in Seq(Piece) /\ <<>> \in Seq(Piece)
    BY <2>2
  <2>4. User \in Message /\ User.calls = <<>>
    BY <2>3 DEF User, Message
  <2> QED
    BY <2>1, <2>4
<1>5. ASSUME r.calls # <<>>
      PROVE  e.kind \in {"tool_result", "token_delta"}
  <2>1. PICK c \in Piece : written[Len(written)] = Called(c)
    BY <1>1, <1>5
  <2>2. Called(c).kind = "tool_call"
    BY DEF Called
  <2>3. Len(written) >= 1 /\ written[Len(written)].kind = "tool_call"
    BY <1>1, <1>5, <2>1, <2>2
  <2> QED
    BY <2>3
<1>6. CASE e.kind = "token_delta"
  <2>1. \/ Folded(r, e) = r
        \/ Folded(r, e) = [messages |-> r.messages, open |-> r.open,
                           text |-> Append(r.text, e.of), calls |-> r.calls]
    BY <1>2, <1>6 DEF Folded
  <2>2. Append(r.text, e.of) \in Seq(Piece)
    BY <1>2
  <2>3. /\ Folded(r, e) \in Rebuild /\ Folded(r, e).messages = r.messages
        /\ Folded(r, e).calls = r.calls
    <3>1. CASE Folded(r, e) = r
      BY <1>1, <3>1
    <3>2. CASE Folded(r, e) = [messages |-> r.messages, open |-> r.open,
                               text |-> Append(r.text, e.of), calls |-> r.calls]
      BY ONLY <1>2, <2>2, <3>2 DEF Rebuild
    <3> QED
      BY <2>1, <3>1, <3>2
  <2> QED
    BY <1>1, <1>6, <2>3 DEF InHand
<1>7. CASE e.kind = "tool_call"
  <2>1. r.calls = <<>>
    BY <1>5, <1>7
  <2>2. \/ Folded(r, e) = r
        \/ Folded(r, e) = [messages |-> r.messages, open |-> r.open, text |-> r.text,
                           calls |-> <<e.of>>]
    <3>1. Append(r.calls, e.of) = <<e.of>>
      BY <2>1
    <3> QED
      BY <1>2, <1>7, <3>1 DEF Folded
  <2>3. <<e.of>> \in Seq(Piece)
    BY <1>2
  <2>4. /\ Folded(r, e) \in Rebuild /\ Folded(r, e).messages = r.messages
        /\ Folded(r, e).calls \in {<<>>, <<e.of>>}
    <3>1. CASE Folded(r, e) = r
      BY <1>1, <2>1, <3>1
    <3>2. CASE Folded(r, e) = [messages |-> r.messages, open |-> r.open, text |-> r.text,
                               calls |-> <<e.of>>]
      BY ONLY <1>2, <2>3, <3>2 DEF Rebuild
    <3> QED
      BY <2>2, <3>1, <3>2
  <2>5. e = Called(e.of)
    BY <1>7 DEF Event, Called
  <2> HIDE DEF longer
  <2>6. InHand(Folded(r, e), longer)
    BY <1>1, <1>2, <1>3, <2>4, <2>5 DEF InHand
  <2> QED
    BY <1>7, <2>6 DEF longer
<1>8. CASE e.kind = "tool_result"
  <2> DEFINE messages == Append(Flushed(r).messages, Reply(e.of))
  <2>1. Folded(r, e) = [messages |-> messages, open |-> TRUE, text |-> <<>>, calls |-> <<>>]
    BY <1>8 DEF Folded, Flushed, NothingYet
  <2>2. messages \in Seq(Message) /\ Answered(messages)
    <3>1. CASE r.calls = <<>>
      <4>1. Flushed(r) \in Rebuild /\ Answered(Flushed(r).messages)
        BY <1>1, <3>1, FlushedQuiet
      <4>2. Flushed(r).messages \in Seq(Message)
        BY <4>1 DEF Rebuild
      <4> QED
        BY <1>4, <4>1, <4>2, AnsweredOneMore
    <3>2. CASE r.calls # <<>>
      <4>1. PICK c \in Piece : written[Len(written)] = Called(c) /\ r.calls = <<c>>
        BY <1>1, <3>2
      <4>2. c = e.of
        BY <1>8, <4>1 DEF Called
      <4> QED
        BY <1>1, <4>1, <4>2, FlushedAsking
    <3> QED
      BY <3>1, <3>2
  <2> HIDE DEF messages
  <2>3. <<>> \in Seq(Piece)
    OBVIOUS
  <2>4. /\ Folded(r, e) \in Rebuild /\ Folded(r, e).messages = messages
        /\ Folded(r, e).calls = <<>>
    BY ONLY <2>1, <2>2, <2>3 DEF Rebuild
  <2> QED
    BY <1>8, <2>2, <2>4 DEF InHand
<1>9. CASE e.kind \in {"turn_start", "user_message", "turn_end"}
  <2> DEFINE f == Flushed(r)
  <2>1. r.calls = <<>>
    BY <1>5, <1>9
  <2>2. f \in Rebuild /\ Answered(f.messages) /\ f.calls = <<>>
    BY <1>1, <2>1, FlushedQuiet
  <2> HIDE DEF f
  <2>3. /\ f.messages \in Seq(Message) /\ f.open \in BOOLEAN /\ f.text \in Seq(Piece)
        /\ f = [messages |-> f.messages, open |-> f.open, text |-> f.text, calls |-> f.calls]
    BY <2>2 DEF Rebuild
  <2>4. \/ Folded(r, e) = f
        \/ Folded(r, e) = [messages |-> f.messages, open |-> TRUE, text |-> f.text, calls |-> <<>>]
        \/ Folded(r, e) = [messages |-> Append(f.messages, User), open |-> f.open,
                           text |-> f.text, calls |-> <<>>]
    BY <1>9, <2>2, <2>3 DEF Folded, f
  <2>5. Append(f.messages, User) \in Seq(Message) /\ Answered(Append(f.messages, User))
    BY <1>4, <2>2, <2>3, AnsweredOneMore
  <2>6. <<>> \in Seq(Piece)
    OBVIOUS
  <2>7. /\ Folded(r, e) \in Rebuild /\ Answered(Folded(r, e).messages)
        /\ Folded(r, e).calls = <<>>
    <3>1. CASE Folded(r, e) = f
      BY <2>2, <3>1
    <3>2. CASE Folded(r, e) = [messages |-> f.messages, open |-> TRUE, text |-> f.text,
                               calls |-> <<>>]
      BY ONLY <2>2, <2>3, <2>6, <3>2 DEF Rebuild
    <3>3. CASE Folded(r, e) = [messages |-> Append(f.messages, User), open |-> f.open,
                               text |-> f.text, calls |-> <<>>]
      BY ONLY <2>3, <2>5, <2>6, <3>3 DEF Rebuild
    <3> QED
      BY <2>4, <3>1, <3>2, <3>3
  <2> QED
    BY <1>9, <2>7 DEF InHand
<1> QED
  BY <1>2, <1>6, <1>7, <1>8, <1>9 DEF Kinds

-----------------------------------------------------------------------------
(* The turn's steps.                                                       *)

LEMMA RoomArithmetic ==
  ASSUME NEW k \in Nat
  PROVE  MaxCalls * (k + 1) = MaxCalls * k + MaxCalls /\ MaxCalls * k \in Nat
BY RecordingAssumption

(* What the turn has announced grows by the event it sends, if that is no text. *)
LEMMA SaidStep ==
  ASSUME Types, NEW e \in Event, Send(e)
  PROVE  /\ sent' \in Seq(Event)
         /\ IsLossy(e) => Announced(sent') = Announced(sent)
         /\ ~ IsLossy(e) => Announced(sent') = Append(Announced(sent), e)
BY AnnouncedLaw DEF Types, Send, IsLossy

(* While the ring holds the turn, nothing falls out of it. *)
LEMMA RingStep ==
  ASSUME RingHoldsTurn, Types, Room(Announced(sent), turn), Left(turn) \in Nat \ {0},
         Logged(Announced(Log), Announced(sent)), NEW e \in Event, Send(e)
  PROVE  /\ reliable' \in Seq(Event) /\ lossy' \in Seq(Event)
         /\ printer = "running" /\ ~ IsLossy(e) => reliable' = Append(reliable, e)
         /\ ~ (printer = "running" /\ ~ IsLossy(e)) => reliable' = reliable
         /\ \A i \in 1..Len(lossy') : lossy'[i].kind = "token_delta"
<1>1. /\ reliable \in Seq(Event) /\ lossy \in Seq(Event)
      /\ LossyCapacity \in Nat \ {0} /\ ReliableCapacity \in Nat \ {0}
  BY RecordingAssumption DEF Types
<1>2. Announced(Log) \in Seq(Event) /\ Announced(sent) \in Seq(Event)
  BY LogTypes
<1>3. printer = "running" => Len(reliable) < ReliableCapacity
  <2>1. Len(Announced(sent)) + Left(turn) <= ReliableCapacity
    <3>1. Rounds \in Nat
      <4>1. MaxRounds - 1 \in Nat
        BY RecordingAssumption
      <4> QED
        BY <4>1, RoomArithmetic DEF Rounds
    <3> QED
      BY <1>1, <1>2, <3>1 DEF Room, RingHoldsTurn
  <2>2. printer = "running" => Len(reliable) <= Len(Announced(sent))
    BY <1>1, <1>2 DEF Logged, Follows
  <2> QED
    BY <1>1, <1>2, <2>1, <2>2
<1>4. printer = "running" => Ring(reliable, ReliableCapacity, e) = Append(reliable, e)
  BY <1>3 DEF Ring
<1>5. /\ Ring(lossy, LossyCapacity, e) \in Seq(Event)
      /\ IsLossy(e) => \A i \in 1..Len(Ring(lossy, LossyCapacity, e)) :
                          Ring(lossy, LossyCapacity, e)[i].kind = "token_delta"
  <2> DEFINE kept == IF Len(lossy) < LossyCapacity THEN lossy ELSE Tail(lossy)
  <2>1. kept \in Seq(Event) /\ \A i \in 1..Len(kept) : kept[i].kind = "token_delta"
    <3>1. CASE Len(lossy) < LossyCapacity
      BY <1>1, <3>1 DEF Logged
    <3>2. CASE ~ (Len(lossy) < LossyCapacity)
      <4>1. lossy # <<>> /\ Tail(lossy) \in Seq(Event)
        BY <1>1, <3>2
      <4>2. \A i \in 1..Len(Tail(lossy)) :
               i + 1 \in 1..Len(lossy) /\ Tail(lossy)[i] = lossy[i + 1]
        BY <1>1, <4>1
      <4> QED
        BY <3>2, <4>1, <4>2 DEF Logged
    <3> QED
      BY <3>1, <3>2
  <2>2. Ring(lossy, LossyCapacity, e) = Append(kept, e)
    BY DEF Ring
  <2> HIDE DEF kept
  <2>3. \A i \in 1..Len(Append(kept, e)) :
           Append(kept, e)[i] = IF i = Len(kept) + 1 THEN e ELSE kept[i]
    BY <2>1
  <2>4. \A i \in 1..Len(Append(kept, e)) : i = Len(kept) + 1 \/ i \in 1..Len(kept)
    BY <2>1
  <2> QED
    BY <2>1, <2>2, <2>3, <2>4 DEF IsLossy
<1>6. Append(reliable, e) \in Seq(Event)
  BY <1>1
<1>7. lossy' = lossy \/ (IsLossy(e) /\ lossy' = Ring(lossy, LossyCapacity, e))
  BY DEF Send
<1>8. lossy' \in Seq(Event) /\ \A i \in 1..Len(lossy') : lossy'[i].kind = "token_delta"
  BY <1>1, <1>5, <1>7 DEF Logged
<1>9. /\ printer = "running" /\ ~ IsLossy(e) => reliable' = Append(reliable, e)
      /\ ~ (printer = "running" /\ ~ IsLossy(e)) => reliable' = reliable
  BY <1>4 DEF Send
<1> QED
  BY <1>1, <1>6, <1>8, <1>9

LEMMA PartOneMore ==
  ASSUME NEW written \in Seq(Event), NEW said \in Seq(Event), Part(written, said), NEW e \in Event
  PROVE  Part(written, Append(said, e))
BY DEF Part

LEMMA FollowsSent ==
  ASSUME NEW written \in Seq(Event), NEW said \in Seq(Event), NEW queue \in Seq(Event),
         Follows(written, said, queue), NEW e \in Event
  PROVE  Follows(written, Append(said, e), Append(queue, e))
<1> DEFINE m == Len(written)
           n == Len(queue)
           more == Append(said, e)
           longer == Append(queue, e)
<1>1. /\ m \in Nat /\ n \in Nat /\ Len(said) = m + n
      /\ \A i \in 1..n : queue[i] = said[m + i]
  BY DEF Follows
<1>2. /\ Len(more) = m + n + 1 /\ more[m + n + 1] = e
      /\ \A i \in 1..(m + n) : more[i] = said[i]
  BY <1>1
<1>3. /\ Len(longer) = n + 1 /\ longer[n + 1] = e
      /\ \A i \in 1..n : longer[i] = queue[i]
  BY <1>1
<1> HIDE DEF more, longer, m, n
<1>4. ASSUME NEW i \in 1..(n + 1)
      PROVE  longer[i] = more[m + i]
  <2>1. CASE i = n + 1
    BY <1>1, <1>2, <1>3, <2>1
  <2>2. CASE i \in 1..n
    <3>1. m + i \in 1..(m + n)
      BY <1>1, <2>2
    <3> QED
      BY <1>1, <1>2, <1>3, <2>2, <3>1
  <2> QED
    BY <1>1, <2>1, <2>2
<1> QED
  BY <1>1, <1>2, <1>3, <1>4 DEF Follows, more, longer, m, n

LEMMA FollowsReceived ==
  ASSUME NEW written \in Seq(Event), NEW said \in Seq(Event), NEW queue \in Seq(Event),
         Follows(written, said, queue), Part(written, said), queue # <<>>
  PROVE  /\ Len(written) + 1 \in 1..Len(said) /\ said[Len(written) + 1] = Head(queue)
         /\ Follows(Append(written, Head(queue)), said, Tail(queue))
         /\ Part(Append(written, Head(queue)), said)
<1> DEFINE m == Len(written)
           n == Len(queue)
           more == Append(written, Head(queue))
           rest == Tail(queue)
<1>1. /\ m \in Nat /\ n \in Nat /\ n >= 1 /\ Len(said) = m + n
      /\ \A i \in 1..n : queue[i] = said[m + i]
      /\ Head(queue) = queue[1]
  BY DEF Follows
<1>2. /\ Len(more) = m + 1 /\ more[m + 1] = Head(queue)
      /\ \A i \in 1..m : more[i] = written[i]
  BY <1>1
<1>3. /\ Len(rest) = n - 1
      /\ \A i \in 1..(n - 1) : rest[i] = queue[i + 1]
  BY <1>1
<1>4. \A i \in 1..m : written[i] = said[i]
  BY DEF Part
<1> HIDE DEF more, rest, m, n
<1>5. m + 1 \in 1..Len(said) /\ said[m + 1] = Head(queue)
  BY <1>1
<1>6. ASSUME NEW i \in 1..(n - 1)
      PROVE  rest[i] = said[m + 1 + i]
  <2>1. i + 1 \in 1..n /\ m + (i + 1) = m + 1 + i
    BY <1>1
  <2>2. queue[i + 1] = said[m + (i + 1)]
    BY <1>1, <2>1
  <2> QED
    BY <1>3, <2>1, <2>2
<1>7. Follows(more, said, rest)
  <2>1. Len(said) = Len(more) + Len(rest)
    BY <1>1, <1>2, <1>3
  <2>2. \A i \in 1..Len(rest) : rest[i] = said[Len(more) + i]
    BY <1>2, <1>3, <1>6
  <2> QED
    BY <2>1, <2>2 DEF Follows
<1>8. ASSUME NEW i \in 1..(m + 1)
      PROVE  more[i] = said[i]
  <2>1. i = m + 1 \/ i \in 1..m
    BY <1>1
  <2> QED
    BY <1>2, <1>4, <1>5, <2>1
<1>9. Part(more, said)
  BY <1>1, <1>2, <1>8 DEF Part
<1> QED
  BY <1>5, <1>7, <1>9 DEF more, rest, m

(* An event that may come next leaves what is announced in order. *)
LEMMA OrderedMore ==
  ASSUME NEW said \in Seq(Event), NEW t, Ordered(said, t), NEW e \in Event, NEW u,
         t.does \notin {"over", "failed"}, e.kind # "token_delta",
         said[Len(said)].kind = "tool_call" => e = Returned(said[Len(said)].of),
         e.kind = "tool_result" => said[Len(said)] = Called(e.of),
         e.kind = "turn_end" => u.does \in {"over", "failed"},
         u.does = "answering" => e = Called(Head(u.calls)),
         u.does # "answering" => e.kind # "tool_call"
  PROVE  Ordered(Append(said, e), u)
<1> DEFINE n == Len(said)
           more == Append(said, e)
<1>1. /\ n \in Nat /\ Len(more) = n + 1 /\ more[n + 1] = e
      /\ \A i \in 1..n : more[i] = said[i]
  OBVIOUS
<1>2. /\ n >= 1
      /\ \A i \in 1..n : said[i].kind # "token_delta"
      /\ \A i \in 1..(n - 1) : said[i].kind = "tool_call" => said[i + 1] = Returned(said[i].of)
      /\ \A i \in 1..n : said[i].kind = "tool_result" => i > 1 /\ said[i - 1] = Called(said[i].of)
      /\ \A i \in 1..n : said[i].kind # "turn_end"
  BY DEF Ordered
<1>3. /\ said[n].kind = "tool_call" => e = Returned(said[n].of)
      /\ e.kind = "tool_result" => said[n] = Called(e.of)
  OBVIOUS
<1> HIDE DEF more, n
<1>4. ASSUME NEW i \in 1..n, more[i].kind = "tool_call"
      PROVE  more[i + 1] = Returned(more[i].of)
  <2>1. CASE i = n
    BY <1>1, <1>3, <1>4, <2>1
  <2>2. CASE i # n
    <3>1. i \in 1..(n - 1) /\ i + 1 \in 1..n
      BY <1>1, <2>2
    <3> QED
      BY <1>1, <1>2, <1>4, <3>1
  <2> QED
    BY <2>1, <2>2
<1>5. ASSUME NEW i \in 1..(n + 1), more[i].kind = "tool_result"
      PROVE  i > 1 /\ more[i - 1] = Called(more[i].of)
  <2>1. CASE i = n + 1
    <3>1. i > 1 /\ i - 1 = n /\ n \in 1..n
      BY <1>1, <1>2, <2>1
    <3> QED
      BY <1>1, <1>3, <1>5, <2>1, <3>1
  <2>2. CASE i # n + 1
    <3>1. i \in 1..n
      BY <1>1, <2>2
    <3>2. i > 1 /\ said[i - 1] = Called(said[i].of)
      BY <1>1, <1>2, <1>5, <3>1
    <3>3. i - 1 \in 1..n
      BY <1>1, <3>1, <3>2
    <3> QED
      BY <1>1, <3>1, <3>2, <3>3
  <2> QED
    BY <2>1, <2>2
<1>6. ASSUME NEW i \in 1..(n + 1), more[i].kind = "turn_end"
      PROVE  i = n + 1 /\ u.does \in {"over", "failed"}
  <2>1. i \in 1..n \/ i = n + 1
    BY <1>1
  <2> QED
    BY <1>1, <1>2, <1>6, <2>1
<1>7. (n + 1) - 1 = n /\ n + 1 >= 1
  BY <1>1
<1>8. \A i \in 1..(n + 1) : more[i].kind # "token_delta"
  <2>1. \A i \in 1..(n + 1) : i \in 1..n \/ i = n + 1
    BY <1>1
  <2> QED
    BY <1>1, <1>2, <2>1
<1>9. Ordered(more, u)
  BY <1>1, <1>4, <1>5, <1>6, <1>7, <1>8 DEF Ordered
<1> QED
  BY <1>9 DEF more

(* A step of the turn that announces nothing keeps the order. *)
LEMMA OrderedSame ==
  ASSUME NEW said \in Seq(Event), NEW t, Ordered(said, t), NEW u,
         t.does \notin {"over", "failed", "answering"}, u.does # "answering"
  PROVE  Ordered(said, u)
BY DEF Ordered

(* The beginning: the turn has opened, and the printer has received nothing. *)
LEMMA AtFirst ==
  ASSUME Init
  PROVE  IInv
<1> DEFINE opens == Lifecycle("turn_start")
           asked == Lifecycle("user_message")
<1>1. /\ opens \in Event /\ asked \in Event
      /\ opens.kind = "turn_start" /\ asked.kind = "user_message"
  <2>1. "turn_start" \in Kinds /\ "user_message" \in Kinds
    BY DEF Kinds
  <2> QED
    BY <2>1, LifecycleType DEF Lifecycle
<1>2. Opening = <<opens, asked>>
  BY DEF Opening
<1> HIDE DEF opens, asked
<1>3. <<opens>> \in Seq(Event) /\ Opening \in Seq(Event) /\ <<>> \in Seq(Event)
  BY <1>1, <1>2
<1>4. Announced(Opening) = Opening
  <2>1. Announced(<<>>) = <<>>
    BY <1>1, <1>3, AnnouncedLaw
  <2>2. Announced(<<opens>>) = <<opens>>
    <3>1. <<opens>> = Append(<<>>, opens)
      OBVIOUS
    <3>2. Announced(Append(<<>>, opens)) = Append(Announced(<<>>), opens)
      BY <1>1, <1>3, AnnouncedLaw
    <3> QED
      BY <2>1, <3>1, <3>2
  <2>3. Announced(Append(<<opens>>, asked)) = Append(Announced(<<opens>>), asked)
    BY <1>1, <1>3, AnnouncedLaw
  <2>4. Opening = Append(<<opens>>, asked)
    BY <1>2
  <2> QED
    BY <2>2, <2>3, <2>4
<1>5. Log = <<>> /\ Announced(Log) = <<>> /\ Replayed(Log) = NothingYet
  <2>1. Log = <<>>
    BY DEF Init, Log
  <2> QED
    BY <1>1, <1>3, <2>1, AnnouncedLaw, ReplayedLaw
<1>6. Types
  <2>1. turn \in Course /\ ~ Asking
    <3>1. 1 \in 1..MaxRounds /\ <<>> \in Seq(Piece)
      BY RecordingAssumption
    <3> QED
      BY <3>1 DEF Init, Course, Asking
  <2> QED
    BY <1>3, <2>1 DEF Init, Types
<1>7. Ordered(Opening, turn)
  BY <1>1, <1>2 DEF Ordered, Init
<1>8. Room(Opening, turn)
  <2>1. Left(turn) = 1 + 2 * Rounds
    BY DEF Left, Init, Rounds
  <2>2. Rounds \in Nat
    <3>1. MaxRounds - 1 \in Nat
      BY RecordingAssumption
    <3> QED
      BY <3>1, RoomArithmetic DEF Rounds
  <2> QED
    BY <1>2, <2>1, <2>2 DEF Room
<1>9. Logged(<<>>, Opening)
  BY <1>2 DEF Logged, Part, Follows, Init
<1>10. InHand(NothingYet, <<>>)
  BY DEF InHand, NothingYet, Rebuild, Answered
<1> QED
  BY <1>4, <1>5, <1>6, <1>7, <1>8, <1>9, <1>10 DEF IInv, Init

(* The turn's steps touch no paper.  One that sends nothing needs its own part of the *)
(* invariant and no other.                                                          *)
LEMMA QuietStep ==
  ASSUME IInv, turn' \in Course, Asking' => turn.calls' # <<>> /\ turn.round' < MaxRounds,
         ~ Done, UNCHANGED <<sent, busVars, paperVars>>,
         Ordered(Announced(sent), turn'), Room(Announced(sent), turn')
  PROVE  IInv'
<1>1. Types'
  BY DEF IInv, Types, busVars, paperVars
<1>2. Log' = Log
  BY DEF Log, paperVars
<1>3. Logged(Announced(Log), Announced(sent))'
  <2>1. printer # "stopped"
    BY DEF IInv, Logged
  <2>2. UNCHANGED <<sent, printer, reliable, lossy, buffer>>
    BY DEF busVars, paperVars
  <2> QED
    BY <1>2, <2>1, <2>2 DEF IInv, Logged
<1> QED
  BY <1>1, <1>2, <1>3 DEF IInv, paperVars

(* One that sends an event needs the ring to have room for it. *)
LEMMA SendingStep ==
  ASSUME RingHoldsTurn, IInv, turn' \in Course,
         Asking' => turn.calls' # <<>> /\ turn.round' < MaxRounds,
         ~ Done, UNCHANGED paperVars, NEW e \in Event, Send(e), Left(turn) \in Nat \ {0},
         Ordered(Announced(sent'), turn'), Room(Announced(sent'), turn')
  PROVE  IInv'
<1> DEFINE said == Announced(sent)
           written == Announced(Log)
<1>1. Types /\ Room(said, turn) /\ Logged(written, said) /\ printer # "stopped"
  BY DEF IInv, Logged
<1>2. /\ reliable' \in Seq(Event) /\ lossy' \in Seq(Event)
      /\ printer = "running" /\ ~ IsLossy(e) => reliable' = Append(reliable, e)
      /\ ~ (printer = "running" /\ ~ IsLossy(e)) => reliable' = reliable
      /\ \A i \in 1..Len(lossy') : lossy'[i].kind = "token_delta"
  BY <1>1, RingStep
<1>3. /\ sent' \in Seq(Event)
      /\ IsLossy(e) => Announced(sent') = said
      /\ ~ IsLossy(e) => Announced(sent') = Append(said, e)
  BY <1>1, SaidStep
<1>4. Log' = Log /\ UNCHANGED <<printer, buffer, disk>>
  BY DEF Log, paperVars
<1>5. Types'
  BY <1>1, <1>2, <1>3, <1>4 DEF Types
<1>6. written \in Seq(Event) /\ said \in Seq(Event) /\ reliable \in Seq(Event)
  BY <1>1, LogTypes DEF Types
<1>7. /\ Part(written, Announced(sent'))
      /\ printer = "running" => Follows(written, Announced(sent'), reliable')
  <2>1. Part(written, said) /\ (printer = "running" => Follows(written, said, reliable))
    BY <1>1 DEF Logged
  <2> HIDE DEF written, said
  <2>2. CASE IsLossy(e)
    BY <1>2, <1>3, <2>1, <2>2
  <2>3. CASE ~ IsLossy(e)
    <3>1. Part(written, Append(said, e))
      BY <1>6, <2>1, PartOneMore
    <3>2. printer = "running" => Follows(written, Append(said, e), Append(reliable, e))
      BY <1>6, <2>1, FollowsSent
    <3> QED
      BY <1>2, <1>3, <2>3, <3>1, <3>2
  <2> QED
    BY <2>2, <2>3
<1>8. Logged(Announced(Log), Announced(sent))'
  <2>1. printer # "running" => buffer = <<>>
    BY <1>1 DEF Logged
  <2> QED
    BY <1>1, <1>2, <1>4, <1>7, <2>1 DEF Logged
<1> QED
  BY <1>4, <1>5, <1>8 DEF IInv

(* What may still be announced is counted by a number, and until the end there is *)
(* something left.                                                                *)
LEMMA LeftIsNumber ==
  ASSUME NEW t \in Course, t.does \in {"calling", "answering"} => t.calls # <<>> /\ t.round < MaxRounds
  PROVE  Left(t) \in Nat /\ (t.does \notin {"over", "failed"} => Left(t) # 0)
<1>1. /\ t.does \in {"streaming", "calling", "answering", "ending", "broken", "failed", "over"}
      /\ t.round \in 1..MaxRounds /\ t.calls \in Seq(Piece) /\ MaxRounds \in Nat
  BY RecordingAssumption DEF Course
<1>2. CASE t.does = "streaming"
  <2>1. MaxRounds - t.round \in Nat
    BY <1>1
  <2>2. MaxCalls * (MaxRounds - t.round) \in Nat
    BY <2>1, RoomArithmetic
  <2> QED
    BY <1>2, <2>2 DEF Left
<1>3. CASE t.does \in {"calling", "answering"}
  <2> DEFINE m == Len(t.calls)
             p == MaxCalls * (MaxRounds - t.round - 1)
  <2>1. MaxRounds - t.round - 1 \in Nat
    BY <1>1, <1>3
  <2>2. m \in Nat \ {0}
    BY <1>1, <1>3
  <2>3. p \in Nat
    BY <2>1, RoomArithmetic
  <2>4. Left(t) \in {1 + 2 * m + 2 * p, 2 * m + 2 * p}
    <3> HIDE DEF m, p
    <3>1. CASE t.does = "calling"
      BY <3>1 DEF Left, m, p
    <3>2. CASE t.does = "answering"
      BY <3>2 DEF Left, m, p
    <3> QED
      BY <1>3, <3>1, <3>2
  <2> HIDE DEF m, p
  <2> QED
    BY <2>2, <2>3, <2>4
<1>4. CASE t.does \in {"ending", "broken", "failed", "over"}
  BY <1>4 DEF Left
<1> QED
  BY <1>1, <1>2, <1>3, <1>4

LEMMA RoomMore ==
  ASSUME NEW said \in Seq(Event), NEW t, NEW u, NEW e \in Event, Room(said, t),
         Left(u) \in Nat, Left(t) = Left(u) + 1
  PROVE  Room(Append(said, e), u)
<1>1. Rounds \in Nat
  <2>1. MaxRounds - 1 \in Nat
    BY RecordingAssumption
  <2> QED
    BY <2>1, RoomArithmetic DEF Rounds
<1> QED
  BY <1>1 DEF Room

LEMMA RoomSame ==
  ASSUME NEW said \in Seq(Event), NEW t, NEW u, Room(said, t),
         Left(u) \in Nat, Left(t) \in Nat, Left(u) <= Left(t)
  PROVE  Room(said, u)
<1>1. Rounds \in Nat
  <2>1. MaxRounds - 1 \in Nat
    BY RecordingAssumption
  <2> QED
    BY <2>1, RoomArithmetic DEF Rounds
<1> QED
  BY <1>1 DEF Room

\* What a step of the turn may assume.
LEMMA Before ==
  ASSUME IInv
  PROVE  /\ turn \in Course
         /\ turn.does \in {"streaming", "calling", "answering", "ending", "broken", "failed", "over"}
         /\ turn.round \in 1..MaxRounds /\ turn.text \in Seq(Piece) /\ turn.calls \in Seq(Piece)
         /\ MaxRounds \in Nat \ {0} /\ turn.round \in Nat
         /\ Asking => turn.calls # <<>> /\ turn.round < MaxRounds
         /\ Left(turn) \in Nat /\ (~ Done => Left(turn) # 0)
         /\ Announced(sent) \in Seq(Event)
         /\ Ordered(Announced(sent), turn) /\ Room(Announced(sent), turn)
         /\ Types
<1>1. Types /\ Ordered(Announced(sent), turn) /\ Room(Announced(sent), turn)
  BY DEF IInv
<1>2. turn \in Course /\ (Asking => turn.calls # <<>> /\ turn.round < MaxRounds)
  BY <1>1 DEF Types
<1>3. Left(turn) \in Nat /\ (~ Done => Left(turn) # 0)
  BY <1>2, LeftIsNumber DEF Asking, Done
<1>4. Announced(sent) \in Seq(Event)
  BY <1>1, LogTypes
<1>5. /\ turn.does \in {"streaming", "calling", "answering", "ending", "broken", "failed", "over"}
      /\ turn.round \in 1..MaxRounds /\ turn.text \in Seq(Piece) /\ turn.calls \in Seq(Piece)
      /\ MaxRounds \in Nat \ {0} /\ turn.round \in Nat
  BY <1>2, RecordingAssumption DEF Course
<1> QED
  BY <1>1, <1>2, <1>3, <1>4, <1>5

LEMMA StreamKeeps ==
  ASSUME RingHoldsTurn, IInv, Stream
  PROVE  IInv'
<1> DEFINE piece == <<turn.round, Len(turn.text) + 1>>
<1>1. turn.does = "streaming" /\ UNCHANGED paperVars
  BY DEF Stream
<1>2. piece \in Piece /\ Append(turn.text, piece) \in Seq(Piece)
  BY Before DEF Piece
<1>3. Send(Delta(piece)) /\ turn' = [turn EXCEPT !.text = Append(turn.text, piece)]
  BY DEF Stream
<1> HIDE DEF piece
<1>4. Delta(piece) \in Event /\ IsLossy(Delta(piece))
  BY <1>2, EventTypes DEF IsLossy, Delta
<1>5. Announced(sent') = Announced(sent)
  BY <1>3, <1>4, Before, SaidStep
<1>6. /\ turn'.does = "streaming" /\ turn'.round = turn.round
      /\ turn'.calls = turn.calls /\ turn' \in Course
  BY <1>1, <1>2, <1>3, Before DEF Course
<1>7. Ordered(Announced(sent), turn')
  BY <1>1, <1>6, Before, OrderedSame
<1>8. Left(turn') = Left(turn)
  BY <1>1, <1>6 DEF Left
<1>9. Room(Announced(sent), turn')
  BY <1>8, Before DEF Room
<1>10. ~ Done /\ ~ Asking'
  BY <1>1, <1>6 DEF Done, Asking
<1> QED
  BY <1>1, <1>3, <1>4, <1>5, <1>6, <1>7, <1>9, <1>10, Before, SendingStep

LEMMA EndRoundKeeps ==
  ASSUME IInv, NEW n \in 0..MaxCalls, EndRound(n)
  PROVE  IInv'
<1> DEFINE calls == [i \in 1..n |-> <<turn.round, i>>]
<1>0. n \in Nat /\ n <= MaxCalls /\ MaxCalls \in Nat
  BY RecordingAssumption
<1>1. /\ turn.does = "streaming" /\ UNCHANGED <<sent, busVars, paperVars>>
      /\ n > 0 => turn.round < MaxRounds
  BY DEF EndRound
<1>2. calls \in Seq(Piece) /\ Len(calls) = n
  BY <1>0, Before DEF Piece
<1>3. turn' = [turn EXCEPT !.does = IF n = 0 THEN "ending" ELSE "calling",
                           !.calls = calls, !.text = <<>>]
  BY DEF EndRound
<1> HIDE DEF calls
<1>4. /\ turn'.does = (IF n = 0 THEN "ending" ELSE "calling") /\ turn'.round = turn.round
      /\ turn'.calls = calls /\ turn' \in Course
  <2>1. <<>> \in Seq(Piece)
    OBVIOUS
  <2> QED
    BY <1>2, <1>3, <2>1, Before DEF Course
<1>5. turn'.does \in {"calling", "answering"} => turn'.calls # <<>> /\ turn'.round < MaxRounds
  BY <1>0, <1>1, <1>2, <1>4
<1>6. Ordered(Announced(sent), turn')
  BY <1>1, <1>4, Before, OrderedSame
<1>7. Left(turn') \in Nat
  BY <1>4, <1>5, LeftIsNumber
<1>8. Left(turn') <= Left(turn)
  <2>1. Left(turn) = 1 + 2 * (MaxCalls * (MaxRounds - turn.round))
    BY <1>1 DEF Left
  <2>2. CASE n = 0
    BY <1>1, <1>4, <2>2, Before DEF Left, Done
  <2>3. CASE n # 0
    <3> DEFINE k == MaxRounds - turn.round - 1
    <3>1. k \in Nat /\ MaxRounds - turn.round = k + 1
      BY <1>0, <1>1, <2>3, Before
    <3>2. Left(turn') = 1 + 2 * n + 2 * (MaxCalls * k)
      BY <1>2, <1>4, <2>3 DEF Left
    <3> HIDE DEF k
    <3>3. MaxCalls * (k + 1) = MaxCalls * k + MaxCalls /\ MaxCalls * k \in Nat
      BY <3>1, RoomArithmetic
    <3> DEFINE p == MaxCalls * k
    <3>4. Left(turn) = 1 + 2 * (p + MaxCalls) /\ Left(turn') = 1 + 2 * n + 2 * p /\ p \in Nat
      BY <2>1, <3>1, <3>2, <3>3
    <3> HIDE DEF p
    <3> QED
      BY <1>0, <3>4
  <2> QED
    BY <2>2, <2>3
<1>9. Room(Announced(sent), turn')
  BY <1>7, <1>8, Before, RoomSame
<1>10. ~ Done /\ (Asking' => turn.calls' # <<>> /\ turn.round' < MaxRounds)
  BY <1>1, <1>5 DEF Done, Asking
<1> QED
  BY <1>1, <1>4, <1>6, <1>9, <1>10, QuietStep

LEMMA EngineFailsKeeps ==
  ASSUME IInv, EngineFails
  PROVE  IInv'
<1>1. turn.does = "streaming" /\ UNCHANGED <<sent, busVars, paperVars>>
  BY DEF EngineFails
<1>2. turn' = [turn EXCEPT !.does = "broken"]
  BY DEF EngineFails
<1>3. turn'.does = "broken" /\ turn' \in Course
  BY <1>2, Before DEF Course
<1>4. Ordered(Announced(sent), turn')
  BY <1>1, <1>3, Before, OrderedSame
<1>5. Left(turn') = 1 /\ Left(turn) \in Nat /\ Left(turn) # 0
  BY <1>1, <1>3, Before DEF Left, Done
<1>6. Room(Announced(sent), turn')
  <2>1. Left(turn') \in Nat /\ Left(turn') <= Left(turn)
    BY <1>5
  <2> QED
    BY <1>5, <2>1, Before, RoomSame
<1>7. ~ Done /\ ~ Asking'
  BY <1>1, <1>3 DEF Done, Asking
<1> QED
  BY <1>1, <1>3, <1>4, <1>6, <1>7, QuietStep

LEMMA CallKeeps ==
  ASSUME RingHoldsTurn, IInv, Call
  PROVE  IInv'
<1> DEFINE call == Head(turn.calls)
<1>1. turn.does = "calling" /\ UNCHANGED paperVars
  BY DEF Call
<1>2. turn.calls # <<>> /\ turn.round < MaxRounds /\ call \in Piece
  BY <1>1, Before DEF Asking
<1>3. Send(Called(call)) /\ turn' = [turn EXCEPT !.does = "answering"]
  BY DEF Call
<1>4. /\ turn'.does = "answering" /\ turn'.round = turn.round
      /\ turn'.calls = turn.calls /\ turn' \in Course
  BY <1>3, Before DEF Course
<1> DEFINE e == Called(call)
<1>5. e \in Event /\ ~ IsLossy(e) /\ e.kind = "tool_call" /\ e = Called(Head(turn'.calls))
  BY <1>2, <1>4, EventTypes DEF IsLossy, Called
<1> HIDE DEF e, call
<1>6. Send(e)
  BY <1>3 DEF e
<1>7. Announced(sent') = Append(Announced(sent), e)
  BY <1>5, <1>6, Before, SaidStep
<1>8. Ordered(Append(Announced(sent), e), turn')
  <2>1. Announced(sent)[Len(Announced(sent))].kind # "tool_call"
    BY <1>1, Before DEF Ordered
  <2> QED
    BY <1>1, <1>4, <1>5, <2>1, Before, OrderedMore
<1>9. Left(turn') \in Nat /\ Left(turn) = Left(turn') + 1
  <2>1. Left(turn') \in Nat
    BY <1>2, <1>4, LeftIsNumber
  <2> DEFINE p == MaxCalls * (MaxRounds - turn.round - 1)
             m == Len(turn.calls)
  <2>2. p \in Nat /\ m \in Nat
    <3>1. MaxRounds - turn.round - 1 \in Nat
      BY <1>2, Before
    <3>2. p \in Nat
      BY <3>1, RoomArithmetic
    <3>3. m \in Nat
      BY Before
    <3> QED
      BY <3>2, <3>3
  <2>3. Left(turn) = 1 + 2 * m + 2 * p /\ Left(turn') = 2 * m + 2 * p
    BY <1>1, <1>4 DEF Left
  <2> HIDE DEF p, m
  <2>4. Left(turn) = Left(turn') + 1
    BY ONLY <2>2, <2>3
  <2> QED
    BY <2>1, <2>4
<1>10. Room(Append(Announced(sent), e), turn')
  BY <1>5, <1>9, Before, RoomMore
<1>11. ~ Done /\ turn.calls' # <<>> /\ turn.round' < MaxRounds
  BY <1>1, <1>2, <1>4 DEF Done
<1> QED
  BY <1>1, <1>4, <1>5, <1>6, <1>7, <1>8, <1>10, <1>11, Before, SendingStep

LEMMA AnswerKeeps ==
  ASSUME RingHoldsTurn, IInv, Answer
  PROVE  IInv'
<1> DEFINE call == Head(turn.calls)
           rest == Tail(turn.calls)
           k == MaxRounds - turn.round - 1
<1>1. turn.does = "answering" /\ UNCHANGED paperVars
  BY DEF Answer
<1>2. /\ turn.calls # <<>> /\ turn.round < MaxRounds /\ call \in Piece
      /\ rest \in Seq(Piece) /\ Len(turn.calls) = Len(rest) + 1 /\ Len(rest) \in Nat
      /\ rest # <<>> => Len(rest) # 0
      /\ turn.round + 1 \in 1..MaxRounds
  <2>1. turn.calls # <<>> /\ turn.round < MaxRounds
    BY <1>1, Before DEF Asking
  <2>2. call \in Piece /\ rest \in Seq(Piece) /\ Len(turn.calls) = Len(rest) + 1
    BY <2>1, Before
  <2>3. turn.round + 1 \in 1..MaxRounds
    BY <2>1, Before
  <2>4. Len(rest) \in Nat /\ (rest # <<>> => Len(rest) # 0)
    <3>1. \A s \in Seq(Piece) : Len(s) \in Nat /\ (s # <<>> => Len(s) # 0)
      OBVIOUS
    <3> HIDE DEF rest
    <3> QED
      BY <2>2, <3>1
  <2> QED
    BY <2>1, <2>2, <2>3, <2>4
<1>3. /\ Send(Returned(call))
      /\ turn' = [turn EXCEPT !.calls = rest,
                      !.does = IF rest = <<>> THEN "streaming" ELSE "calling",
                      !.round = IF rest = <<>> THEN turn.round + 1 ELSE turn.round]
  BY DEF Answer
<1> DEFINE e == Returned(call)
<1>4. /\ e \in Event /\ ~ IsLossy(e) /\ e.kind = "tool_result" /\ e.of = call
      /\ Called(call).kind = "tool_call" /\ Called(call).of = call
  BY <1>2, EventTypes DEF IsLossy, Returned, Called
<1>5. Announced(sent)[Len(Announced(sent))] = Called(call)
  BY <1>1, Before DEF Ordered
<1>6. e = Returned(call)
  OBVIOUS
<1> HIDE DEF e, call, rest
<1>7. /\ turn'.does = (IF rest = <<>> THEN "streaming" ELSE "calling")
      /\ turn'.round = (IF rest = <<>> THEN turn.round + 1 ELSE turn.round)
      /\ turn'.calls = rest /\ turn' \in Course
  BY <1>2, <1>3, Before DEF Course
<1>8. Announced(sent') = Append(Announced(sent), e)
  BY <1>3, <1>4, <1>6, Before, SaidStep
<1>9. Ordered(Append(Announced(sent), e), turn')
  BY <1>1, <1>4, <1>5, <1>6, <1>7, Before, OrderedMore
<1>10. Left(turn') \in Nat /\ Left(turn) = Left(turn') + 1
  <2>1. Left(turn') \in Nat
    BY <1>2, <1>7, LeftIsNumber
  <2> DEFINE p == MaxCalls * k
             m == Len(rest)
  <2>2. p \in Nat /\ m \in Nat
    <3>1. k \in Nat
      BY <1>2, Before
    <3> HIDE DEF k
    <3> QED
      BY <1>2, <3>1, RoomArithmetic
  <2>3. Left(turn) = 2 * (m + 1) + 2 * p
    BY <1>1, <1>2 DEF Left
  <2>4. Left(turn') = 1 + 2 * m + 2 * p
    <3>1. CASE rest = <<>>
      <4>1. MaxRounds - turn'.round = k /\ turn'.does = "streaming" /\ m = 0
        BY <1>7, <3>1, Before
      <4> HIDE DEF k, m
      <4>2. Left(turn') = 1 + 2 * p
        BY <4>1 DEF Left
      <4> HIDE DEF p
      <4> QED
        BY <2>2, <4>1, <4>2
    <3>2. CASE rest # <<>>
      BY <1>7, <3>2 DEF Left
    <3> QED
      BY <3>1, <3>2
  <2> HIDE DEF p, m
  <2>5. Left(turn) = Left(turn') + 1
    BY ONLY <2>2, <2>3, <2>4
  <2> QED
    BY <2>1, <2>5
<1>11. Room(Append(Announced(sent), e), turn')
  BY <1>4, <1>10, Before, RoomMore
<1>12. ~ Done /\ (Asking' => turn.calls' # <<>> /\ turn.round' < MaxRounds)
  BY <1>1, <1>2, <1>7 DEF Done, Asking
<1> QED
  BY <1>1, <1>3, <1>4, <1>6, <1>7, <1>8, <1>9, <1>11, <1>12, Before, SendingStep

LEMMA EndTurnKeeps ==
  ASSUME RingHoldsTurn, IInv, EndTurn
  PROVE  IInv'
<1> DEFINE e == Lifecycle("turn_end")
<1>1. turn.does \in {"ending", "broken"} /\ UNCHANGED paperVars
  BY DEF EndTurn
<1>2. Send(e) /\ turn' = [turn EXCEPT !.does = IF turn.does = "broken" THEN "failed" ELSE "over"]
  BY DEF EndTurn
<1>3. e \in Event /\ ~ IsLossy(e) /\ e.kind = "turn_end"
  <2>1. "turn_end" \in Kinds
    BY DEF Kinds
  <2> QED
    BY <2>1, LifecycleType DEF IsLossy, Lifecycle
<1> HIDE DEF e
<1>4. turn'.does \in {"over", "failed"} /\ turn' \in Course
  BY <1>1, <1>2, Before DEF Course
<1>5. Announced(sent') = Append(Announced(sent), e)
  BY <1>2, <1>3, Before, SaidStep
<1>6. Ordered(Append(Announced(sent), e), turn')
  <2>1. Announced(sent)[Len(Announced(sent))].kind # "tool_call"
    BY <1>1, Before DEF Ordered
  <2> QED
    BY <1>1, <1>3, <1>4, <2>1, Before, OrderedMore
<1>7. Left(turn') = 0 /\ Left(turn) = 1
  BY <1>1, <1>4 DEF Left
<1>8. Room(Append(Announced(sent), e), turn')
  <2>1. Left(turn') \in Nat /\ Left(turn) = Left(turn') + 1
    BY <1>7
  <2> QED
    BY <1>3, <2>1, Before, RoomMore
<1>9. ~ Done /\ ~ Asking'
  BY <1>1, <1>4 DEF Done, Asking
<1> QED
  BY <1>1, <1>2, <1>3, <1>4, <1>5, <1>6, <1>7, <1>8, <1>9, Before, SendingStep

-----------------------------------------------------------------------------
(* The printer's steps, and the death of the process.                      *)

LEMMA PartTrans ==
  ASSUME NEW a \in Seq(Event), NEW b \in Seq(Event), NEW c \in Seq(Event), Part(a, b), Part(b, c)
  PROVE  Part(a, c)
BY DEF Part

LEMMA PartWhole ==
  ASSUME NEW a \in Seq(Event), NEW b \in Seq(Event), Part(a, b), Len(a) = Len(b)
  PROVE  a = b
BY DEF Part

(* What gets out of a buffer ends the log earlier. *)
LEMMA WrittenOut ==
  ASSUME NEW d \in Seq(Event), NEW b \in Seq(Event), NEW n \in 0..Len(b)
  PROVE  /\ d \o SubSeq(b, 1, n) \in Seq(Event)
         /\ d \o SubSeq(b, 1, n) = SubSeq(d \o b, 1, Len(d) + n)
         /\ Len(d) + n \in 0..Len(d \o b)
         /\ d \o b \in Seq(Event)
<1> DEFINE w == d \o b
           front == SubSeq(b, 1, n)
           cut == SubSeq(w, 1, Len(d) + n)
           m == Len(d)
<1>1. /\ w \in Seq(Event) /\ m \in Nat /\ n \in Nat /\ n <= Len(b) /\ Len(b) \in Nat
      /\ Len(w) = m + Len(b)
      /\ \A i \in 1..m : w[i] = d[i]
      /\ \A i \in 1..Len(b) : w[m + i] = b[i]
  OBVIOUS
<1>2. /\ front \in Seq(Event) /\ Len(front) = n
      /\ \A i \in 1..n : front[i] = b[i]
  BY <1>1
<1>3. m + n \in 0..Len(w)
  BY <1>1
<1>4. /\ cut \in Seq(Event) /\ Len(cut) = m + n
      /\ \A i \in 1..(m + n) : cut[i] = w[i]
  <2> HIDE DEF w
  <2> QED
    BY <1>1, <1>3
<1> HIDE DEF w, front, cut
<1>5. /\ d \o front \in Seq(Event) /\ Len(d \o front) = m + n
      /\ \A i \in 1..m : (d \o front)[i] = d[i]
      /\ \A i \in 1..n : (d \o front)[m + i] = front[i]
  <2>1. d \o front \in Seq(Event)
    BY <1>2
  <2>2. Len(d \o front) = m + n
    BY <1>2
  <2>3. \A i \in 1..m : (d \o front)[i] = d[i]
    BY <1>2
  <2>4. \A i \in 1..Len(front) : (d \o front)[m + i] = front[i]
    BY <1>2
  <2> QED
    BY <1>2, <2>1, <2>2, <2>3, <2>4
<1>6. ASSUME NEW i \in 1..(m + n)
      PROVE  (d \o front)[i] = cut[i]
  <2>1. CASE i \in 1..m
    BY <1>1, <1>4, <1>5, <2>1
  <2>2. CASE ~ (i \in 1..m)
    <3> DEFINE j == i - m
    <3>1. j \in 1..n /\ j \in 1..Len(b) /\ i = m + j
      BY <1>1, <2>2
    <3> HIDE DEF j, m
    <3> QED
      BY <1>1, <1>2, <1>4, <1>5, <3>1
  <2> QED
    BY <2>1, <2>2
<1>7. d \o front = cut
  <2> HIDE DEF m
  <2>1. Len(d \o front) = Len(cut) /\ \A i \in 1..Len(cut) : (d \o front)[i] = cut[i]
    BY <1>4, <1>5, <1>6
  <2> QED
    BY <1>4, <1>5, <2>1
<1> QED
  BY <1>1, <1>3, <1>5, <1>7 DEF w, front, cut

(* A recording that is cut short is how the whole one began. *)
LEMMA CutShort ==
  ASSUME IInv, NEW n \in 0..Len(buffer), disk' = disk \o SubSeq(buffer, 1, n), buffer' = <<>>,
         printer' \in {"broken", "killed"}, UNCHANGED <<turn, sent>>,
         reliable' \in Seq(Event), lossy' \in Seq(Event),
         \A i \in 1..Len(lossy') : lossy'[i].kind = "token_delta"
  PROVE  IInv'
<1> DEFINE written == Announced(Log)
           said == Announced(sent)
<1>1. /\ Types /\ disk \in Seq(Event) /\ buffer \in Seq(Event) /\ Logged(written, said)
      /\ Ordered(said, turn) /\ Room(said, turn)
  BY DEF IInv, Types
<1>2. /\ disk' \in Seq(Event) /\ disk' = SubSeq(Log, 1, Len(disk) + n)
      /\ Len(disk) + n \in 0..Len(Log) /\ Log \in Seq(Event)
  <2>1. /\ disk \o SubSeq(buffer, 1, n) \in Seq(Event)
        /\ disk \o SubSeq(buffer, 1, n) = SubSeq(disk \o buffer, 1, Len(disk) + n)
        /\ Len(disk) + n \in 0..Len(disk \o buffer)
        /\ disk \o buffer \in Seq(Event)
    BY <1>1, WrittenOut
  <2> QED
    BY <2>1 DEF Log
<1>3. Log' = disk'
  <2>1. \A d \in Seq(Event) : d \o <<>> = d
    OBVIOUS
  <2>2. Log' = disk' \o <<>>
    BY DEF Log
  <2> QED
    BY <1>2, <2>1, <2>2
<1>4. Part(Announced(disk'), written)
  <2> DEFINE k == Len(disk) + n
  <2>1. k \in 0..Len(Log) /\ Log \in Seq(Event) /\ disk' = SubSeq(Log, 1, k)
    BY <1>2
  <2> HIDE DEF k
  <2>2. Part(Announced(SubSeq(Log, 1, k)), Announced(Log))
    BY <2>1, AnnouncedOfPart
  <2> QED
    BY <2>1, <2>2
<1>5. Announced(disk') \in Seq(Event) /\ written \in Seq(Event) /\ said \in Seq(Event)
  BY <1>1, <1>2, AnnouncedType, LogTypes
<1>6. Part(Announced(disk'), said)
  <2>1. Part(written, said)
    BY <1>1 DEF Logged
  <2> HIDE DEF written, said
  <2> QED
    BY <1>4, <1>5, <2>1, PartTrans
<1>7. Types'
  <2>1. <<>> \in Seq(Event)
    OBVIOUS
  <2> QED
    BY <1>1, <1>2, <2>1 DEF Types, Asking
<1>8. Logged(Announced(Log), Announced(sent))'
  BY <1>3, <1>6 DEF Logged
<1>9. Ordered(Announced(sent), turn)' /\ Room(Announced(sent), turn)'
  BY <1>1
<1> QED
  BY <1>7, <1>8, <1>9 DEF IInv

LEMMA CrashKeeps ==
  ASSUME IInv, Crash
  PROVE  IInv'
<1>1. PICK n \in 0..Len(buffer) : disk' = disk \o SubSeq(buffer, 1, n)
  BY DEF Crash
<1>2. /\ buffer' = <<>> /\ printer' \in {"broken", "killed"}
      /\ UNCHANGED <<turn, sent>> /\ UNCHANGED <<reliable, lossy>>
  BY DEF Crash, busVars
<1>3. /\ reliable' \in Seq(Event) /\ lossy' \in Seq(Event)
      /\ \A i \in 1..Len(lossy') : lossy'[i].kind = "token_delta"
  BY <1>2 DEF IInv, Types, Logged
<1> QED
  BY <1>1, <1>2, <1>3, CutShort

(* What the printer receives. *)
LEMMA ReceivedEvent ==
  ASSUME IInv, Receive
  PROVE  /\ reliable' \in Seq(Event) /\ lossy' \in Seq(Event)
         /\ \A i \in 1..Len(lossy') : lossy'[i].kind = "token_delta"
         /\ Received[1] \in Event
         /\ \/ reliable # <<>> /\ Received[1] = Head(reliable) /\ reliable' = Tail(reliable)
            \/ Received[1].kind = "token_delta" /\ reliable' = reliable
<1>1. /\ reliable \in Seq(Event) /\ lossy \in Seq(Event)
      /\ \A i \in 1..Len(lossy) : lossy[i].kind = "token_delta"
  BY DEF IInv, Types, Logged
<1>2. CASE reliable # <<>>
  <2>1. Received = <<Head(reliable)>> /\ reliable' = Tail(reliable) /\ lossy' = lossy
    BY <1>2 DEF Receive, Received
  <2>2. Head(reliable) \in Event /\ Tail(reliable) \in Seq(Event)
    BY <1>1, <1>2
  <2> QED
    BY <1>1, <1>2, <2>1, <2>2
<1>3. CASE reliable = <<>>
  <2>1. lossy # <<>> /\ Received = <<Head(lossy)>> /\ reliable' = reliable /\ lossy' = Tail(lossy)
    BY <1>3 DEF Receive, Received
  <2>2. /\ Head(lossy) \in Event /\ Tail(lossy) \in Seq(Event) /\ Head(lossy) = lossy[1]
        /\ 1 \in 1..Len(lossy)
        /\ \A i \in 1..Len(Tail(lossy)) : i + 1 \in 1..Len(lossy) /\ Tail(lossy)[i] = lossy[i + 1]
    BY <1>1, <2>1
  <2> QED
    BY <1>1, <2>1, <2>2
<1> QED
  BY <1>2, <1>3

LEMMA WriteFailsKeeps ==
  ASSUME IInv, WriteFails
  PROVE  IInv'
<1>1. PICK n \in 0..Len(buffer) : disk' = disk \o SubSeq(buffer, 1, n)
  BY DEF WriteFails
<1>2. /\ buffer' = <<>> /\ printer' \in {"broken", "killed"}
      /\ UNCHANGED <<turn, sent>> /\ Receive
  BY DEF WriteFails
<1>3. /\ reliable' \in Seq(Event) /\ lossy' \in Seq(Event)
      /\ \A i \in 1..Len(lossy') : lossy'[i].kind = "token_delta"
  BY <1>2, ReceivedEvent
<1> QED
  BY <1>1, <1>2, <1>3, CutShort

LEMMA SpillKeeps ==
  ASSUME IInv, Spill
  PROVE  IInv'
<1>1. /\ printer = "running" /\ disk' = disk \o buffer /\ buffer' = <<>>
      /\ UNCHANGED <<turn, sent, reliable, lossy, printer>>
  BY DEF Spill, busVars
<1>2. /\ Types /\ disk \in Seq(Event) /\ buffer \in Seq(Event)
      /\ Logged(Announced(Log), Announced(sent))
      /\ Ordered(Announced(sent), turn) /\ Room(Announced(sent), turn)
      /\ InHand(Replayed(Log), Announced(Log))
  BY <1>1 DEF IInv, Types
<1>3. Log' = Log /\ disk' \in Seq(Event)
  <2>1. \A d \in Seq(Event) : d \o <<>> = d
    OBVIOUS
  <2>2. disk \o buffer \in Seq(Event)
    BY <1>2
  <2>3. Log' = disk' \o <<>>
    BY <1>1 DEF Log
  <2> QED
    BY <1>1, <2>1, <2>2, <2>3 DEF Log
<1>4. Types'
  <2>1. <<>> \in Seq(Event)
    OBVIOUS
  <2> QED
    BY <1>1, <1>2, <1>3, <2>1 DEF Types, Asking
<1>5. Logged(Announced(Log), Announced(sent))'
  BY <1>1, <1>2, <1>3 DEF Logged
<1> QED
  BY <1>1, <1>2, <1>3, <1>4, <1>5 DEF IInv

(* An event recorded: the log grows by it, and the rebuild takes one step more. *)
LEMMA RecordKeeps ==
  ASSUME IInv, Record
  PROVE  IInv'
<1> DEFINE e == Received[1]
           said == Announced(sent)
           written == Announced(Log)
           r == Replayed(Log)
           m == Len(written)
<1>1. printer = "running" /\ Receive /\ UNCHANGED <<turn, sent>>
  BY DEF Record
<1>2. \/ Stops(e) /\ disk' = disk \o Append(buffer, e) /\ buffer' = <<>> /\ printer' = "stopped"
      \/ ~ Stops(e) /\ disk' = disk /\ buffer' = Append(buffer, e) /\ printer' = printer
  BY DEF Record
<1>3. /\ Types /\ disk \in Seq(Event) /\ buffer \in Seq(Event) /\ reliable \in Seq(Event)
      /\ Ordered(said, turn) /\ Room(said, turn)
      /\ Part(written, said) /\ Follows(written, said, reliable)
      /\ InHand(r, written)
  BY <1>1 DEF IInv, Types, Logged
<1>4. /\ reliable' \in Seq(Event) /\ lossy' \in Seq(Event)
      /\ \A i \in 1..Len(lossy') : lossy'[i].kind = "token_delta"
      /\ e \in Event
      /\ \/ reliable # <<>> /\ e = Head(reliable) /\ reliable' = Tail(reliable)
         \/ e.kind = "token_delta" /\ reliable' = reliable
  BY <1>1, ReceivedEvent
<1>5. said \in Seq(Event) /\ written \in Seq(Event) /\ Log \in Seq(Event)
  BY <1>3, LogTypes
<1> HIDE DEF e
<1>6. Log' = Append(Log, e) /\ disk' \in Seq(Event) /\ buffer' \in Seq(Event)
  <2>1. \A d \in Seq(Event) : d \o <<>> = d
    OBVIOUS
  <2>2. <<>> \in Seq(Event) /\ Append(buffer, e) \in Seq(Event)
    BY <1>3, <1>4
  <2>3. disk \o Append(buffer, e) \in Seq(Event)
    BY <1>3, <2>2
  <2>4. disk \o Append(buffer, e) = Append(disk \o buffer, e)
    BY <1>3, <1>4
  <2>5. Log' = disk' \o buffer' /\ Log = disk \o buffer
    BY DEF Log
  <2>6. Log' = Append(Log, e)
    BY <1>2, <2>1, <2>3, <2>4, <2>5
  <2> QED
    BY <1>2, <1>3, <2>2, <2>3, <2>6
<1>7. Types'
  BY <1>1, <1>2, <1>3, <1>4, <1>6 DEF Types, Asking
<1>8. /\ Replayed(Log') = Folded(r, e)
      /\ e.kind = "token_delta" => Announced(Log') = written
      /\ e.kind # "token_delta" => Announced(Log') = Append(written, e)
  BY <1>4, <1>5, <1>6, AnnouncedLaw, ReplayedLaw
<1> HIDE DEF said, written, r
(* What is received of the reliable ring is what the turn announced next. *)
<1>9. ASSUME e.kind # "token_delta"
      PROVE  /\ reliable # <<>> /\ e = Head(reliable) /\ reliable' = Tail(reliable)
             /\ m + 1 \in 1..Len(said) /\ said[m + 1] = e
             /\ Follows(Append(written, e), said, reliable') /\ Part(Append(written, e), said)
  <2>1. reliable # <<>> /\ e = Head(reliable) /\ reliable' = Tail(reliable)
    BY <1>4, <1>9
  <2> QED
    BY <1>3, <1>5, <2>1, FollowsReceived
<1>10. ASSUME e.kind = "token_delta"
       PROVE  reliable' = reliable
  <2>1. CASE reliable # <<>> /\ e = Head(reliable)
    <3>1. m + 1 \in 1..Len(said) /\ said[m + 1] = e
      BY <1>3, <1>5, <2>1, FollowsReceived
    <3> QED
      BY <1>3, <1>10, <3>1 DEF Ordered
  <2> QED
    BY <1>4, <2>1
<1>11. m \in Nat /\ Len(said) \in Nat /\ m <= Len(said) /\ \A i \in 1..m : written[i] = said[i]
  BY <1>3, <1>5 DEF Part
<1>12. e.kind = "tool_result" => Len(written) >= 1 /\ written[Len(written)] = Called(e.of)
  <2> SUFFICES ASSUME e.kind = "tool_result"
               PROVE  m >= 1 /\ written[m] = Called(e.of)
    OBVIOUS
  <2> HIDE DEF m
  <2>1. m + 1 \in 1..Len(said) /\ said[m + 1] = e
    BY <1>9
  <2>2. m + 1 > 1 /\ said[(m + 1) - 1] = Called(e.of)
    BY <1>3, <2>1 DEF Ordered
  <2>3. (m + 1) - 1 = m /\ m \in 1..m
    BY <1>11, <2>2
  <2> QED
    BY <1>11, <2>2, <2>3
<1>13. Len(written) >= 1 /\ written[Len(written)].kind = "tool_call"
          => e.kind \in {"tool_result", "token_delta"}
  <2> SUFFICES ASSUME m >= 1, written[m].kind = "tool_call", e.kind # "token_delta"
               PROVE  e.kind = "tool_result"
    OBVIOUS
  <2> HIDE DEF m
  <2>1. m + 1 \in 1..Len(said) /\ said[m + 1] = e
    BY <1>9
  <2>2. m \in 1..(Len(said) - 1) /\ m \in 1..m
    BY <1>11, <2>1
  <2>3. said[m].kind = "tool_call"
    BY <1>11, <2>2
  <2>4. e = Returned(said[m].of)
    BY <1>3, <2>1, <2>2, <2>3 DEF Ordered
  <2> QED
    BY <2>4 DEF Returned
<1>14. /\ InHand(Replayed(Log'), Announced(Log'))
       /\ e.kind = "turn_end" => Replayed(Log').calls = <<>>
  <2>1. /\ e.kind = "token_delta" => InHand(Folded(r, e), written)
        /\ e.kind # "token_delta" => InHand(Folded(r, e), Append(written, e))
        /\ e.kind = "turn_end" => Folded(r, e).calls = <<>>
    BY <1>3, <1>4, <1>5, <1>12, <1>13, InHandStep
  <2> QED
    BY <1>8, <2>1
<1>15. Part(Announced(Log'), said) /\ Follows(Announced(Log'), said, reliable')
  BY <1>3, <1>8, <1>9, <1>10
<1>16. ASSUME Stops(e)
       PROVE  Announced(Log') = said /\ Done /\ e.kind = "turn_end"
  <2>1. e.kind = "turn_end"
    BY <1>16 DEF Stops
  <2>2. m + 1 \in 1..Len(said) /\ said[m + 1] = e /\ Announced(Log') = Append(written, e)
    BY <1>8, <1>9, <2>1
  <2>3. m + 1 = Len(said) /\ Done
    BY <1>3, <2>1, <2>2 DEF Ordered, Done
  <2>4. Append(written, e) \in Seq(Event) /\ Len(Append(written, e)) = Len(said)
    BY <1>4, <1>5, <2>3
  <2>5. Append(written, e) = said
    BY <1>5, <1>15, <2>2, <2>4, PartWhole
  <2> QED
    BY <2>1, <2>2, <2>3, <2>5
<1>17. Logged(Announced(Log), Announced(sent))'
  <2>1. Announced(sent') = said
    BY <1>1 DEF said
  <2>2. turn' = turn /\ Done' = Done
    BY <1>1 DEF Done
  <2> QED
    BY <1>1, <1>2, <1>4, <1>15, <1>16, <2>1, <2>2 DEF Logged
<1>18. Ordered(Announced(sent), turn)' /\ Room(Announced(sent), turn)'
  BY <1>1, <1>3 DEF said
<1> QED
  BY <1>1, <1>2, <1>7, <1>14, <1>16, <1>17, <1>18 DEF IInv

LEMMA StepKeeps ==
  ASSUME RingHoldsTurn, IInv, [Next]_recordVars
  PROVE  IInv'
<1>1. CASE UNCHANGED recordVars
  <2>1. UNCHANGED <<turn, sent, lossy, reliable, printer, buffer, disk>>
    BY <1>1 DEF recordVars, busVars, paperVars
  <2>2. Log' = Log /\ Types' /\ Done' = Done
    BY <2>1 DEF IInv, Types, Asking, Done, Log
  <2>3. Logged(Announced(Log), Announced(sent))'
    BY <2>1, <2>2 DEF IInv, Logged
  <2> QED
    BY <2>1, <2>2, <2>3 DEF IInv
<1>2. CASE Stream
  BY <1>2, StreamKeeps
<1>3. CASE \E n \in 0..MaxCalls : EndRound(n)
  BY <1>3, EndRoundKeeps
<1>4. CASE EngineFails
  BY <1>4, EngineFailsKeeps
<1>5. CASE Call
  BY <1>5, CallKeeps
<1>6. CASE Answer
  BY <1>6, AnswerKeeps
<1>7. CASE EndTurn
  BY <1>7, EndTurnKeeps
<1>8. CASE Record
  BY <1>8, RecordKeeps
<1>9. CASE Spill
  BY <1>9, SpillKeeps
<1>10. CASE WriteFails
  BY <1>10, WriteFailsKeeps
<1>11. CASE Crash
  BY <1>11, CrashKeeps
<1> QED
  BY <1>1, <1>2, <1>3, <1>4, <1>5, <1>6, <1>7, <1>8, <1>9, <1>10, <1>11 DEF Next, TurnSteps

-----------------------------------------------------------------------------
(* The theorems.                                                           *)

LEMMA Kept ==
  ASSUME IInv
  PROVE  ResultsKept
<1> DEFINE written == Announced(Log)
           said == Announced(sent)
<1>1. Types /\ Logged(written, said)
  BY DEF IInv
<1>2. written \in Seq(Event) /\ said \in Seq(Event)
  BY <1>1, LogTypes
<1>3. Part(written, said) /\ (printer = "stopped" => written = said)
  BY <1>1 DEF Logged
<1>4. IsPrefix(written, said)
  <2> HIDE DEF written, said
  <2>1. Len(written) <= Len(said) /\ Len(written) \in Nat /\ Len(said) \in Nat
    BY <1>2, <1>3 DEF Part
  <2>2. Len(written) \in 0..Len(said)
    BY <2>1
  <2>3. /\ SubSeq(said, 1, Len(written)) \in Seq(Event)
        /\ Len(SubSeq(said, 1, Len(written))) = Len(written)
        /\ \A i \in 1..Len(written) : SubSeq(said, 1, Len(written))[i] = said[i]
    BY <1>2, <2>2
  <2>4. SubSeq(said, 1, Len(written)) = written
    BY <1>2, <1>3, <2>3 DEF Part
  <2> QED
    BY <2>1, <2>4 DEF IsPrefix
<1>5. Announced(disk \o buffer) = written
  BY DEF Log
<1> HIDE DEF written, said
<1> QED
  BY <1>3, <1>4, <1>5 DEF ResultsKept, said

LEMMA Answers ==
  ASSUME IInv
  PROVE  ReplayAnswersCalls
<1> SUFFICES ASSUME printer = "stopped"
             PROVE  Answered(Rebuilt(disk))
  BY DEF ReplayAnswersCalls, Answered
<1>1. Log = disk
  <2>1. disk \in Seq(Event) /\ buffer = <<>>
    BY DEF IInv, Types, Logged
  <2>2. \A d \in Seq(Event) : d \o <<>> = d
    OBVIOUS
  <2> QED
    BY <2>1, <2>2 DEF Log
<1> DEFINE r == Replayed(disk)
<1>2. InHand(r, Announced(disk)) /\ r.calls = <<>>
  BY <1>1 DEF IInv
<1>3. r \in Rebuild /\ Answered(r.messages)
  BY <1>2 DEF InHand
<1>4. Rebuilt(disk) = Flushed(r).messages
  BY DEF Rebuilt, Replayed
<1> HIDE DEF r
<1> QED
  BY <1>2, <1>3, <1>4, FlushedQuiet

LEMMA Invariant ==
  RingHoldsTurn => (Spec => []IInv)
<1>1. Init => IInv
  BY AtFirst
<1>2. RingHoldsTurn /\ IInv /\ [Next]_recordVars => IInv'
  BY StepKeeps
<1> HAVE RingHoldsTurn
<1> QED
  BY <1>1, <1>2, PTL DEF Spec

(* Where the reliable ring holds a turn, what is recorded of a turn's course is how  *)
(* the course began, and once the printer has stopped on the turn's end it is the    *)
(* whole of it: no call and no result is lost or moved on its way to the disk,       *)
(* whatever the lossy ring drops and wherever the process dies.                      *)
THEOREM ResultsReachPaper ==
  RingHoldsTurn => (Spec => []ResultsKept)
<1>1. RingHoldsTurn => (Spec => []IInv)
  BY Invariant
<1>2. IInv => ResultsKept
  BY Kept
<1> QED
  BY <1>1, <1>2, PTL

(* And a recording that was finished replays to a conversation in which each call is *)
(* answered by the message after it.                                                 *)
THEOREM RecordingsReplay ==
  RingHoldsTurn => (Spec => []ReplayAnswersCalls)
<1>1. RingHoldsTurn => (Spec => []IInv)
  BY Invariant
<1>2. IInv => ReplayAnswersCalls
  BY Answers
<1> QED
  BY <1>1, <1>2, PTL
=============================================================================
