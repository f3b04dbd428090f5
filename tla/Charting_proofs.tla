--------------------------- MODULE Charting_proofs ---------------------------
(***************************************************************************)
(* Proofs about Charting, for every number of runs and maps and every way  *)
(* an append can be cut short: what a checkpoint file keeps, whatever runs *)
(* write to it; and, where one process charts at a time, that the stages   *)
(* of a map follow on from each other and its tickets are drawn up once.   *)
(***************************************************************************)
EXTENDS Charting, SequenceTheorems, FiniteSetTheorems, WellFoundedInduction, TLAPS

\* A set of naturals has a least element: their initial segments are ordered
\* by inclusion, which is well founded on finite sets.
LEMMA LeastNatural ==
    ASSUME NEW T \in SUBSET Nat, T # {}
    PROVE  \E x \in T : \A y \in T : x <= y
<1>. DEFINE Below == {1..x : x \in T}
<1>1. Below \subseteq FiniteSubsetsOf(Nat) /\ Below # {}
  <2>1. ASSUME NEW x \in T PROVE IsFiniteSet(1..x) /\ 1..x \in SUBSET Nat
    <3>1. x \in Int /\ 1 \in Int /\ 1..x \subseteq Nat
      OBVIOUS
    <3>. QED  BY <3>1, FS_Interval
  <2>2. \A c \in Below : c \in SUBSET Nat /\ IsFiniteSet(c)
    BY <2>1
  <2>. QED  BY <2>2 DEF FiniteSubsetsOf
<1>2. PICK b \in Below : \A c \in Below : <<c, b>> \notin StrictSubsetOrdering(Nat)
  BY <1>1, WFMin, FS_StrictSubsetOrderingWellFounded
<1>3. PICK x \in T : b = 1..x
  BY <1>2
<1>4. ASSUME NEW y \in T, ~(x <= y) PROVE FALSE
  <2>1. x \in Nat /\ y \in Nat /\ x > y
    BY <1>4
  <2>2. \A z \in 1..y : z \in 1..x
    BY <2>1
  <2>3. x \in 1..x /\ x \notin 1..y
    BY <2>1
  <2>4. 1..y # 1..x
    BY <2>3
  <2>5. 1..y \in SUBSET Nat /\ 1..x \in SUBSET Nat
    BY <2>1
  <2>6. <<1..y, 1..x>> \in StrictSubsetOrdering(Nat)
    BY <2>2, <2>4, <2>5 DEF StrictSubsetOrdering
  <2>. QED  BY <1>2, <1>3, <2>6
<1>. QED  BY <1>4

\* A bounded set of naturals that is not empty has a greatest element.
LEMMA MaxProperties ==
    ASSUME NEW N \in Nat, NEW T \in SUBSET (0..N), T # {}
    PROVE  Max(T) \in T /\ \A y \in T : y <= Max(T)
<1>0. N \in Int /\ \A x \in T : x \in Int
  OBVIOUS
<1>. DEFINE Left == {N - x : x \in T}
<1>1. Left \in SUBSET Nat /\ Left # {}
  <2>1. \A x \in T : x \in Nat /\ x <= N /\ N - x \in Nat
    OBVIOUS
  <2>. QED  BY <2>1
<1>2. PICK u \in Left : \A y \in Left : u <= y
  <2>. HIDE DEF Left
  <2>. QED  BY <1>1, LeastNatural
<1>3. PICK x \in T : u = N - x
  OBVIOUS
<1>4. ASSUME NEW y \in T PROVE x >= y
  <2>1. u <= N - y
    BY <1>2
  <2>. QED  BY <1>0, <1>3, <2>1
<1>5. \E m \in T : \A y \in T : m >= y
  BY <1>4
<1>6. Max(T) \in T /\ \A y \in T : Max(T) >= y
  BY <1>5 DEF Max
<1>. QED  BY <1>0, <1>6
-----------------------------------------------------------------------------
(* Lines, files and runs.                                                  *)

\* A line either is no checkpoint, and then its newline is all there is to
\* know, or is a checkpoint with its result.
LEMMA LineKinds ==
    ASSUME NEW l \in Line
    PROVE  /\ l.ended \in BOOLEAN
           /\ l.stage = 0 => l = Broken(l.ended)
           /\ l.stage # 0 => l.stage \in Stage /\ l.result \in Result
<1>1. CASE l \in [stage : {0}, ended : BOOLEAN]
  BY <1>1 DEF Broken
<1>2. CASE l \in [stage : Stage, result : Result, ended : BOOLEAN]
  BY <1>2 DEF Stage
<1>. QED  BY <1>1, <1>2 DEF Line

LEMMA LineTypes ==
    ASSUME NEW ended \in BOOLEAN
    PROVE  /\ Broken(ended) \in Line /\ Broken(ended).stage = 0 /\ Broken(ended).ended = ended
           /\ \A s \in Stage, res \in Result :
                 /\ Record(s, res, ended) \in Line /\ Record(s, res, ended).stage = s
                 /\ Record(s, res, ended).result = res /\ Record(s, res, ended).ended = ended
BY DEF Broken, Record, Line

\* What an append does: it joins a line left without a newline, which is
\* then no checkpoint any more, or adds a line of its own.
Joins(file) == file # <<>> /\ ~Last(file).ended

LEMMA AppendToProperties ==
    ASSUME NEW file \in Seq(Line), NEW line \in Line
    PROVE  /\ AppendTo(file, line) \in Seq(Line)
           /\ Joins(file) =>
                /\ Len(AppendTo(file, line)) = Len(file) /\ Len(file) >= 1
                /\ \A i \in 1..(Len(file) - 1) : AppendTo(file, line)[i] = file[i]
                /\ AppendTo(file, line)[Len(file)] = Broken(line.ended)
           /\ ~Joins(file) =>
                /\ Len(AppendTo(file, line)) = Len(file) + 1
                /\ \A i \in 1..Len(file) : AppendTo(file, line)[i] = file[i]
                /\ AppendTo(file, line)[Len(file) + 1] = line
<1>0. Len(file) \in Nat
  OBVIOUS
<1>1. CASE Joins(file)
  <2>1. Broken(line.ended) \in Line
    BY LineKinds, LineTypes
  <2>2. Len(file) >= 1
    BY <1>1 DEF Joins
  <2>3. /\ Front(file) \in Seq(Line) /\ Len(Front(file)) = Len(file) - 1
        /\ \A i \in 1..(Len(file) - 1) : Front(file)[i] = file[i]
    <3>1. Front(file) = SubSeq(file, 1, Len(file) - 1)
      BY DEF Front
    <3>2. file \in Seq(Line) /\ Len(file) - 1 \in Nat /\ Len(file) - 1 <= Len(file)
      BY <1>0, <2>2
    <3>3. SubSeq(file, 1, Len(file) - 1) \in Seq(Line)
      BY <3>2
    <3>4. Len(SubSeq(file, 1, Len(file) - 1)) = Len(file) - 1
      BY <3>2
    <3>5. \A i \in 1..(Len(file) - 1) : SubSeq(file, 1, Len(file) - 1)[i] = file[i]
      BY <3>2
    <3>. QED  BY <3>1, <3>3, <3>4, <3>5
  <2>4. AppendTo(file, line) = Append(Front(file), Broken(line.ended))
    BY <1>1 DEF AppendTo, Joins
  <2>. QED  BY <1>0, <1>1, <2>1, <2>2, <2>3, <2>4
<1>2. CASE ~Joins(file)
  <2>1. AppendTo(file, line) = Append(file, line)
    BY <1>2 DEF AppendTo, Joins
  <2>. QED  BY <1>0, <1>2, <2>1
<1>. QED  BY <1>1, <1>2

\* A run's checkpoint of a stage it finds is one of the file's.
LEMMA NewestProperties ==
    ASSUME NEW file \in Seq(Line), NEW s \in Stage, Found(file, s) # {}
    PROVE  /\ Max(Found(file, s)) \in DOMAIN file
           /\ file[Max(Found(file, s))].stage = s
           /\ Newest(file, s) \in Result
<1>1. Found(file, s) \in SUBSET (0..Len(file)) /\ Len(file) \in Nat
  BY DEF Found
<1>2. Max(Found(file, s)) \in Found(file, s)
  BY <1>1, MaxProperties
<1>3. Max(Found(file, s)) \in DOMAIN file /\ file[Max(Found(file, s))].stage = s
  BY <1>2 DEF Found
<1>4. file[Max(Found(file, s))] \in Line /\ s # 0
  BY <1>3 DEF Stage
<1>. QED  BY <1>3, <1>4, LineKinds DEF Newest

\* Where a run that is not over stands.
LEMMA RunProperties ==
    ASSUME TypeOK, NEW r \in Runner, runs[r] # NoRun
    PROVE  /\ runs[r] \in RunType /\ runs[r].map \in Map /\ runs[r].id \in RunId
           /\ runs[r].done \in Seq(Result) /\ Len(runs[r].done) \in 0..Stages
           /\ File(r) \in Seq(Line)
<1>1. runs[r] \in RunType /\ Len(runs[r].done) <= Stages
  BY DEF TypeOK
<1>2. runs[r].map \in Map /\ runs[r].id \in RunId /\ runs[r].done \in Seq(Result)
  BY <1>1 DEF RunType
<1>3. Len(runs[r].done) \in 0..Stages
  <2>1. Len(runs[r].done) \in Nat /\ Stages \in Nat
    BY <1>2 DEF Stages
  <2>. QED  BY <1>1, <2>1
<1>4. File(r) \in Seq(Line)
  BY <1>2 DEF TypeOK, File
<1>. QED  BY <1>1, <1>2, <1>3, <1>4

\* A step of a run moves no other run.
Others(r) == \A q \in Runner \ {r} : runs'[q] = runs[q]

Moved(r, state, done) ==
    /\ runs'[r] # NoRun
    /\ runs'[r].state = state /\ runs'[r].done = done
    /\ runs'[r].map = runs[r].map /\ runs'[r].id = runs[r].id

LEMMA RunMoves ==
    ASSUME TypeOK, NEW r \in Runner, runs[r] # NoRun,
           NEW state \in {"loading", "computing"}, NEW done \in Seq(Result), Len(done) <= Stages,
           runs' = [runs EXCEPT ![r] = [@ EXCEPT !.state = state, !.done = done]]
    PROVE  /\ runs' \in [Runner -> RunType \cup {NoRun}]
           /\ \A q \in Runner : Len(runs'[q].done) <= Stages
           /\ Others(r) /\ Moved(r, state, done)
<1>1. runs[r] \in RunType
  BY RunProperties
<1>. DEFINE c == [runs[r] EXCEPT !.state = state, !.done = done]
<1>2. /\ c \in RunType /\ c.state = state /\ c.done = done
      /\ c.map = runs[r].map /\ c.id = runs[r].id
  BY <1>1 DEF RunType
<1>3. runs' = [runs EXCEPT ![r] = c] /\ runs \in [Runner -> RunType \cup {NoRun}]
  BY DEF TypeOK
<1>4. NoRun.state = "idle"
  BY DEF NoRun
<1>5. c # NoRun
  BY <1>2, <1>4
<1>6. runs'[r] = c /\ \A q \in Runner \ {r} : runs'[q] = runs[q]
  BY <1>3
<1>7. \A q \in Runner : Len(runs'[q].done) <= Stages
  BY <1>2, <1>6 DEF TypeOK
<1>. QED  BY <1>2, <1>3, <1>5, <1>6, <1>7 DEF Others, Moved

LEMMA EndMoves ==
    ASSUME TypeOK, NEW r \in Runner, EndRun(r)
    PROVE  /\ runs' \in [Runner -> RunType \cup {NoRun}]
           /\ \A q \in Runner : Len(runs'[q].done) <= Stages
           /\ Others(r) /\ runs'[r] = NoRun
<1>1. runs' = [runs EXCEPT ![r] = NoRun] /\ runs \in [Runner -> RunType \cup {NoRun}]
  BY DEF TypeOK, EndRun
<1>2. runs'[r] = NoRun /\ \A q \in Runner \ {r} : runs'[q] = runs[q]
  BY <1>1
<1>3. NoRun.done = <<>> /\ Len(<<>>) <= Stages
  BY DEF NoRun, Stages
<1>4. \A q \in Runner : Len(runs'[q].done) <= Stages
  BY <1>2, <1>3 DEF TypeOK
<1>. QED  BY <1>1, <1>2, <1>4 DEF Others

LEMMA StartMoves ==
    ASSUME TypeOK, NEW r \in Runner, NEW m \in Map, NEW fresh \in BOOLEAN, Start(r, m, fresh)
    PROVE  /\ runs' \in [Runner -> RunType \cup {NoRun}] /\ started' \in 0..MaxRuns
           /\ \A q \in Runner : Len(runs'[q].done) <= Stages
           /\ Others(r)
           /\ runs'[r].state = "loading" /\ runs'[r].map = m /\ runs'[r].done = <<>>
<1>. DEFINE c == [state |-> "loading", id |-> started + 1, map |-> m,
                  fresh |-> fresh, done |-> <<>>]
<1>0. started \in 0..MaxRuns /\ started < MaxRuns /\ MaxRuns \in Nat
  BY ChartingAssumption DEF TypeOK, Start
<1>1. started + 1 \in RunId /\ started' \in 0..MaxRuns
  BY <1>0 DEF RunId, Start
<1>2. <<>> \in Seq(Result)
  OBVIOUS
<1>3. c \in RunType
  BY <1>1, <1>2 DEF RunType
<1>4. runs' = [runs EXCEPT ![r] = c] /\ runs \in [Runner -> RunType \cup {NoRun}]
  BY DEF TypeOK, Start
<1>. HIDE DEF c
<1>5. runs'[r] = c /\ \A q \in Runner \ {r} : runs'[q] = runs[q]
  BY <1>4
<1>6. c.done = <<>> /\ Len(<<>>) <= Stages /\ c.state = "loading" /\ c.map = m
  BY DEF c, Stages
<1>7. \A q \in Runner : Len(runs'[q].done) <= Stages
  BY <1>5, <1>6 DEF TypeOK
<1>. QED  BY <1>1, <1>3, <1>4, <1>5, <1>6, <1>7 DEF Others

\* What a stage computes has its run's number and names the run whose result
\* it read.
LEMMA ComputedTypes ==
    ASSUME TypeOK, NEW r \in Runner, runs[r] # NoRun, NEW res \in Computed(r)
    PROVE  res \in Result /\ res.run = runs[r].id /\ res.basis = Basis(r)
<1>1. runs[r].id \in RunId /\ runs[r].done \in Seq(Result)
  BY RunProperties
<1>2. Basis(r) \in 0..MaxRuns
  <2>. MaxRuns \in Nat
    BY ChartingAssumption
  <2>1. CASE runs[r].done = <<>>
    <3>1. 0 \in 0..MaxRuns
      OBVIOUS
    <3>. QED  BY <2>1, <3>1 DEF Basis
  <2>2. CASE runs[r].done # <<>>
    <3>1. Last(runs[r].done) \in Result
      BY <1>1, <2>2 DEF Last
    <3>2. Last(runs[r].done).run \in 1..MaxRuns
      BY <3>1 DEF Result, RunId
    <3>3. Last(runs[r].done).run \in 0..MaxRuns
      BY <3>2
    <3>. QED  BY <2>2, <3>3 DEF Basis
  <2>. QED  BY <2>1, <2>2
<1>3. PICK e \in BOOLEAN : res = [run |-> runs[r].id, basis |-> Basis(r), empty |-> e]
  BY DEF Computed
<1>. QED  BY <1>1, <1>2, <1>3 DEF Result

\* A stage is computed while there is one left.
RoomInv == \A r \in Runner : runs[r].state = "computing" => Len(runs[r].done) < Stages

\* The stage a run is at.
LEMMA NextStageProperties ==
    ASSUME TypeOK, NEW r \in Runner, runs[r] # NoRun, Len(runs[r].done) < Stages
    PROVE  NextStage(r) \in Stage /\ NextStage(r) = Len(runs[r].done) + 1
<1>1. Len(runs[r].done) \in 0..Stages
  BY RunProperties
<1>2. Len(runs[r].done) \in Nat /\ Len(runs[r].done) + 1 <= Stages
  BY <1>1 DEF Stages
<1>. QED  BY <1>2 DEF NextStage, Stage, Stages

\* A run with one more stage done.
LEMMA DoneMoves ==
    ASSUME TypeOK, NEW r \in Runner, runs[r] # NoRun, Len(runs[r].done) < Stages,
           NEW res \in Result
    PROVE  /\ Append(runs[r].done, res) \in Seq(Result)
           /\ Len(Append(runs[r].done, res)) = Len(runs[r].done) + 1
           /\ Len(Append(runs[r].done, res)) <= Stages
           /\ \A i \in DOMAIN runs[r].done : Append(runs[r].done, res)[i] = runs[r].done[i]
           /\ Append(runs[r].done, res)[Len(runs[r].done) + 1] = res
<1>1. runs[r].done \in Seq(Result) /\ Len(runs[r].done) \in 0..Stages
  BY RunProperties
<1>2. /\ Append(runs[r].done, res) \in Seq(Result)
      /\ Len(Append(runs[r].done, res)) = Len(runs[r].done) + 1
      /\ \A i \in DOMAIN runs[r].done : Append(runs[r].done, res)[i] = runs[r].done[i]
      /\ Append(runs[r].done, res)[Len(runs[r].done) + 1] = res
  BY <1>1
<1>3. Len(runs[r].done) \in Nat /\ Len(runs[r].done) + 1 <= Stages
  BY <1>1 DEF Stages
<1>. QED  BY <1>2, <1>3

\* What an append cut short leaves is a file.
LEMMA CutProperties ==
    ASSUME TypeOK, NEW r \in Runner, runs[r] # NoRun, Len(runs[r].done) < Stages,
           NEW res \in Result, NEW cut \in Cuts, NEW file \in Seq(Line)
    PROVE  LET left == CASE cut = "nothing"    -> file
                         [] cut = "fragment"   -> AppendTo(file, Broken(FALSE))
                         [] cut = "no newline" -> AppendTo(file, Record(NextStage(r), res, FALSE))
                         [] cut = "everything" -> AppendTo(file, Record(NextStage(r), res, TRUE))
           IN  \/ left = file
               \/ \E line \in Line : left = AppendTo(file, line)
<1>1. NextStage(r) \in Stage
  BY NextStageProperties
<1>2. /\ Broken(FALSE) \in Line
      /\ Record(NextStage(r), res, FALSE) \in Line /\ Record(NextStage(r), res, TRUE) \in Line
  BY <1>1, LineTypes
<1>3. cut \in {"nothing", "fragment", "no newline", "everything"}
  BY ChartingAssumption
<1>. QED  BY <1>2, <1>3
-----------------------------------------------------------------------------
(* Types.                                                                  *)

TypeInv == TypeOK /\ RoomInv

\* A step that writes the file of one map keeps the files sequences of lines.
LEMMA LinesMove ==
    ASSUME TypeOK, NEW m \in Map, NEW file \in Seq(Line), lines' = [lines EXCEPT ![m] = file]
    PROVE  /\ lines' \in [Map -> Seq(Line)] /\ lines'[m] = file
           /\ \A n \in Map \ {m} : lines'[n] = lines[n]
BY DEF TypeOK

\* What a run hands over has all the stages.
LEMMA WholeRun ==
    ASSUME TypeOK, NEW r \in Runner, runs[r] # NoRun, Len(runs[r].done) = Stages
    PROVE  runs[r].done \in [Stage -> Result]
<1>1. runs[r].done \in Seq(Result)
  BY RunProperties
<1>2. runs[r].done \in [1..Len(runs[r].done) -> Result]
  BY <1>1, ElementOfSeq
<1>. QED  BY <1>2 DEF Stage

\* Saving: what the file and the run become.
LEMMA SaveMoves ==
    ASSUME TypeInv, NEW r \in Runner, Save(r)
    PROVE  /\ runs[r] # NoRun /\ Len(runs[r].done) < Stages
           /\ \E res \in Computed(r) :
                 /\ Record(NextStage(r), res, TRUE) \in Line
                 /\ AppendTo(File(r), Record(NextStage(r), res, TRUE)) \in Seq(Line)
                 /\ lines' = [lines EXCEPT ![runs[r].map] =
                                AppendTo(File(r), Record(NextStage(r), res, TRUE))]
                 /\ Others(r) /\ Moved(r, "loading", Append(runs[r].done, res))
                 /\ runs' \in [Runner -> RunType \cup {NoRun}]
                 /\ \A q \in Runner : Len(runs'[q].done) <= Stages
<1>1. runs[r] # NoRun /\ Len(runs[r].done) < Stages /\ TypeOK
  BY DEF Save, NoRun, TypeInv, RoomInv
<1>2. PICK res \in Computed(r) :
         /\ lines' = [lines EXCEPT ![runs[r].map] = AppendTo(@, Record(NextStage(r), res, TRUE))]
         /\ runs' = [runs EXCEPT ![r].state = "loading", ![r].done = Append(@, res)]
  BY DEF Save
<1>3. res \in Result
  BY <1>1, ComputedTypes
<1>4. Record(NextStage(r), res, TRUE) \in Line /\ File(r) \in Seq(Line) /\ runs[r].map \in Map
  BY <1>1, <1>3, NextStageProperties, LineTypes, RunProperties
<1>5. AppendTo(File(r), Record(NextStage(r), res, TRUE)) \in Seq(Line)
  BY <1>4, AppendToProperties
<1>6. lines' = [lines EXCEPT ![runs[r].map] = AppendTo(File(r), Record(NextStage(r), res, TRUE))]
  BY <1>2 DEF File
<1>7. runs' = [runs EXCEPT ![r] = [@ EXCEPT !.state = "loading", !.done = Append(runs[r].done, res)]]
  <2>1. runs \in [Runner -> RunType \cup {NoRun}] /\ runs[r] \in RunType
    BY <1>1, RunProperties DEF TypeOK
  <2>. QED  BY <1>2, <2>1 DEF RunType
<1>8. /\ Append(runs[r].done, res) \in Seq(Result)
      /\ Len(Append(runs[r].done, res)) <= Stages
  BY <1>1, <1>3, DoneMoves
<1>9. /\ Others(r) /\ Moved(r, "loading", Append(runs[r].done, res))
      /\ runs' \in [Runner -> RunType \cup {NoRun}]
      /\ \A q \in Runner : Len(runs'[q].done) <= Stages
  BY <1>1, <1>7, <1>8, RunMoves
<1>. QED  BY <1>1, <1>4, <1>5, <1>6, <1>9

\* An append that is cut short: nothing changes, or a line is appended to the
\* file of the run's map.
LEMMA CutMoves ==
    ASSUME TypeInv, NEW r \in Runner, SaveCut(r)
    PROVE  /\ runs[r] # NoRun /\ runs[r].map \in Map /\ File(r) \in Seq(Line) /\ EndRun(r)
           /\ \/ lines' = lines
              \/ \E line \in Line : lines' = [lines EXCEPT ![runs[r].map] = AppendTo(File(r), line)]
<1>1. runs[r] # NoRun /\ Len(runs[r].done) < Stages /\ TypeOK
  <2>1. runs[r].state = "computing"
    BY DEF SaveCut
  <2>. QED  BY <2>1 DEF NoRun, TypeInv, RoomInv
<1>2. PICK res \in Computed(r), cut \in Cuts :
          lines' = [lines EXCEPT ![runs[r].map] =
                      CASE cut = "nothing"    -> @
                        [] cut = "fragment"   -> AppendTo(@, Broken(FALSE))
                        [] cut = "no newline" -> AppendTo(@, Record(NextStage(r), res, FALSE))
                        [] cut = "everything" -> AppendTo(@, Record(NextStage(r), res, TRUE))]
  BY DEF SaveCut
<1>3. res \in Result /\ File(r) \in Seq(Line) /\ runs[r].map \in Map
  BY <1>1, ComputedTypes, RunProperties
<1>. DEFINE left == CASE cut = "nothing"    -> File(r)
                      [] cut = "fragment"   -> AppendTo(File(r), Broken(FALSE))
                      [] cut = "no newline" -> AppendTo(File(r), Record(NextStage(r), res, FALSE))
                      [] cut = "everything" -> AppendTo(File(r), Record(NextStage(r), res, TRUE))
<1>4. left = File(r) \/ \E line \in Line : left = AppendTo(File(r), line)
  BY <1>1, <1>3, CutProperties
<1>5. lines' = [lines EXCEPT ![runs[r].map] = left]
  BY <1>2 DEF File
<1>6. lines \in [Map -> Seq(Line)]
  BY <1>1 DEF TypeOK
<1>. HIDE DEF left
<1>7. CASE left = File(r)
  BY <1>1, <1>3, <1>5, <1>6, <1>7 DEF File, SaveCut
<1>8. CASE \E line \in Line : left = AppendTo(File(r), line)
  BY <1>1, <1>3, <1>5, <1>8 DEF SaveCut
<1>. QED  BY <1>4, <1>7, <1>8

\* The step of a stage that has a checkpoint, and of one that has none.
LEMMA ReplayMoves ==
    ASSUME TypeOK, NEW r \in Runner, Replay(r)
    PROVE  /\ runs[r] # NoRun /\ Len(runs[r].done) < Stages
           /\ Newest(File(r), NextStage(r)) \in Result
           /\ Others(r) /\ runs' \in [Runner -> RunType \cup {NoRun}]
           /\ \A q \in Runner : Len(runs'[q].done) <= Stages
           /\ Moved(r, "loading", Append(runs[r].done, Newest(File(r), NextStage(r))))
<1>. DEFINE res == Newest(File(r), NextStage(r))
<1>1. runs[r] # NoRun /\ Len(runs[r].done) < Stages
  BY DEF Replay, Loading, NoRun
<1>2. res \in Result
  BY <1>1, RunProperties, NextStageProperties, NewestProperties DEF Replay
<1>3. runs' = [runs EXCEPT ![r] = [@ EXCEPT !.state = "loading", !.done = Append(runs[r].done, res)]]
  <2>1. runs[r] \in RunType /\ runs[r].state = "loading"
    BY <1>1, RunProperties DEF Replay, Loading
  <2>2. [runs[r] EXCEPT !.done = Append(runs[r].done, res)]
          = [runs[r] EXCEPT !.state = "loading", !.done = Append(runs[r].done, res)]
    BY <2>1 DEF RunType
  <2>3. runs' = [runs EXCEPT ![r] = [runs[r] EXCEPT !.done = Append(runs[r].done, res)]]
    BY DEF Replay
  <2>. QED  BY <2>2, <2>3
<1>. HIDE DEF res
<1>4. Append(runs[r].done, res) \in Seq(Result) /\ Len(Append(runs[r].done, res)) <= Stages
  BY <1>1, <1>2, DoneMoves
<1>5. /\ Others(r) /\ Moved(r, "loading", Append(runs[r].done, res))
      /\ runs' \in [Runner -> RunType \cup {NoRun}]
      /\ \A q \in Runner : Len(runs'[q].done) <= Stages
  BY <1>1, <1>3, <1>4, RunMoves
<1>. QED  BY <1>1, <1>2, <1>5 DEF res

LEMMA ComputeMoves ==
    ASSUME TypeOK, NEW r \in Runner, Compute(r)
    PROVE  /\ runs[r] # NoRun /\ Len(runs[r].done) < Stages
           /\ Others(r) /\ runs' \in [Runner -> RunType \cup {NoRun}]
           /\ \A q \in Runner : Len(runs'[q].done) <= Stages
           /\ Moved(r, "computing", runs[r].done)
<1>1. runs[r] # NoRun /\ Len(runs[r].done) < Stages
  BY DEF Compute, Loading, NoRun
<1>2. runs[r].done \in Seq(Result) /\ runs[r] \in RunType
  BY <1>1, RunProperties
<1>3. runs' = [runs EXCEPT ![r] = [@ EXCEPT !.state = "computing", !.done = runs[r].done]]
  BY <1>2 DEF Compute, RunType
<1>. QED  BY <1>1, <1>2, <1>3, RunMoves DEF TypeOK

LEMMA TypesStep ==
    TypeInv /\ [Next]_vars => TypeInv'
<1>. SUFFICES ASSUME TypeInv, [Next]_vars PROVE TypeInv'
  OBVIOUS
<1>. USE DEF TypeInv
<1>0. MaxRuns \in Nat /\ MaxMaps \in Nat
  BY ChartingAssumption
<1>1. ASSUME NEW r \in Runner, Chart(r) PROVE TypeInv'
  <2>1. begun + 1 \in Map /\ begun' \in 0..MaxMaps /\ Start(r, begun + 1, TRUE)
    <3>1. begun \in 0..MaxMaps /\ begun < MaxMaps /\ begun' = begun + 1
      BY <1>1 DEF TypeOK, Chart
    <3>2. begun + 1 \in 1..MaxMaps /\ begun + 1 \in 0..MaxMaps
      BY <1>0, <3>1
    <3>. QED  BY <1>1, <3>1, <3>2 DEF Map, Chart
  <2>2. /\ runs' \in [Runner -> RunType \cup {NoRun}] /\ started' \in 0..MaxRuns
        /\ \A q \in Runner : Len(runs'[q].done) <= Stages
        /\ Others(r) /\ runs'[r].state = "loading"
    BY <2>1, StartMoves
  <2>3. RoomInv'
    BY <2>2 DEF RoomInv, Others
  <2>. QED  BY <2>1, <2>2, <2>3 DEF TypeOK, Start
<1>2. ASSUME NEW r \in Runner, Resume(r) PROVE TypeInv'
  <2>1. Max(dirs) \in Map /\ Start(r, Max(dirs), FALSE) /\ begun' = begun
    <3>1. dirs \in SUBSET (0..MaxMaps) /\ dirs # {} /\ dirs \subseteq Map
      BY <1>0, <1>2 DEF TypeOK, Map, Resume
    <3>2. Max(dirs) \in dirs
      BY <1>0, <3>1, MaxProperties
    <3>. QED  BY <1>2, <3>1, <3>2 DEF Resume
  <2>2. /\ runs' \in [Runner -> RunType \cup {NoRun}] /\ started' \in 0..MaxRuns
        /\ \A q \in Runner : Len(runs'[q].done) <= Stages
        /\ Others(r) /\ runs'[r].state = "loading"
    BY <2>1, StartMoves
  <2>3. RoomInv'
    BY <2>2 DEF RoomInv, Others
  <2>. QED  BY <2>1, <2>2, <2>3 DEF TypeOK, Start
<1>3. ASSUME NEW r \in Runner, Replay(r) PROVE TypeInv'
  <2>1. /\ Others(r) /\ runs' \in [Runner -> RunType \cup {NoRun}]
        /\ \A q \in Runner : Len(runs'[q].done) <= Stages
        /\ Moved(r, "loading", Append(runs[r].done, Newest(File(r), NextStage(r))))
    BY <1>3, ReplayMoves
  <2>2. RoomInv'
    BY <2>1 DEF RoomInv, Others, Moved
  <2>. QED  BY <1>3, <2>1, <2>2 DEF TypeOK, Replay
<1>4. ASSUME NEW r \in Runner, Compute(r) PROVE TypeInv'
  <2>1. /\ Others(r) /\ Moved(r, "computing", runs[r].done) /\ Len(runs[r].done) < Stages
        /\ runs' \in [Runner -> RunType \cup {NoRun}]
        /\ \A q \in Runner : Len(runs'[q].done) <= Stages
    BY <1>4, ComputeMoves
  <2>2. RoomInv'
    BY <2>1 DEF RoomInv, Others, Moved
  <2>. QED  BY <1>4, <2>1, <2>2 DEF TypeOK, Compute
<1>5. ASSUME NEW r \in Runner, Save(r) PROVE TypeInv'
  <2>1. /\ runs[r] # NoRun /\ Len(runs[r].done) < Stages
        /\ \E res \in Computed(r) :
              /\ AppendTo(File(r), Record(NextStage(r), res, TRUE)) \in Seq(Line)
              /\ lines' = [lines EXCEPT ![runs[r].map] =
                             AppendTo(File(r), Record(NextStage(r), res, TRUE))]
              /\ Others(r) /\ Moved(r, "loading", Append(runs[r].done, res))
              /\ runs' \in [Runner -> RunType \cup {NoRun}]
              /\ \A q \in Runner : Len(runs'[q].done) <= Stages
    BY <1>5, SaveMoves
  <2>2. runs[r].map \in Map /\ NextStage(r) \in Stage
    BY <2>1, RunProperties, NextStageProperties
  <2>3. lines' \in [Map -> Seq(Line)]
    BY <2>1, <2>2, LinesMove
  <2>4. RoomInv'
    BY <2>1 DEF RoomInv, Others, Moved
  <2>5. dirs' \subseteq Map /\ acknowledged' \in [Map -> SUBSET Stage]
    BY <1>5, <2>2 DEF TypeOK, Save
  <2>. QED  BY <1>5, <2>1, <2>3, <2>4, <2>5 DEF TypeOK, Save
<1>6. ASSUME NEW r \in Runner, SaveCut(r) PROVE TypeInv'
  <2>1. /\ runs[r] # NoRun /\ runs[r].map \in Map /\ File(r) \in Seq(Line) /\ EndRun(r)
        /\ \/ lines' = lines
           \/ \E line \in Line : lines' = [lines EXCEPT ![runs[r].map] = AppendTo(File(r), line)]
    BY <1>6, CutMoves
  <2>2. lines' \in [Map -> Seq(Line)]
    <3>1. CASE lines' = lines
      BY <3>1 DEF TypeOK
    <3>2. ASSUME NEW line \in Line,
                 lines' = [lines EXCEPT ![runs[r].map] = AppendTo(File(r), line)]
          PROVE  lines' \in [Map -> Seq(Line)]
      <4>1. AppendTo(File(r), line) \in Seq(Line)
        BY <2>1, AppendToProperties
      <4>. QED  BY <2>1, <3>2, <4>1, LinesMove
    <3>. QED  BY <2>1, <3>1, <3>2
  <2>3. /\ runs' \in [Runner -> RunType \cup {NoRun}] /\ Others(r) /\ runs'[r] = NoRun
        /\ \A q \in Runner : Len(runs'[q].done) <= Stages
    BY <2>1, EndMoves
  <2>4. RoomInv'
    BY <2>3 DEF RoomInv, Others, NoRun
  <2>. QED  BY <1>6, <2>1, <2>2, <2>3, <2>4 DEF TypeOK, SaveCut
<1>7. ASSUME NEW r \in Runner, Stop(r) PROVE TypeInv'
  <2>1. /\ runs' \in [Runner -> RunType \cup {NoRun}] /\ Others(r) /\ runs'[r] = NoRun
        /\ \A q \in Runner : Len(runs'[q].done) <= Stages
    BY <1>7, EndMoves DEF Stop
  <2>2. RoomInv'
    BY <2>1 DEF RoomInv, Others, NoRun
  <2>. QED  BY <1>7, <2>1, <2>2 DEF TypeOK, Stop
<1>8. ASSUME NEW r \in Runner, Deliver(r) PROVE TypeInv'
  <2>1. /\ runs' \in [Runner -> RunType \cup {NoRun}] /\ Others(r) /\ runs'[r] = NoRun
        /\ \A q \in Runner : Len(runs'[q].done) <= Stages
    BY <1>8, EndMoves DEF Deliver
  <2>2. RoomInv'
    BY <2>1 DEF RoomInv, Others, NoRun
  <2>3. runs[r] # NoRun /\ Len(runs[r].done) = Stages
    BY <1>8 DEF Deliver, NoRun
  <2>4. runs[r].done \in [Stage -> Result] /\ runs[r].map \in Map
    BY <2>3, WholeRun, RunProperties
  <2>5. DOMAIN delivered' = Map /\ \A m \in Map : delivered'[m] \subseteq [Stage -> Result]
    BY <1>8, <2>4 DEF Deliver, TypeOK
  <2>. QED  BY <1>8, <2>1, <2>2, <2>5 DEF TypeOK, Deliver
<1>9. CASE UNCHANGED vars
  BY <1>9 DEF vars, TypeOK, RoomInv
<1>. QED  BY <1>1, <1>2, <1>3, <1>4, <1>5, <1>6, <1>7, <1>8, <1>9 DEF Next, RunnerStep

LEMMA TypesAtFirst == Init => TypeInv
<1>. SUFFICES ASSUME Init PROVE TypeInv
  OBVIOUS
<1>1. 0 \in 0..MaxRuns /\ 0 \in 0..MaxMaps
  <2>1. MaxRuns \in Nat /\ MaxMaps \in Nat
    BY ChartingAssumption
  <2>. QED  BY <2>1
<1>2. <<>> \in Seq(Line) /\ Len(<<>>) <= Stages
  BY DEF Stages
<1>3. \A r \in Runner : runs[r] = NoRun /\ runs[r].done = <<>> /\ runs[r].state = "idle"
  BY DEF Init, NoRun
<1>4. RoomInv /\ \A r \in Runner : Len(runs[r].done) <= Stages
  BY <1>2, <1>3 DEF RoomInv
<1>5. runs \in [Runner -> RunType \cup {NoRun}]
  BY DEF Init
<1>6. lines \in [Map -> Seq(Line)] /\ acknowledged \in [Map -> SUBSET Stage]
  BY <1>2 DEF Init
<1>7. dirs = {} /\ started = 0 /\ begun = 0 /\ delivered = [m \in Map |-> {}]
  BY DEF Init
<1>. QED  BY <1>1, <1>4, <1>5, <1>6, <1>7 DEF TypeInv, TypeOK

\* The files hold lines, the runs hold results of stages and never more than
\* there are, and what is handed over has every stage (TypeOK).
THEOREM TypeCorrect == Spec => []TypeOK
<1>1. TypeInv => TypeOK
  BY DEF TypeInv
<1>. QED  BY <1>1, TypesAtFirst, TypesStep, PTL DEF Spec

-----------------------------------------------------------------------------
(* Progress: what an acknowledged stage's line becomes.                    *)

\* All lines of a file but the last end; and unless an append joined a line
\* left without its newline, every stage told to be kept has a line that ends.
EndsOf(file, told) ==
    /\ \A i \in 1..(Len(file) - 1) : file[i].ended
    /\ ~JoinedLine(file) => \A s \in told : \E i \in DOMAIN file : file[i].stage = s /\ file[i].ended

EndsInv == \A m \in Map : EndsOf(lines[m], acknowledged[m])

\* The lines that end before an append are there after it.
LEMMA AppendKeepsLines ==
    ASSUME NEW file \in Seq(Line), NEW line \in Line, \A i \in 1..(Len(file) - 1) : file[i].ended
    PROVE  /\ \A i \in 1..(Len(AppendTo(file, line)) - 1) : AppendTo(file, line)[i].ended
           /\ \A i \in DOMAIN file : file[i].ended =>
                 i \in DOMAIN AppendTo(file, line) /\ AppendTo(file, line)[i] = file[i]
           /\ \/ \E i \in DOMAIN AppendTo(file, line) : AppendTo(file, line)[i] = line
              \/ \E i \in DOMAIN AppendTo(file, line) : AppendTo(file, line)[i] = Broken(line.ended)
<1>. DEFINE new == AppendTo(file, line)
<1>0. Len(file) \in Nat /\ DOMAIN file = 1..Len(file) /\ new \in Seq(Line)
  BY AppendToProperties
<1>00. DOMAIN new = 1..Len(new) /\ Len(new) \in Nat
  BY <1>0
<1>1. CASE Joins(file)
  <2>1. /\ Len(new) = Len(file) /\ Len(file) >= 1
        /\ \A i \in 1..(Len(file) - 1) : new[i] = file[i]
        /\ new[Len(file)] = Broken(line.ended)
    BY <1>1, AppendToProperties
  <2>2. ~file[Len(file)].ended
    BY <1>1 DEF Joins, Last
  <2>. HIDE DEF new
  <2>3. \A i \in 1..Len(file) : file[i].ended => i \in 1..(Len(file) - 1)
    BY <1>0, <2>2
  <2>4. \A i \in DOMAIN file : file[i].ended => i \in DOMAIN new /\ new[i] = file[i]
    BY <1>0, <1>00, <2>1, <2>3
  <2>5. \A i \in 1..(Len(new) - 1) : new[i].ended
    BY <2>1
  <2>6. Len(file) \in DOMAIN new /\ new[Len(file)] = Broken(line.ended)
    BY <1>0, <1>00, <2>1
  <2>. QED  BY <2>4, <2>5, <2>6 DEF new
<1>2. CASE ~Joins(file)
  <2>1. /\ Len(new) = Len(file) + 1
        /\ \A i \in 1..Len(file) : new[i] = file[i]
        /\ new[Len(file) + 1] = line
    BY <1>2, AppendToProperties
  <2>2. file # <<>> => file[Len(file)].ended
    BY <1>2 DEF Joins, Last
  <2>. HIDE DEF new
  <2>3. ASSUME NEW i \in 1..Len(file) PROVE file[i].ended
    <3>1. file # <<>>
      BY <2>3
    <3>2. i = Len(file) \/ i \in 1..(Len(file) - 1)
      <4>1. i \in Nat /\ 1 <= i /\ i <= Len(file) /\ Len(file) \in Nat
        BY <1>0, <2>3
      <4>. QED  BY <4>1
    <3>. QED  BY <2>2, <3>1, <3>2
  <2>4. \A i \in 1..(Len(new) - 1) : new[i].ended
    BY <1>0, <2>1, <2>3
  <2>5. \A i \in DOMAIN file : i \in DOMAIN new /\ new[i] = file[i]
    BY <1>0, <1>00, <2>1
  <2>6. Len(file) + 1 \in DOMAIN new
    BY <1>0, <1>00, <2>1
  <2>. QED  BY <2>1, <2>4, <2>5, <2>6 DEF new
<1>. QED  BY <1>1, <1>2

\* So an append keeps what the files promise, and a whole one keeps its own
\* stage's promise.
LEMMA AppendKeepsEnds ==
    ASSUME NEW file \in Seq(Line), NEW line \in Line, NEW told, EndsOf(file, told)
    PROVE  /\ EndsOf(AppendTo(file, line), told)
           /\ line.ended => EndsOf(AppendTo(file, line), told \cup {line.stage})
<1>. DEFINE new == AppendTo(file, line)
<1>1. /\ \A i \in 1..(Len(new) - 1) : new[i].ended
      /\ \A i \in DOMAIN file : file[i].ended => i \in DOMAIN new /\ new[i] = file[i]
      /\ \/ \E i \in DOMAIN new : new[i] = line
         \/ \E i \in DOMAIN new : new[i] = Broken(line.ended)
  BY AppendKeepsLines DEF EndsOf
<1>. HIDE DEF new
<1>2. JoinedLine(file) => JoinedLine(new)
  <2>1. \A i \in DOMAIN file : file[i] = Broken(TRUE) => file[i].ended
    BY DEF Broken
  <2>. QED  BY <1>1, <2>1 DEF JoinedLine
<1>3. ~JoinedLine(new) => \A s \in told : \E i \in DOMAIN new : new[i].stage = s /\ new[i].ended
  BY <1>1, <1>2 DEF EndsOf
<1>4. ASSUME line.ended, ~JoinedLine(new)
      PROVE  \E i \in DOMAIN new : new[i].stage = line.stage /\ new[i].ended
  <2>1. line.ended = TRUE
    BY <1>4, LineKinds
  <2>2. \E i \in DOMAIN new : new[i] = line
    BY <1>1, <1>4, <2>1 DEF JoinedLine
  <2>. QED  BY <1>4, <2>2
<1>. QED  BY <1>1, <1>3, <1>4 DEF EndsOf, new

LEMMA EndsStep ==
    ASSUME TypeInv, EndsInv, [Next]_vars
    PROVE  EndsInv'
<1>1. ASSUME NEW r \in Runner, Save(r) PROVE EndsInv'
  <2>. DEFINE m == runs[r].map
  <2>1. PICK res \in Computed(r) :
           /\ Record(NextStage(r), res, TRUE) \in Line
           /\ AppendTo(File(r), Record(NextStage(r), res, TRUE)) \in Seq(Line)
           /\ lines' = [lines EXCEPT ![m] = AppendTo(File(r), Record(NextStage(r), res, TRUE))]
    BY <1>1, SaveMoves
  <2>2. runs[r] # NoRun /\ TypeOK
    BY <1>1, SaveMoves DEF TypeInv
  <2>3. m \in Map /\ File(r) \in Seq(Line) /\ File(r) = lines[m]
    BY <2>2, RunProperties DEF File
  <2>. DEFINE line == Record(NextStage(r), res, TRUE)
              new  == AppendTo(File(r), line)
  <2>4. lines'[m] = new /\ \A n \in Map \ {m} : lines'[n] = lines[n]
    BY <2>1, <2>2, <2>3, LinesMove
  <2>5. /\ acknowledged'[m] = acknowledged[m] \cup {NextStage(r)}
        /\ \A n \in Map \ {m} : acknowledged'[n] = acknowledged[n]
    BY <1>1, <2>2, <2>3 DEF Save, TypeOK
  <2>6. line.stage = NextStage(r) /\ line.ended /\ line \in Line
    BY <2>1 DEF Record
  <2>7. EndsOf(File(r), acknowledged[m])
    BY <2>3 DEF EndsInv
  <2>8. EndsOf(new, acknowledged[m] \cup {NextStage(r)})
    <3>. HIDE DEF line
    <3>1. EndsOf(new, acknowledged[m] \cup {line.stage})
      BY <2>3, <2>6, <2>7, AppendKeepsEnds
    <3>. QED  BY <2>6, <3>1
  <2>. HIDE DEF m, new
  <2>9. ASSUME NEW n \in Map PROVE EndsOf(lines'[n], acknowledged'[n])
    BY <2>4, <2>5, <2>8 DEF EndsInv
  <2>. QED  BY <2>9 DEF EndsInv
<1>2. ASSUME NEW r \in Runner, SaveCut(r) PROVE EndsInv'
  <2>. DEFINE m == runs[r].map
  <2>0. acknowledged' = acknowledged /\ TypeOK
    BY <1>2 DEF SaveCut, TypeInv
  <2>1. /\ m \in Map /\ File(r) \in Seq(Line)
        /\ lines' = lines \/ \E line \in Line : lines' = [lines EXCEPT ![m] = AppendTo(File(r), line)]
    BY <1>2, CutMoves
  <2>2. CASE lines' = lines
    BY <2>0, <2>2 DEF EndsInv
  <2>3. ASSUME NEW line \in Line, lines' = [lines EXCEPT ![m] = AppendTo(File(r), line)]
        PROVE  EndsInv'
    <3>. DEFINE new == AppendTo(File(r), line)
    <3>1. lines'[m] = new /\ \A n \in Map \ {m} : lines'[n] = lines[n]
      BY <2>0, <2>1, <2>3, LinesMove, AppendToProperties
    <3>2. EndsOf(File(r), acknowledged[m])
      BY <2>1 DEF EndsInv, File
    <3>3. EndsOf(new, acknowledged[m])
      BY <2>1, <3>2, AppendKeepsEnds
    <3>. HIDE DEF m, new
    <3>4. ASSUME NEW n \in Map PROVE EndsOf(lines'[n], acknowledged'[n])
      BY <2>0, <3>1, <3>3 DEF EndsInv
    <3>. QED  BY <3>4 DEF EndsInv
  <2>. QED  BY <2>1, <2>2, <2>3
<1>3. ASSUME UNCHANGED <<lines, acknowledged>> PROVE EndsInv'
  BY <1>3 DEF EndsInv
<1>. QED
  BY <1>1, <1>2, <1>3
  DEF Next, RunnerStep, vars, Chart, Resume, Start, Replay, Compute, Stop, Deliver

\* "A truncated final line loses that stage, never the ones before it": as
\* long as no append joined a truncated line, the file of a map loads and
\* every stage its runs were told is kept is in it, whatever runs wrote to it
\* and wherever they died (ProgressKept; pipeline.rs and plan.rs, load and
\* record).
THEOREM ProgressIsKept == Spec => []ProgressKept
<1>1. Init => EndsInv
  BY DEF Init, EndsInv, EndsOf
<1>2. TypeInv /\ EndsInv => ProgressKept
  <2>. SUFFICES ASSUME TypeInv, EndsInv, NEW m \in Map, ~JoinedLine(lines[m])
                PROVE  ~Unreadable(lines[m]) /\ acknowledged[m] \subseteq Known(lines[m])
    BY DEF ProgressKept
  <2>1. lines[m] \in Seq(Line) /\ EndsOf(lines[m], acknowledged[m]) /\ acknowledged[m] \subseteq Stage
    BY DEF TypeInv, TypeOK, EndsInv
  <2>2. ASSUME NEW i \in 1..(Len(lines[m]) - 1), lines[m][i].stage = 0 PROVE FALSE
    <3>1. i \in DOMAIN lines[m] /\ lines[m][i] \in Line /\ lines[m][i].ended
      BY <2>1, <2>2 DEF EndsOf
    <3>2. lines[m][i].ended = TRUE /\ lines[m][i] = Broken(lines[m][i].ended)
      BY <2>2, <3>1, LineKinds
    <3>. QED  BY <3>1, <3>2 DEF JoinedLine
  <2>3. acknowledged[m] \subseteq Known(lines[m])
    BY <2>1 DEF EndsOf, Known, Found
  <2>. QED  BY <2>2, <2>3 DEF Unreadable
<1>3. TypeInv /\ EndsInv /\ [Next]_vars => EndsInv'
  BY EndsStep
<1>. QED  BY <1>1, <1>2, <1>3, TypesAtFirst, TypesStep, PTL DEF Spec

-----------------------------------------------------------------------------
(* A run against its file: what follows holds where one process charts at  *)
(* a time.                                                                 *)

\* The run holds the first lines of its file.
InStep(f, done) == \A i \in DOMAIN done : i \in DOMAIN f /\ f[i].stage = i /\ done[i] = f[i].result

\* The run has saved a stage onto a line cut short, and the file lost both.
Ahead(f, done) ==
    /\ f # <<>> /\ f[Len(f)] = Broken(TRUE) /\ Len(f) <= Len(done)
    /\ \A i \in 1..(Len(f) - 1) : done[i] = f[i].result

\* A file that loads holds the stages in their order, each computed from the
\* one before it.
FileInv(f) ==
    ~Unreadable(f) =>
        /\ \A i \in DOMAIN f : f[i].stage \in {0, i}
        /\ \A i \in 2..Len(f) : f[i].stage # 0 => f[i].result.basis = f[i - 1].result.run

Fits(f, done) == Unreadable(f) \/ InStep(f, done) \/ Ahead(f, done)

\* A file that is not readable stays so, and becomes so by an append after a
\* line that is no checkpoint and ends.
LEMMA AppendToUnreadable ==
    ASSUME NEW f \in Seq(Line), NEW line \in Line
    PROVE  /\ Unreadable(f) => Unreadable(AppendTo(f, line))
           /\ f # <<>> /\ f[Len(f)] = Broken(TRUE) => Unreadable(AppendTo(f, line))
<1>. DEFINE new == AppendTo(f, line)
<1>0. Len(f) \in Nat /\ (f # <<>> => Len(f) >= 1)
  OBVIOUS
<1>1. CASE Joins(f)
  <2>1. Len(new) = Len(f) /\ \A i \in 1..(Len(f) - 1) : new[i] = f[i]
    BY <1>1, AppendToProperties
  <2>2. f[Len(f)] # Broken(TRUE)
    BY <1>1 DEF Joins, Last, Broken
  <2>. HIDE DEF new
  <2>3. Unreadable(f) => Unreadable(new)
    BY <2>1 DEF Unreadable
  <2>. QED  BY <2>2, <2>3 DEF new
<1>2. CASE ~Joins(f)
  <2>1. Len(new) = Len(f) + 1 /\ \A i \in 1..Len(f) : new[i] = f[i]
    BY <1>2, AppendToProperties
  <2>. HIDE DEF new
  <2>2. \A i \in 1..Len(f) : i \in 1..(Len(new) - 1)
    BY <1>0, <2>1
  <2>3. \A i \in 1..Len(f) : f[i].stage = 0 => Unreadable(new)
    BY <2>1, <2>2 DEF Unreadable
  <2>4. Unreadable(f) => Unreadable(new)
    <3>1. \A i \in 1..(Len(f) - 1) : i \in 1..Len(f)
      BY <1>0
    <3>. QED  BY <2>3, <3>1 DEF Unreadable
  <2>5. f # <<>> /\ f[Len(f)] = Broken(TRUE) => Unreadable(new)
    <3>1. f # <<>> => Len(f) \in 1..Len(f)
      BY <1>0
    <3>. QED  BY <2>3, <3>1 DEF Broken
  <2>. QED  BY <2>4, <2>5 DEF new
<1>. QED  BY <1>1, <1>2

\* In a file that loads, a stage that is found is at its place.
LEMMA FoundAtItsPlace ==
    ASSUME NEW f \in Seq(Line), NEW s \in Stage, FileInv(f), ~Unreadable(f), Found(f, s) # {}
    PROVE  s \in DOMAIN f /\ f[s].stage = s /\ Newest(f, s) = f[s].result
<1>1. Max(Found(f, s)) \in DOMAIN f /\ f[Max(Found(f, s))].stage = s
  BY NewestProperties
<1>2. s # 0
  BY DEF Stage
<1>3. Max(Found(f, s)) = s
  BY <1>1, <1>2 DEF FileInv
<1>. QED  BY <1>1, <1>3 DEF Newest

\* A stage that follows on is one more that does.
LEMMA OneMoreFollows ==
    ASSUME NEW done \in Seq(Result), NEW res \in Result, FollowsOn(done),
           done # <<>> => res.basis = done[Len(done)].run
    PROVE  FollowsOn(Append(done, res))
<1>. DEFINE more == Append(done, res)
<1>1. /\ Len(done) \in Nat /\ Len(more) = Len(done) + 1
      /\ \A i \in 1..Len(done) : more[i] = done[i]
      /\ more[Len(done) + 1] = res
  OBVIOUS
<1>. HIDE DEF more
<1>2. ASSUME NEW k \in 2..Len(more) PROVE more[k].basis = more[k - 1].run
  <2>1. CASE k = Len(done) + 1
    <3>1. k - 1 = Len(done) /\ k - 1 \in 1..Len(done) /\ done # <<>>
      BY <1>1, <1>2, <2>1
    <3>. QED  BY <1>1, <2>1, <3>1
  <2>2. CASE k # Len(done) + 1
    <3>1. k \in 2..Len(done) /\ k \in 1..Len(done) /\ k - 1 \in 1..Len(done)
      BY <1>1, <1>2, <2>2
    <3>. QED  BY <1>1, <3>1 DEF FollowsOn
  <2>. QED  BY <2>1, <2>2
<1>. QED  BY <1>2 DEF FollowsOn, more

\* Replaying the next stage keeps the run in step with its file.
LEMMA ReplayFits ==
    ASSUME NEW f \in Seq(Line), NEW done \in Seq(Result), Len(done) + 1 \in Stage,
           FileInv(f), ~Unreadable(f), Fits(f, done), FollowsOn(done),
           Found(f, Len(done) + 1) # {}
    PROVE  LET res == Newest(f, Len(done) + 1)
           IN  FollowsOn(Append(done, res)) /\ Fits(f, Append(done, res))
<1>. DEFINE s == Len(done) + 1
            res == Newest(f, s)
<1>0. Len(done) \in Nat /\ Len(f) \in Nat /\ DOMAIN done = 1..Len(done) /\ DOMAIN f = 1..Len(f)
  OBVIOUS
<1>1. s \in DOMAIN f /\ f[s].stage = s /\ res = f[s].result
  BY FoundAtItsPlace
<1>2. res \in Result
  BY NewestProperties
<1>3. InStep(f, done)
  <2>1. ~(Len(f) <= Len(done))
    BY <1>0, <1>1
  <2>. QED  BY <2>1 DEF Fits, Ahead
<1>4. done # <<>> => res.basis = done[Len(done)].run
  <2>. SUFFICES ASSUME done # <<>> PROVE res.basis = done[Len(done)].run
    OBVIOUS
  <2>1. Len(done) \in DOMAIN done /\ s \in 2..Len(f) /\ s - 1 = Len(done) /\ s # 0
    BY <1>0, <1>1
  <2>2. f[s].result.basis = f[s - 1].result.run
    BY <1>1, <2>1 DEF FileInv
  <2>. QED  BY <1>1, <1>3, <2>1, <2>2 DEF InStep
<1>5. FollowsOn(Append(done, res))
  BY <1>2, <1>4, OneMoreFollows
<1>6. /\ DOMAIN Append(done, res) = 1..(Len(done) + 1)
      /\ \A i \in 1..Len(done) : Append(done, res)[i] = done[i]
      /\ Append(done, res)[Len(done) + 1] = res
  BY <1>2
<1>7. ASSUME NEW i \in 1..(Len(done) + 1)
      PROVE  i \in DOMAIN f /\ f[i].stage = i /\ Append(done, res)[i] = f[i].result
  <2>1. i \in 1..Len(done) \/ i = Len(done) + 1
    BY <1>0, <1>7
  <2>. QED  BY <1>0, <1>1, <1>3, <1>6, <2>1 DEF InStep
<1>. QED  BY <1>5, <1>6, <1>7 DEF Fits, InStep

\* A file that loads, in step with a run and without its next stage, ends
\* with the run's last stage or with one broken line after it.
LEMMA WhereTheFileEnds ==
    ASSUME NEW f \in Seq(Line), NEW done \in Seq(Result), Len(done) + 1 \in Stage,
           FileInv(f), ~Unreadable(f), InStep(f, done), Found(f, Len(done) + 1) = {}
    PROVE  \/ Len(f) = Len(done)
           \/ Len(f) = Len(done) + 1 /\ f[Len(f)].stage = 0
<1>0. Len(done) \in Nat /\ Len(f) \in Nat /\ DOMAIN done = 1..Len(done) /\ DOMAIN f = 1..Len(f)
  OBVIOUS
<1>1. Len(f) >= Len(done)
  <2>1. Len(done) # 0 => Len(done) \in DOMAIN done
    BY <1>0
  <2>. QED  BY <1>0, <2>1 DEF InStep
<1>2. CASE Len(f) > Len(done)
  <2>1. Len(done) + 1 \in DOMAIN f
    BY <1>0, <1>2
  <2>2. f[Len(done) + 1].stage = 0
    BY <2>1 DEF FileInv, Found
  <2>3. ~(Len(done) + 1 <= Len(f) - 1)
    <3>1. Len(done) + 1 \notin 1..(Len(f) - 1)
      BY <2>2 DEF Unreadable
    <3>. QED  BY <1>0, <3>1
  <2>4. Len(f) = Len(done) + 1
    <3>1. Len(done) \in Nat /\ Len(f) \in Nat
      OBVIOUS
    <3>. QED  BY <1>2, <2>3, <3>1
  <2>. QED  BY <2>2, <2>4
<1>3. CASE Len(f) <= Len(done)
  <2>1. Len(done) \in Nat /\ Len(f) \in Nat
    OBVIOUS
  <2>. QED  BY <1>1, <1>3, <2>1
<1>4. Len(f) > Len(done) \/ Len(f) <= Len(done)
  <2>1. Len(done) \in Nat /\ Len(f) \in Nat
    OBVIOUS
  <2>. QED  BY <2>1
<1>. QED  BY <1>2, <1>3, <1>4

\* Appending what a stage computed keeps the file a file of stages in order,
\* and the run that goes on with it in step, or ahead of a line it lost.
LEMMA AppendFits ==
    ASSUME NEW f \in Seq(Line), NEW done \in Seq(Result), Len(done) + 1 \in Stage,
           FileInv(f), ~Unreadable(f), Fits(f, done), Found(f, Len(done) + 1) = {},
           NEW line \in Line,
           line.stage # 0 => /\ line.stage = Len(done) + 1
                             /\ done # <<>> => line.result.basis = done[Len(done)].run
    PROVE  /\ FileInv(AppendTo(f, line))
           /\ line.stage # 0 /\ line.ended => Fits(AppendTo(f, line), Append(done, line.result))
<1>. DEFINE new  == AppendTo(f, line)
            more == Append(done, line.result)
<1>0. Len(done) \in Nat /\ Len(f) \in Nat
  OBVIOUS
<1>00. DOMAIN done = 1..Len(done) /\ DOMAIN f = 1..Len(f)
  OBVIOUS
<1>1. new \in Seq(Line)
  BY AppendToProperties
<1>2. DOMAIN new = 1..Len(new) /\ Len(new) \in Nat
  BY <1>1
<1>3. Len(more) = Len(done) + 1 /\ (\A i \in 1..Len(done) : more[i] = done[i])
      /\ (line.stage # 0 => more[Len(done) + 1] = line.result) /\ DOMAIN more = 1..(Len(done) + 1)
  OBVIOUS
<1>4. CASE Ahead(f, done)
  <2>1. Unreadable(new)
    BY <1>4, AppendToUnreadable DEF Ahead
  <2>. QED  BY <2>1 DEF FileInv, Fits
<1>5. CASE InStep(f, done) /\ ~Joins(f) /\ Len(f) = Len(done)
  <2>1. /\ Len(new) = Len(f) + 1
        /\ \A i \in 1..Len(f) : new[i] = f[i]
        /\ new[Len(f) + 1] = line
    BY <1>5, AppendToProperties
  <2>. HIDE DEF new, more
  <2>2. ASSUME NEW i \in DOMAIN new PROVE new[i].stage \in {0, i}
    <3>1. i \in 1..Len(f) \/ i = Len(f) + 1
      BY <1>0, <1>2, <2>1, <2>2
    <3>. QED  BY <1>5, <1>00, <2>1, <3>1 DEF FileInv
  <2>3. ASSUME NEW i \in 2..Len(new), new[i].stage # 0
        PROVE  new[i].result.basis = new[i - 1].result.run
    <3>1. CASE i = Len(f) + 1
      <4>1. i - 1 = Len(done) /\ i - 1 \in 1..Len(f) /\ Len(done) \in 1..Len(done) /\ done # <<>>
        BY <1>0, <1>5, <2>1, <2>3, <3>1
      <4>2. done[Len(done)] = f[Len(done)].result
        BY <1>00, <1>5, <4>1 DEF InStep
      <4>. QED  BY <2>1, <2>3, <3>1, <4>1, <4>2
    <3>2. CASE i # Len(f) + 1
      <4>1. i \in 2..Len(f) /\ i \in 1..Len(f) /\ i - 1 \in 1..Len(f)
        BY <1>0, <2>1, <2>3, <3>2
      <4>. QED  BY <2>1, <2>3, <4>1 DEF FileInv
    <3>. QED  BY <3>1, <3>2
  <2>4. FileInv(new)
    BY <2>2, <2>3 DEF FileInv
  <2>5. ASSUME line.stage # 0, NEW i \in 1..(Len(done) + 1)
        PROVE  i \in DOMAIN new /\ new[i].stage = i /\ more[i] = new[i].result
    <3>1. (i \in 1..Len(done) /\ i \in 1..Len(f)) \/ i = Len(done) + 1
      BY <1>0, <1>5, <2>5
    <3>2. i \in DOMAIN new
      BY <1>0, <1>2, <1>5, <2>1, <2>5
    <3>3. CASE i \in 1..Len(done) /\ i \in 1..Len(f)
      BY <1>00, <1>3, <1>5, <2>1, <3>2, <3>3 DEF InStep
    <3>4. CASE i = Len(done) + 1
      BY <1>3, <1>5, <2>1, <2>5, <3>2, <3>4
    <3>. QED  BY <3>1, <3>3, <3>4
  <2>6. line.stage # 0 => InStep(new, more)
    BY <1>3, <2>5 DEF InStep
  <2>. QED  BY <2>4, <2>6 DEF Fits, new, more
<1>6. CASE InStep(f, done) /\ Joins(f)
  <2>1. /\ Len(new) = Len(f) /\ Len(f) >= 1
        /\ \A i \in 1..(Len(f) - 1) : new[i] = f[i]
        /\ new[Len(f)] = Broken(line.ended)
    BY <1>6, AppendToProperties
  <2>2. Len(f) = Len(done) \/ Len(f) = Len(done) + 1
    BY <1>6, WhereTheFileEnds
  <2>. HIDE DEF new, more
  <2>3. new[Len(f)].stage = 0
    BY <2>1 DEF Broken
  <2>4. ASSUME NEW i \in DOMAIN new PROVE new[i].stage \in {0, i}
    <3>1. (i \in 1..(Len(f) - 1) /\ i \in 1..Len(f)) \/ i = Len(f)
      BY <1>0, <1>2, <2>1, <2>4
    <3>. QED  BY <1>00, <2>1, <2>3, <3>1 DEF FileInv
  <2>5. ASSUME NEW i \in 2..Len(new), new[i].stage # 0
        PROVE  new[i].result.basis = new[i - 1].result.run
    <3>1. i # Len(f)
      BY <2>3, <2>5
    <3>2. i \in 2..Len(f) /\ i \in 1..(Len(f) - 1) /\ i - 1 \in 1..(Len(f) - 1)
      BY <1>0, <2>1, <2>5, <3>1
    <3>. QED  BY <2>1, <2>5, <3>2 DEF FileInv
  <2>6. FileInv(new)
    BY <2>4, <2>5 DEF FileInv
  <2>7. ASSUME line.stage # 0, line.ended PROVE Ahead(new, more)
    <3>1. line.ended = TRUE
      BY <2>7, LineKinds
    <3>2. Len(new) <= Len(more)
      BY <1>0, <1>3, <2>1, <2>2
    <3>3. new # <<>> /\ new[Len(new)] = Broken(TRUE)
      <4>1. Len(new) # 0
        BY <1>0, <2>1
      <4>2. new # <<>>
        BY <4>1
      <4>3. new[Len(new)] = Broken(TRUE)
        BY <2>1, <3>1
      <4>. QED  BY <4>2, <4>3
    <3>4. ASSUME NEW i \in 1..(Len(new) - 1) PROVE more[i] = new[i].result
      <4>1. i \in 1..Len(done) /\ i \in 1..(Len(f) - 1)
        BY <1>0, <2>1, <2>2, <3>4
      <4>. QED  BY <1>00, <1>3, <1>6, <2>1, <4>1 DEF InStep
    <3>. QED  BY <3>2, <3>3, <3>4 DEF Ahead
  <2>. QED  BY <2>6, <2>7 DEF Fits, new, more
<1>7. CASE InStep(f, done) /\ ~Joins(f) /\ Len(f) # Len(done)
  <2>1. Len(f) = Len(done) + 1 /\ f[Len(f)].stage = 0
    BY <1>7, WhereTheFileEnds
  <2>2. f # <<>> /\ Len(f) \in DOMAIN f
    BY <1>0, <1>00, <2>1
  <2>3. f[Len(f)].ended /\ f[Len(f)] \in Line
    BY <1>7, <2>2 DEF Joins, Last
  <2>4. f[Len(f)] = Broken(TRUE)
    <3>1. f[Len(f)] = Broken(f[Len(f)].ended) /\ f[Len(f)].ended = TRUE
      BY <2>1, <2>3, LineKinds
    <3>. QED  BY <3>1
  <2>5. Unreadable(new)
    BY <2>2, <2>4, AppendToUnreadable
  <2>. QED  BY <2>5 DEF FileInv, Fits
<1>. QED  BY <1>4, <1>5, <1>6, <1>7 DEF Fits

-----------------------------------------------------------------------------
(* Tickets: what a file keeps of a map handed over, and what a run that may *)
(* hand it over again holds.                                               *)

\* The file still has the tickets of `done` as its sixth line, or never loads
\* a sixth again.
Kept(f, done) ==
    \/ Len(f) >= Stages /\ f[Size].stage = Size /\ f[Size].result = done[Size]
    \/ Unreadable(f)
    \/ f # <<>> /\ f[Len(f)] = Broken(TRUE) /\ Len(f) <= Size

LEMMA AppendKeeps ==
    ASSUME NEW f \in Seq(Line), NEW line \in Line, NEW done, Kept(f, done)
    PROVE  Kept(AppendTo(f, line), done)
<1>. DEFINE new == AppendTo(f, line)
<1>1. CASE Len(f) >= Stages /\ f[Size].stage = Size /\ f[Size].result = done[Size]
  <2>1. Len(f) \in Nat /\ Size \in 1..(Len(f) - 1) /\ Size \in 1..Len(f)
    BY <1>1 DEF Stages, Size
  <2>2. new[Size] = f[Size]
    BY <2>1, AppendToProperties
  <2>3. Len(new) = Len(f) \/ Len(new) = Len(f) + 1
    BY AppendToProperties
  <2>4. Len(new) >= Stages
    BY <1>1, <2>1, <2>3 DEF Stages
  <2>. QED  BY <1>1, <2>2, <2>4 DEF Kept
<1>2. CASE Unreadable(f) \/ (f # <<>> /\ f[Len(f)] = Broken(TRUE))
  BY <1>2, AppendToUnreadable DEF Kept
<1>. QED  BY <1>1, <1>2 DEF Kept

\* A file with a map's tickets kept, that loads, has the sixth stage of it or
\* none, and takes none.
LEMMA KeptIsFound ==
    ASSUME NEW f \in Seq(Line), NEW done, Kept(f, done), FileInv(f), ~Unreadable(f)
    PROVE  /\ Found(f, Size) # {} => Newest(f, Size) = done[Size]
           /\ Found(f, Size) = {} => \A line \in Line : Unreadable(AppendTo(f, line))
<1>0. Size \in Stage /\ Size = 6 /\ Stages = 7
  BY DEF Size, Stage, Stages
<1>1. CASE Len(f) >= Stages /\ f[Size].stage = Size /\ f[Size].result = done[Size]
  <2>1. Size \in DOMAIN f
    BY <1>0, <1>1
  <2>2. Found(f, Size) # {}
    BY <1>1, <2>1 DEF Found
  <2>3. Newest(f, Size) = f[Size].result
    BY <1>0, <2>2, FoundAtItsPlace
  <2>. QED  BY <1>1, <2>2, <2>3
<1>2. CASE f # <<>> /\ f[Len(f)] = Broken(TRUE) /\ Len(f) <= Size
  <2>1. ASSUME Found(f, Size) # {} PROVE FALSE
    <3>1. Size \in DOMAIN f /\ f[Size].stage = Size
      BY <1>0, <2>1, FoundAtItsPlace
    <3>2. Len(f) = Size
      <4>1. Len(f) \in Nat /\ Size <= Len(f)
        BY <1>0, <3>1
      <4>2. Len(f) <= Size
        BY <1>2
      <4>3. \A n \in Nat : Size <= n /\ n <= Size => n = Size
        BY DEF Size
      <4>. QED  BY <4>1, <4>2, <4>3
    <3>3. f[Len(f)].stage = 0
      BY <1>2 DEF Broken
    <3>. QED  BY <1>0, <3>1, <3>2, <3>3
  <2>. QED  BY <1>2, <2>1, AppendToUnreadable
<1>. QED  BY <1>1, <1>2 DEF Kept

\* What a run hands over is kept in its file.
LEMMA DeliveredIsKept ==
    ASSUME NEW f \in Seq(Line), NEW done \in Seq(Result), Len(done) = Stages,
           FileInv(f), Fits(f, done)
    PROVE  Kept(f, done)
<1>0. Size = 6 /\ Stages = 7 /\ Len(f) \in Nat
  BY DEF Size, Stages
<1>1. CASE InStep(f, done)
  <2>1. Size \in DOMAIN done /\ Stages \in DOMAIN done
    BY <1>0
  <2>2. f[Size].stage = Size /\ done[Size] = f[Size].result /\ Stages \in DOMAIN f
    BY <1>1, <2>1 DEF InStep
  <2>3. Len(f) >= Stages
    BY <1>0, <2>2
  <2>. QED  BY <2>2, <2>3 DEF Kept
<1>2. CASE Ahead(f, done) /\ ~Unreadable(f)
  <2>1. Len(f) <= Size \/ Len(f) = Stages
    BY <1>0, <1>2 DEF Ahead
  <2>2. CASE Len(f) = Stages
    <3>1. Size \in 1..(Len(f) - 1) /\ Size \in DOMAIN f
      BY <1>0, <2>2
    <3>2. f[Size].stage = Size
      BY <1>0, <1>2, <3>1 DEF FileInv, Unreadable
    <3>3. done[Size] = f[Size].result
      BY <1>2, <3>1 DEF Ahead
    <3>4. Len(f) >= Stages
      BY <1>0, <2>2
    <3>. QED  BY <3>2, <3>3, <3>4 DEF Kept
  <2>. QED  BY <1>2, <2>1, <2>2 DEF Kept, Ahead
<1>. QED  BY <1>1, <1>2 DEF Fits, Kept

\* A run that has drawn up or replayed a map's tickets has the ones handed
\* over, unless its file cannot be read and the run gets no further.
SameTickets(done, f, handed) ==
    Len(done) = Stages \/ (Len(done) = Size /\ ~Unreadable(f)) => done[Size] = handed[Size]

RunInv(r) ==
    runs[r] # NoRun =>
        /\ FollowsOn(runs[r].done) /\ Fits(File(r), runs[r].done)
        /\ runs[r].state = "computing" => ~Unreadable(File(r)) /\ Found(File(r), NextStage(r)) = {}
        /\ \A d \in delivered[runs[r].map] : SameTickets(runs[r].done, File(r), d)

MapInv(m) ==
    /\ FileInv(lines[m])
    /\ \A d \in delivered[m] : FollowsOn(d) /\ Kept(lines[m], d)
    /\ \A a, b \in delivered[m] : a[Size] = b[Size]

ChartInv == (\A m \in Map : MapInv(m)) /\ (\A r \in Runner : RunInv(r))

OneAtATime == \A r, q \in Runner : r = q

\* A step that hands nothing over and appends at most one line to a file
\* disturbs no more of a map than that its file stays in order.
LEMMA MapKeeps ==
    ASSUME TypeOK, ChartInv, NEW m \in Map, NEW line \in Line, delivered' = delivered,
           lines' = [lines EXCEPT ![m] = AppendTo(lines[m], line)],
           FileInv(AppendTo(lines[m], line))
    PROVE  \A n \in Map : MapInv(n)'
<1>1. lines[m] \in Seq(Line) /\ AppendTo(lines[m], line) \in Seq(Line)
  BY AppendToProperties DEF TypeOK
<1>2. lines'[m] = AppendTo(lines[m], line) /\ \A n \in Map \ {m} : lines'[n] = lines[n]
  BY <1>1, LinesMove
<1>3. ASSUME NEW n \in Map PROVE MapInv(n)'
  <2>1. MapInv(n)
    BY DEF ChartInv
  <2>2. FileInv(lines'[n])
    BY <1>2, <2>1 DEF MapInv
  <2>3. \A d \in delivered[n] : Kept(lines'[n], d)
    BY <1>1, <1>2, <2>1, AppendKeeps DEF MapInv
  <2>. QED  BY <2>1, <2>2, <2>3 DEF MapInv
<1>. QED  BY <1>3

\* Saving a stage: the file stays in order, and the run fits it.
LEMMA SaveKeeps ==
    ASSUME TypeInv, ChartInv, OneAtATime, NEW r \in Runner, Save(r)
    PROVE  ChartInv'
<1>. DEFINE m    == runs[r].map
            f    == File(r)
            done == runs[r].done
<1>1. PICK res \in Computed(r) :
         /\ Record(NextStage(r), res, TRUE) \in Line
         /\ lines' = [lines EXCEPT ![m] = AppendTo(f, Record(NextStage(r), res, TRUE))]
         /\ Moved(r, "loading", Append(done, res))
  BY SaveMoves
<1>2. runs[r] # NoRun /\ Len(done) < Stages /\ TypeOK
  BY SaveMoves DEF TypeInv
<1>3. /\ m \in Map /\ f \in Seq(Line) /\ f = lines[m] /\ done \in Seq(Result)
      /\ NextStage(r) \in Stage /\ NextStage(r) = Len(done) + 1
  BY <1>2, RunProperties, NextStageProperties DEF File
<1>4. res \in Result /\ (done # <<>> => res.basis = done[Len(done)].run)
  BY <1>2, ComputedTypes DEF Basis, Last
<1>5. /\ FollowsOn(done) /\ Fits(f, done) /\ ~Unreadable(f) /\ Found(f, NextStage(r)) = {}
      /\ \A d \in delivered[m] : SameTickets(done, f, d)
  BY <1>2 DEF ChartInv, RunInv, Save
<1>6. FileInv(f) /\ \A d \in delivered[m] : Kept(f, d)
  BY <1>3 DEF ChartInv, MapInv
<1>. DEFINE line == Record(NextStage(r), res, TRUE)
            new  == AppendTo(f, line)
            more == Append(done, res)
<1>7. line.stage = NextStage(r) /\ line.result = res /\ line.ended /\ line.stage # 0
  BY <1>3 DEF Record, Stage
<1>8. FileInv(new) /\ Fits(new, more)
  <2>1. line \in Line
    BY <1>1
  <2>. HIDE DEF line, f, done, m
  <2>2. /\ FileInv(AppendTo(f, line))
        /\ line.stage # 0 /\ line.ended => Fits(AppendTo(f, line), Append(done, line.result))
    BY <1>3, <1>4, <1>5, <1>6, <1>7, <2>1, AppendFits
  <2>. QED  BY <1>7, <2>2
<1>9. FollowsOn(more)
  BY <1>3, <1>4, <1>5, OneMoreFollows
<1>10. ASSUME NEW d \in delivered[m] PROVE SameTickets(more, new, d)
  <2>0. Size = 6 /\ Stages = 7 /\ Len(done) \in Nat
    BY <1>3 DEF Size, Stages
  <2>1. Len(more) = Len(done) + 1
    BY <1>3, <1>4
  <2>2. CASE Len(more) = Stages
    <3>1. Len(done) = Size
      <4>1. \A n \in Nat : n + 1 = Stages => n = Size
        BY DEF Size, Stages
      <4>. QED  BY <2>0, <2>1, <2>2, <4>1
    <3>2. done[Size] = d[Size]
      BY <1>5, <3>1 DEF SameTickets
    <3>3. more[Size] = done[Size]
      BY <1>3, <1>4, <2>0, <3>1
    <3>. QED  BY <3>2, <3>3 DEF SameTickets
  <2>3. CASE Len(more) = Size
    <3>1. NextStage(r) = Size
      BY <1>3, <2>1, <2>3
    <3>2. Kept(f, d) /\ Found(f, Size) = {}
      BY <1>5, <1>6, <3>1
    <3>3. \A l \in Line : Unreadable(AppendTo(f, l))
      BY <1>3, <1>5, <1>6, <3>2, KeptIsFound
    <3>4. Unreadable(new)
      BY <1>1, <3>3
    <3>5. Len(more) # Stages
      BY <2>3 DEF Size, Stages
    <3>. QED  BY <3>4, <3>5 DEF SameTickets
  <2>. QED  BY <2>2, <2>3 DEF SameTickets
<1>11. lines'[m] = new /\ delivered' = delivered
  BY <1>1, <1>2, <1>3, LinesMove, AppendToProperties DEF Save
<1>12. \A n \in Map : MapInv(n)'
  BY <1>1, <1>2, <1>3, <1>8, <1>11, MapKeeps
<1>13. RunInv(r)'
  <2>1. runs'[r].done = more /\ runs'[r].state = "loading" /\ runs'[r].map = m
    BY <1>1 DEF Moved
  <2>2. File(r)' = new
    BY <1>11, <2>1 DEF File
  <2>. HIDE DEF m, new, more
  <2>. QED  BY <1>8, <1>9, <1>10, <1>11, <2>1, <2>2 DEF RunInv
<1>. QED  BY <1>12, <1>13 DEF ChartInv, OneAtATime

\* An append that is cut short ends the run, and leaves the file in order.
LEMMA CutKeeps ==
    ASSUME TypeInv, ChartInv, OneAtATime, NEW r \in Runner, SaveCut(r)
    PROVE  ChartInv'
<1>. DEFINE m    == runs[r].map
            f    == File(r)
            done == runs[r].done
<1>1. /\ runs[r] # NoRun /\ m \in Map /\ f \in Seq(Line) /\ EndRun(r) /\ f = lines[m]
      /\ TypeOK /\ Len(done) < Stages /\ delivered' = delivered
  <2>1. runs[r].state = "computing"
    BY DEF SaveCut
  <2>. QED  BY <2>1, CutMoves DEF File, SaveCut, TypeInv, RoomInv
<1>2. PICK res \in Computed(r), cut \in Cuts :
          lines' = [lines EXCEPT ![m] =
                      CASE cut = "nothing"    -> @
                        [] cut = "fragment"   -> AppendTo(@, Broken(FALSE))
                        [] cut = "no newline" -> AppendTo(@, Record(NextStage(r), res, FALSE))
                        [] cut = "everything" -> AppendTo(@, Record(NextStage(r), res, TRUE))]
  BY DEF SaveCut
<1>3. /\ done \in Seq(Result) /\ NextStage(r) \in Stage /\ NextStage(r) = Len(done) + 1
  BY <1>1, RunProperties, NextStageProperties
<1>4. res \in Result /\ (done # <<>> => res.basis = done[Len(done)].run)
  BY <1>1, ComputedTypes DEF Basis, Last
<1>5. Fits(f, done) /\ ~Unreadable(f) /\ Found(f, NextStage(r)) = {} /\ FileInv(f)
  BY <1>1 DEF ChartInv, RunInv, MapInv, SaveCut
<1>. DEFINE Appended(line) == /\ line \in Line
                              /\ line.stage # 0 => line.stage = NextStage(r) /\ line.result = res
<1>6. /\ Appended(Broken(FALSE)) /\ Appended(Record(NextStage(r), res, FALSE))
      /\ Appended(Record(NextStage(r), res, TRUE))
  <2>1. Appended(Broken(FALSE))
    BY LineTypes
  <2>2. ASSUME NEW ended \in BOOLEAN PROVE Appended(Record(NextStage(r), res, ended))
    <3>1. /\ Record(NextStage(r), res, ended) \in Line
          /\ Record(NextStage(r), res, ended).stage = NextStage(r)
          /\ Record(NextStage(r), res, ended).result = res
      BY <1>3, <1>4, LineTypes
    <3>. QED  BY <3>1
  <2>. QED  BY <2>1, <2>2
<1>7. \/ lines' = lines
      \/ \E line \in Line : Appended(line) /\ lines' = [lines EXCEPT ![m] = AppendTo(f, line)]
  <2>1. cut \in {"nothing", "fragment", "no newline", "everything"}
    BY ChartingAssumption
  <2>2. CASE cut = "nothing"
    <3>1. lines' = [lines EXCEPT ![m] = lines[m]]
      BY <1>2, <2>2
    <3>2. lines \in [Map -> Seq(Line)]
      BY <1>1 DEF TypeOK
    <3>. QED  BY <1>1, <3>1, <3>2
  <2>3. CASE cut = "fragment"
    <3>1. lines' = [lines EXCEPT ![m] = AppendTo(f, Broken(FALSE))]
      BY <1>1, <1>2, <2>3
    <3>. QED  BY <1>6, <3>1
  <2>4. CASE cut = "no newline"
    <3>1. lines' = [lines EXCEPT ![m] = AppendTo(f, Record(NextStage(r), res, FALSE))]
      BY <1>1, <1>2, <2>4
    <3>. QED  BY <1>6, <3>1
  <2>5. CASE cut = "everything"
    <3>1. lines' = [lines EXCEPT ![m] = AppendTo(f, Record(NextStage(r), res, TRUE))]
      BY <1>1, <1>2, <2>5
    <3>. QED  BY <1>6, <3>1
  <2>. QED  BY <2>1, <2>2, <2>3, <2>4, <2>5
<1>8. CASE lines' = lines
  <2>1. \A n \in Map : MapInv(n)'
    BY <1>1, <1>8 DEF ChartInv, MapInv
  <2>2. runs'[r] = NoRun
    BY <1>1, EndMoves
  <2>. QED  BY <2>1, <2>2 DEF ChartInv, RunInv, OneAtATime
<1>9. ASSUME NEW line \in Line, Appended(line), lines' = [lines EXCEPT ![m] = AppendTo(f, line)]
      PROVE  ChartInv'
  <2>1. line.stage # 0 => /\ line.stage = Len(done) + 1
                          /\ done # <<>> => line.result.basis = done[Len(done)].run
    BY <1>3, <1>4, <1>9
  <2>2. FileInv(AppendTo(f, line))
    <3>. HIDE DEF f, done
    <3>. QED  BY <1>1, <1>3, <1>5, <2>1, AppendFits
  <2>3. \A n \in Map : MapInv(n)'
    BY <1>1, <1>9, <2>2, MapKeeps
  <2>4. runs'[r] = NoRun
    BY <1>1, EndMoves
  <2>. QED  BY <2>3, <2>4 DEF ChartInv, RunInv, OneAtATime
<1>. QED  BY <1>7, <1>8, <1>9

\* A replayed stage is the one the file holds at its place.
LEMMA ReplayKeeps ==
    ASSUME TypeInv, ChartInv, OneAtATime, NEW r \in Runner, Replay(r)
    PROVE  ChartInv'
<1>. DEFINE m    == runs[r].map
            f    == File(r)
            done == runs[r].done
            res  == Newest(f, NextStage(r))
            more == Append(done, res)
<1>1. /\ runs[r] # NoRun /\ Len(done) < Stages /\ TypeOK /\ res \in Result
      /\ Moved(r, "loading", more)
  BY ReplayMoves DEF TypeInv
<1>2. /\ m \in Map /\ f \in Seq(Line) /\ f = lines[m] /\ done \in Seq(Result)
      /\ NextStage(r) \in Stage /\ NextStage(r) = Len(done) + 1
  BY <1>1, RunProperties, NextStageProperties DEF File
<1>3. /\ FollowsOn(done) /\ Fits(f, done) /\ ~Unreadable(f) /\ Found(f, NextStage(r)) # {}
      /\ \A d \in delivered[m] : SameTickets(done, f, d)
  BY <1>1 DEF ChartInv, RunInv, Replay
<1>4. FileInv(f) /\ \A d \in delivered[m] : Kept(f, d)
  BY <1>2 DEF ChartInv, MapInv
<1>5. lines' = lines /\ delivered' = delivered
  BY DEF Replay
<1>6. FollowsOn(more) /\ Fits(f, more)
  <2>. HIDE DEF f, done
  <2>1. FollowsOn(Append(done, Newest(f, Len(done) + 1))) /\ Fits(f, Append(done, Newest(f, Len(done) + 1)))
    BY <1>2, <1>3, <1>4, ReplayFits
  <2>. QED  BY <1>2, <2>1
<1>7. ASSUME NEW d \in delivered[m] PROVE SameTickets(more, f, d)
  <2>0. Size = 6 /\ Stages = 7 /\ Len(done) \in Nat
    BY <1>2 DEF Size, Stages
  <2>1. Len(more) = Len(done) + 1
    BY <1>1, <1>2
  <2>2. CASE Len(more) = Stages
    <3>1. Len(done) = Size
      <4>1. \A n \in Nat : n + 1 = Stages => n = Size
        BY DEF Size, Stages
      <4>. QED  BY <2>0, <2>1, <2>2, <4>1
    <3>2. done[Size] = d[Size]
      BY <1>3, <1>7, <3>1 DEF SameTickets
    <3>3. more[Size] = done[Size]
      BY <1>1, <1>2, <2>0, <3>1
    <3>. QED  BY <3>2, <3>3 DEF SameTickets
  <2>3. CASE Len(more) = Size
    <3>1. NextStage(r) = Size
      BY <1>2, <2>1, <2>3
    <3>2. Kept(f, d) /\ Found(f, Size) # {}
      BY <1>3, <1>4, <1>7, <3>1
    <3>3. Newest(f, Size) = d[Size]
      BY <1>2, <1>3, <1>4, <3>2, KeptIsFound
    <3>4. more[Size] = res
      BY <1>1, <1>2, <2>0, <2>1, <2>3
    <3>. QED  BY <3>1, <3>3, <3>4 DEF SameTickets
  <2>. QED  BY <2>2, <2>3 DEF SameTickets
<1>8. \A n \in Map : MapInv(n)'
  BY <1>5 DEF ChartInv, MapInv
<1>9. RunInv(r)'
  <2>1. runs'[r].done = more /\ runs'[r].state = "loading" /\ runs'[r].map = m
    BY <1>1 DEF Moved
  <2>2. File(r)' = f
    BY <1>2, <1>5, <2>1 DEF File
  <2>. HIDE DEF m, f, more
  <2>. QED  BY <1>5, <1>6, <1>7, <2>1, <2>2 DEF RunInv
<1>. QED  BY <1>8, <1>9 DEF ChartInv, OneAtATime

LEMMA ChartStep ==
    ASSUME TypeInv, ChartInv, OneAtATime, [Next]_vars
    PROVE  ChartInv'
<1>1. ASSUME NEW r \in Runner, NEW m \in Map, NEW fresh \in BOOLEAN, Start(r, m, fresh)
      PROVE  ChartInv'
  <2>1. lines' = lines /\ delivered' = delivered
    BY <1>1 DEF Start
  <2>2. \A n \in Map : MapInv(n)'
    BY <2>1 DEF ChartInv, MapInv
  <2>3. runs'[r].state = "loading" /\ runs'[r].done = <<>>
    BY <1>1, StartMoves DEF TypeInv
  <2>4. /\ FollowsOn(<<>>) /\ Fits(File(r)', <<>>)
        /\ \A d : SameTickets(<<>>, File(r)', d)
    BY DEF FollowsOn, Fits, InStep, SameTickets, Size, Stages
  <2>5. RunInv(r)'
    BY <2>3, <2>4 DEF RunInv
  <2>. QED  BY <2>2, <2>5 DEF ChartInv, OneAtATime
<1>2. ASSUME NEW r \in Runner, Chart(r) PROVE ChartInv'
  <2>1. begun \in 0..MaxMaps /\ begun < MaxMaps
    BY <1>2 DEF Chart, TypeInv, TypeOK
  <2>2. MaxMaps \in Nat
    BY ChartingAssumption
  <2>3. begun + 1 \in Map
    BY <2>1, <2>2 DEF Map
  <2>. QED  BY <1>1, <1>2, <2>3 DEF Chart
<1>3. ASSUME NEW r \in Runner, Resume(r) PROVE ChartInv'
  <2>0. MaxMaps \in Nat
    BY ChartingAssumption
  <2>1. dirs \in SUBSET (0..MaxMaps) /\ dirs # {} /\ dirs \subseteq Map
    BY <1>3, <2>0 DEF TypeInv, TypeOK, Map, Resume
  <2>2. Max(dirs) \in dirs
    BY <2>0, <2>1, MaxProperties
  <2>. QED  BY <1>1, <1>3, <2>1, <2>2 DEF Resume
<1>4. ASSUME NEW r \in Runner, Compute(r) PROVE ChartInv'
  <2>1. /\ runs[r] # NoRun /\ Moved(r, "computing", runs[r].done)
        /\ lines' = lines /\ delivered' = delivered
    BY <1>4, ComputeMoves DEF TypeInv, Compute
  <2>2. \A n \in Map : MapInv(n)'
    BY <2>1 DEF ChartInv, MapInv
  <2>3. File(r)' = File(r) /\ NextStage(r)' = NextStage(r)
    BY <2>1 DEF Moved, File, NextStage
  <2>4. ~Unreadable(File(r)) /\ Found(File(r), NextStage(r)) = {} /\ RunInv(r)
    BY <1>4 DEF ChartInv, Compute
  <2>5. RunInv(r)'
    BY <2>1, <2>3, <2>4 DEF RunInv, Moved
  <2>. QED  BY <2>2, <2>5 DEF ChartInv, OneAtATime
<1>5. ASSUME NEW r \in Runner, Stop(r) PROVE ChartInv'
  <2>1. runs'[r] = NoRun /\ lines' = lines /\ delivered' = delivered
    BY <1>5, EndMoves DEF Stop, TypeInv
  <2>. QED  BY <2>1 DEF ChartInv, RunInv, MapInv, OneAtATime
<1>6. ASSUME NEW r \in Runner, Deliver(r) PROVE ChartInv'
  <2>1. runs'[r] = NoRun /\ lines' = lines
    BY <1>6, EndMoves DEF Deliver, TypeInv
  <2>2. runs[r] # NoRun /\ Len(runs[r].done) = Stages /\ TypeOK
    BY <1>6 DEF Deliver, NoRun, TypeInv
  <2>3. runs[r].map \in Map /\ runs[r].done \in Seq(Result) /\ File(r) \in Seq(Line)
    BY <2>2, RunProperties
  <2>4. /\ FollowsOn(runs[r].done) /\ Fits(File(r), runs[r].done)
        /\ \A d \in delivered[runs[r].map] : runs[r].done[Size] = d[Size]
    BY <2>2 DEF ChartInv, RunInv, SameTickets
  <2>5. MapInv(runs[r].map) /\ File(r) = lines[runs[r].map]
    BY <2>3 DEF ChartInv, File
  <2>6. Kept(File(r), runs[r].done)
    BY <2>2, <2>3, <2>4, <2>5, DeliveredIsKept DEF MapInv
  <2>7. /\ delivered'[runs[r].map] = delivered[runs[r].map] \cup {runs[r].done}
        /\ \A n \in Map \ {runs[r].map} : delivered'[n] = delivered[n]
    BY <1>6, <2>2, <2>3 DEF Deliver, TypeOK
  <2>8. ASSUME NEW m, m = runs[r].map PROVE MapInv(m)'
    <3>1. FileInv(lines'[m])
      BY <2>1, <2>5, <2>8 DEF MapInv
    <3>2. \A d \in delivered'[m] : FollowsOn(d) /\ Kept(lines'[m], d)
      BY <2>1, <2>4, <2>5, <2>6, <2>7, <2>8 DEF MapInv
    <3>3. \A a, b \in delivered'[m] : a[Size] = b[Size]
      BY <2>4, <2>5, <2>7, <2>8 DEF MapInv
    <3>. QED  BY <3>1, <3>2, <3>3 DEF MapInv
  <2>9. ASSUME NEW n \in Map, n # runs[r].map PROVE MapInv(n)'
    BY <2>1, <2>7, <2>9 DEF ChartInv, MapInv
  <2>10. \A n \in Map : MapInv(n)'
    BY <2>8, <2>9
  <2>. QED  BY <2>1, <2>10 DEF ChartInv, RunInv, OneAtATime
<1>7. CASE UNCHANGED vars
  BY <1>7 DEF vars, ChartInv, RunInv, MapInv, File, NextStage
<1>. QED
  BY <1>2, <1>3, <1>4, <1>5, <1>6, <1>7, ReplayKeeps, SaveKeeps, CutKeeps DEF Next, RunnerStep

LEMMA ChartInvariant ==
    ASSUME OneAtATime
    PROVE  Spec => [](TypeInv /\ ChartInv)
<1>1. Init => ChartInv
  BY DEF Init, ChartInv, RunInv, MapInv, FileInv
<1>2. TypeInv /\ ChartInv /\ [Next]_vars => ChartInv'
  BY ChartStep
<1>. QED  BY <1>1, <1>2, TypesAtFirst, TypesStep, PTL DEF Spec

\* Where one process charts at a time, each stage that a run holds, and each
\* that it hands over, was computed from the result of the stage before it,
\* whichever runs computed the two and wherever they died (Coherent;
\* pipeline.rs, stage_or_checkpoint).
THEOREM StagesFollowOn ==
    ASSUME OneAtATime
    PROVE  Spec => []Coherent
<1>1. TypeInv /\ ChartInv => Coherent
  <2>. SUFFICES ASSUME TypeInv, ChartInv PROVE Coherent
    OBVIOUS
  <2>1. \A m \in Map : \A d \in delivered[m] : FollowsOn(d)
    BY DEF ChartInv, MapInv
  <2>2. FollowsOn(NoRun.done)
    BY DEF FollowsOn, NoRun
  <2>3. \A r \in Runner : FollowsOn(runs[r].done)
    BY <2>2 DEF ChartInv, RunInv
  <2>. QED  BY <2>1, <2>3 DEF Coherent
<1>. QED  BY <1>1, ChartInvariant, PTL

\* "Checkpointing it right away is what makes resume produce the same map":
\* where one process charts at a time, whatever is handed over of a map has
\* the same tickets, however often the map is resumed (TicketsOnce).
THEOREM TicketsDrawnUpOnce ==
    ASSUME OneAtATime
    PROVE  Spec => []TicketsOnce
<1>1. TypeInv /\ ChartInv => TicketsOnce
  BY DEF ChartInv, MapInv, TicketsOnce
<1>. QED  BY <1>1, ChartInvariant, PTL
=============================================================================
