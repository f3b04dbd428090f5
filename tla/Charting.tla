------------------------------ MODULE Charting ------------------------------
(***************************************************************************)
(* `dark plan` and `dark plan resume`: the seven stages of the charting    *)
(* pipeline (crates/dark-plan/src/chart/pipeline.rs), each replayed from   *)
(* the map's checkpoint file or computed and appended to it                *)
(* (crates/dark-cli/src/plan.rs: FileCheckpoints), by processes that fail, *)
(* are killed and are started again at any moment.                         *)
(*                                                                         *)
(* What a stage produced is the run that computed it, the run whose result *)
(* of the stage before it read, and whether it came out empty.             *)
(***************************************************************************)
EXTENDS Naturals, Sequences, FiniteSets, FiniteSetsExt, SequencesExt

CONSTANTS
    Runner,     \* the processes that may chart at the same time
    Cuts,       \* what an append cut short may leave, of "nothing", "fragment",
                \* "no newline" and "everything"
    MaxRuns,    \* bound: runs started
    MaxMaps     \* bound: maps begun

ASSUME ChartingAssumption ==
    /\ Cuts \subseteq {"nothing", "fragment", "no newline", "everything"}
    /\ MaxRuns \in Nat /\ MaxMaps \in Nat

VARIABLES
    lines,         \* lines[m]: the lines of m's checkpoints.jsonl
    dirs,          \* the maps that have a directory
    runs,          \* runs[r]: what the process is doing
    started,       \* the runs started so far, which number them
    begun,         \* the maps begun so far, which number them as their ULIDs do
    acknowledged,  \* history variable: acknowledged[m], the stages `record` returned Ok for
    delivered      \* history variable: delivered[m], the outputs handed to write_map

vars == <<lines, dirs, runs, started, begun, acknowledged, delivered>>

\* Stage::ORDER.
Stages == 7
Stage  == 1..Stages
Destination == 1
Sharpen     == 5
Size        == 6

Map    == 1..MaxMaps
RunId  == 1..MaxRuns
Result == [run : RunId, basis : 0..MaxRuns, empty : BOOLEAN]

NoRun == [state |-> "idle", id |-> 0, map |-> 0, fresh |-> FALSE, done |-> <<>>]

\* A line that is no checkpoint, and a checkpoint; `ended` is its newline.
Broken(ended)          == [stage |-> 0, ended |-> ended]
Record(s, res, ended)  == [stage |-> s, result |-> res, ended |-> ended]

\* O_APPEND: what follows a line without its newline joins that line.
AppendTo(file, line) ==
    IF file # <<>> /\ ~Last(file).ended
    THEN Append(Front(file), Broken(line.ended))
    ELSE Append(file, line)

\* Mutant of Unreadable: a line that does not parse is passed over.
ReadableAlways(file) == FALSE

\* Mutant of Unreadable: the last line is not forgiven.
UnreadableToTheEnd(file) == \E i \in 1..Len(file) : file[i].stage = 0

\* FileCheckpoints::load fails on a line that is no checkpoint, and forgives
\* the last one.
Unreadable(file) == \E i \in 1..(Len(file) - 1) : file[i].stage = 0

\* The checkpoints of stage s, and load_checkpoint's choice of the newest.
Found(file, s)  == {i \in DOMAIN file : file[i].stage = s}
Newest(file, s) == file[Max(Found(file, s))].result

Init ==
    /\ lines = [m \in Map |-> <<>>] /\ dirs = {}
    /\ runs = [r \in Runner |-> NoRun] /\ started = 0 /\ begun = 0
    /\ acknowledged = [m \in Map |-> {}] /\ delivered = [m \in Map |-> {}]
-----------------------------------------------------------------------------
Start(r, m, fresh) ==
    /\ runs[r] = NoRun /\ started < MaxRuns
    /\ started' = started + 1
    /\ runs' = [runs EXCEPT ![r] = [state |-> "loading", id |-> started + 1, map |-> m,
                                    fresh |-> fresh, done |-> <<>>]]
    /\ UNCHANGED <<lines, dirs, acknowledged, delivered>>

\* `dark plan "<idea>"`.
Chart(r) == /\ begun < MaxMaps
            /\ begun' = begun + 1
            /\ Start(r, begun + 1, TRUE)

\* `dark plan resume`: latest_map_id, the last directory by name.
Resume(r) == /\ dirs # {}
             /\ Start(r, Max(dirs), FALSE)
             /\ UNCHANGED begun

File(r) == lines[runs[r].map]
NextStage(r) == Len(runs[r].done) + 1
Basis(r) == IF runs[r].done = <<>> THEN 0 ELSE Last(runs[r].done).run

\* No candidate is fog: the run ends and says that no map is needed.
FitsOneSession(r) == Len(runs[r].done) = Sharpen /\ Last(runs[r].done).empty

Loading(r) == /\ runs[r].state = "loading"
              /\ Len(runs[r].done) < Stages /\ ~FitsOneSession(r)

EndRun(r) == runs' = [runs EXCEPT ![r] = NoRun]

\* stage_or_checkpoint, when the stage has a checkpoint.
Replay(r) ==
    /\ Loading(r) /\ ~Unreadable(File(r)) /\ Found(File(r), NextStage(r)) # {}
    /\ runs' = [runs EXCEPT ![r].done = Append(@, Newest(File(r), NextStage(r)))]
    /\ UNCHANGED <<lines, dirs, started, begun, acknowledged, delivered>>

\* And when it has none.
Compute(r) ==
    /\ Loading(r) /\ ~Unreadable(File(r)) /\ Found(File(r), NextStage(r)) = {}
    /\ NextStage(r) = Destination => runs[r].fresh
    /\ runs' = [runs EXCEPT ![r].state = "computing"]
    /\ UNCHANGED <<lines, dirs, started, begun, acknowledged, delivered>>

\* What the stage may produce; only the outcomes of Sharpen and Size tell
\* empty from the rest: no fog, no ticket.
Computed(r) ==
    { [run |-> runs[r].id, basis |-> Basis(r), empty |-> e] :
        e \in IF NextStage(r) \in {Sharpen, Size} THEN BOOLEAN ELSE {FALSE} }

\* Mutant of Save: the tickets' identifiers are not checkpointed.
SaveNoTickets(r) ==
    /\ runs[r].state = "computing"
    /\ \E res \in Computed(r) :
          /\ IF NextStage(r) = Size THEN UNCHANGED lines
             ELSE lines' = [lines EXCEPT ![runs[r].map] = AppendTo(@, Record(NextStage(r), res, TRUE))]
          /\ runs' = [runs EXCEPT ![r].state = "loading", ![r].done = Append(@, res)]
    /\ dirs' = dirs \cup {runs[r].map}
    /\ acknowledged' = [acknowledged EXCEPT ![runs[r].map] = @ \cup {NextStage(r)}]
    /\ UNCHANGED <<started, begun, delivered>>

\* FileCheckpoints::record, to its end.
Save(r) ==
    /\ runs[r].state = "computing"
    /\ \E res \in Computed(r) :
          /\ lines' = [lines EXCEPT ![runs[r].map] = AppendTo(@, Record(NextStage(r), res, TRUE))]
          /\ runs' = [runs EXCEPT ![r].state = "loading", ![r].done = Append(@, res)]
    /\ dirs' = dirs \cup {runs[r].map}
    /\ acknowledged' = [acknowledged EXCEPT ![runs[r].map] = @ \cup {NextStage(r)}]
    /\ UNCHANGED <<started, begun, delivered>>

\* The process dies in `record`, or a write in it fails.
SaveCut(r) ==
    /\ runs[r].state = "computing"
    /\ dirs' = dirs \cup {runs[r].map}
    /\ \E res \in Computed(r), cut \in Cuts :
          lines' = [lines EXCEPT ![runs[r].map] =
                      CASE cut = "nothing"    -> @
                        [] cut = "fragment"   -> AppendTo(@, Broken(FALSE))
                        [] cut = "no newline" -> AppendTo(@, Record(NextStage(r), res, FALSE))
                        [] cut = "everything" -> AppendTo(@, Record(NextStage(r), res, TRUE))]
    /\ EndRun(r)
    /\ UNCHANGED <<started, begun, acknowledged, delivered>>

\* The engine fails, the file does not load, the destination cannot be
\* settled again, no map is needed, or someone kills the process.
Stop(r) ==
    /\ runs[r] # NoRun
    /\ EndRun(r)
    /\ UNCHANGED <<lines, dirs, started, begun, acknowledged, delivered>>

\* run's end: repair_wiring refuses a map without tickets, write_map gets
\* every other one.
Deliver(r) ==
    /\ runs[r].state = "loading" /\ Len(runs[r].done) = Stages
    /\ ~runs[r].done[Size].empty
    /\ delivered' = [delivered EXCEPT ![runs[r].map] = @ \cup {runs[r].done}]
    /\ EndRun(r)
    /\ UNCHANGED <<lines, dirs, started, begun, acknowledged>>

RunnerStep(r) == \/ Chart(r) \/ Resume(r)
                 \/ Replay(r) \/ Compute(r) \/ Save(r) \/ SaveCut(r)
                 \/ Stop(r) \/ Deliver(r)

Next == \E r \in Runner : RunnerStep(r)

Spec == Init /\ [][Next]_vars
-----------------------------------------------------------------------------
Line == [stage : {0}, ended : BOOLEAN]
          \cup [stage : Stage, result : Result, ended : BOOLEAN]

RunType == [state : {"loading", "computing"}, id : RunId, map : Map, fresh : BOOLEAN,
            done : Seq(Result)]

TypeOK ==
    /\ lines \in [Map -> Seq(Line)]
    /\ dirs \subseteq Map
    /\ runs \in [Runner -> RunType \cup {NoRun}]
    /\ \A r \in Runner : Len(runs[r].done) <= Stages
    /\ started \in 0..MaxRuns /\ begun \in 0..MaxMaps
    /\ acknowledged \in [Map -> SUBSET Stage]
    /\ DOMAIN delivered = Map
    /\ \A m \in Map : delivered[m] \subseteq [Stage -> Result]

Known(file) == {s \in Stage : Found(file, s) # {}}

\* A checkpoint file that loads holds the first stages of a run, with none
\* left out: a resume never replays a stage whose predecessor is lost.
LoadsPrefix ==
    \A m \in Map : ~Unreadable(lines[m]) => \E k \in 0..Stages : Known(lines[m]) = 1..k

\* Each stage's result was computed from the result of the stage before it
\* that the run holds, whichever runs computed the two: the wiring names the
\* tickets it is written with.
FollowsOn(done) == \A k \in 2..Len(done) : done[k].basis = done[k - 1].run
Coherent ==
    /\ \A r \in Runner : FollowsOn(runs[r].done)
    /\ \A m \in Map : \A done \in delivered[m] : FollowsOn(done)

\* "Checkpointing it right away is what makes resume produce the same map":
\* whatever runs finish a map, they hand over the same tickets.
TicketsOnce ==
    \A m \in Map : \A a, b \in delivered[m] : a[Size] = b[Size]

\* "A truncated final line loses that stage, never the ones before it": as
\* long as nothing was appended to a truncated line, every stage that was
\* acknowledged loads.
JoinedLine(file) == \E i \in DOMAIN file : file[i] = Broken(TRUE)
ProgressKept ==
    \A m \in Map : ~JoinedLine(lines[m]) =>
        /\ ~Unreadable(lines[m])
        /\ acknowledged[m] \subseteq Known(lines[m])

\* The same without the exception.
AlwaysResumable == \A m \in Map : ~Unreadable(lines[m])
=============================================================================
