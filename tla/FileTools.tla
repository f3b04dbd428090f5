------------------------------ MODULE FileTools ------------------------------
(***************************************************************************)
(* The file tools of a session: read_file, write_file, edit_file and       *)
(* apply_patch over one shared ReadState.                                  *)
(* Source: crates/dark-tools/src/fs/{state,read_file,write_file,edit_file, *)
(* apply_patch,atomic,path}.rs.                                            *)
(*                                                                         *)
(* The turn loop runs one call at a time and drops it on a timeout; other  *)
(* programs change files whenever they like.  A call is the awaits it goes *)
(* through.  Every write is a task of its own, which a dropped call leaves *)
(* running (late).  A file is a line of text at each of a few places, so   *)
(* that two changes to one file may touch different parts of it.           *)
(***************************************************************************)
EXTENDS Naturals, Sequences, FiniteSets

CONSTANTS
    Paths,     \* paths inside the root; resolve refuses every other
    Places,    \* the lines of a file
    Texts,     \* what a line may say
    Patches,   \* the patches the model sends: sequences of file patches
    Outside,   \* what other programs may put at a path
    Changes,   \* bound on the changes other programs make
    Calls,     \* bound on the calls of the session
    Absent     \* no file, no record, no path (/dev/null)

Content == [Places -> Texts]

\* edits is what the hunks change: at a place, the line it removes and the line
\* it adds.  A file that is created or deleted has all its lines in body.
FilePatch ==
    [old : Paths, new : Paths, edits : SUBSET (Places \X Texts \X Texts)]
        \union [old : {Absent}, new : Paths, body : Content]
        \union [old : Paths, new : {Absent}, body : Content]

ASSUME FileToolsAssumption ==
    /\ Absent \notin Paths \union Content
    /\ Patches \subseteq Seq(FilePatch) \ {<< >>}
    /\ Outside \subseteq Content \union {Absent}
    /\ Changes \in Nat /\ Calls \in Nat

VARIABLES
    disk,    \* what each path holds
    seen,    \* ReadState: the content whose fingerprint is recorded
    call,    \* the call in progress
    late,    \* the writes of dropped calls that have not landed
    known,   \* history: the contents the session has seen at a path
    others,  \* history: how often other programs, or late writes, changed a file
    calls    \* history: calls begun

vars == <<disk, seen, call, late, known, others, calls>>

Files == [Paths -> Content \union {Absent}]

Idle == [step |-> "idle"]

Init ==
    /\ disk \in [Paths -> Outside]
    /\ seen = [path \in Paths |-> Absent]
    /\ call = Idle
    /\ late = {}
    /\ known = [path \in Paths |-> {}]
    /\ others = 0
    /\ calls = 0

Recorded(path, content) ==
    /\ seen' = [seen EXCEPT ![path] = content]
    /\ known' = [known EXCEPT ![path] = @ \union {content}]

Forgotten(gone) == [path \in Paths |-> IF path \in gone THEN Absent ELSE seen[path]]

Begin == call = Idle /\ calls < Calls /\ calls' = calls + 1

\* A call that answers with an error.
Refused ==
    /\ call' = Idle
    /\ UNCHANGED <<disk, seen, late, known, others>>

-----------------------------------------------------------------------------
(* One file at a time.                                                     *)

\* The record is of the whole file, whatever part of it is shown.
ReadFile(path) ==
    /\ Begin
    /\ disk[path] # Absent
    /\ Recorded(path, disk[path])
    /\ UNCHANGED <<disk, call, late, others>>

\* Mutant of Fresh: a file the session never read counts as fresh.
FreshUnlessChanged(path) == seen[path] \in {Absent, disk[path]}

\* check_fresh.
Fresh(path) == seen[path] # Absent /\ seen[path] = disk[path]

Writing(path, content) ==
    call' = [step |-> "writing", path |-> path, base |-> disk[path], content |-> content]

WriteFile(path, content) ==
    /\ Begin
    /\ \/ /\ disk[path] # Absent /\ ~Fresh(path)
          /\ Refused
       \/ /\ disk[path] = Absent \/ Fresh(path)
          /\ Writing(path, content)
          /\ UNCHANGED <<disk, seen, late, known, others>>

\* old must match in exactly one place.
EditFile(path, old, new) ==
    LET matches == {place \in Places : disk[path][place] = old}
        editable == disk[path] # Absent /\ Fresh(path) /\ Cardinality(matches) = 1
    IN  /\ Begin
        /\ \/ ~editable /\ Refused
           \/ /\ editable
              /\ Writing(path, [place \in Places |->
                                   IF place \in matches THEN new ELSE disk[path][place]])
              /\ UNCHANGED <<disk, seen, late, known, others>>

\* The rename that puts the new content in place, and the record of it.
Written ==
    /\ call.step = "writing"
    /\ disk' = [disk EXCEPT ![call.path] = call.content]
    /\ Recorded(call.path, call.content)
    /\ call' = Idle
    /\ UNCHANGED <<late, others, calls>>

-----------------------------------------------------------------------------
(* apply_patch.                                                            *)

Sources(patch) ==
    {fp.old : fp \in {patch[i] : i \in DOMAIN patch}} \ {Absent}

\* apply_hunks: every line a hunk removes is there.
Matches(edits, content) == \A edit \in edits : content[edit[1]] = edit[2]

Patched(edits, content) ==
    [place \in Places |->
        IF \E edit \in edits : edit[1] = place
        THEN (CHOOSE edit \in edits : edit[1] = place)[3]
        ELSE content[place]]

\* plan_one_file against the files as they are: what would be done, if it can be.
CanPlan(fp, files) ==
    CASE fp.old = Absent -> files[fp.new] = Absent
      [] fp.new = Absent -> files[fp.old] = fp.body
      [] OTHER -> files[fp.old] # Absent /\ Matches(fp.edits, files[fp.old])

\* Mutant of Planned: a rename leaves the old path.
PlannedCopy(fp, files) ==
    CASE fp.old = Absent -> [target |-> fp.new, content |-> fp.body, source |-> Absent]
      [] fp.new = Absent -> [target |-> fp.old, content |-> Absent, source |-> Absent]
      [] OTHER -> [target |-> fp.new, content |-> Patched(fp.edits, files[fp.old]),
                   source |-> Absent]

Planned(fp, files) ==
    CASE fp.old = Absent -> [target |-> fp.new, content |-> fp.body, source |-> Absent]
      [] fp.new = Absent -> [target |-> fp.old, content |-> Absent, source |-> Absent]
      [] OTHER -> [target |-> fp.new, content |-> Patched(fp.edits, files[fp.old]),
                   source |-> IF fp.new = fp.old THEN Absent ELSE fp.old]

ApplyPatch(patch) ==
    /\ Begin
    /\ call' = [step |-> "planning", patch |-> patch, plans |-> << >>,
                before |-> disk, others |-> others]
    /\ UNCHANGED <<disk, seen, late, known, others>>

PlanOne ==
    /\ call.step = "planning"
    /\ LET fp == call.patch[Len(call.plans) + 1]
           plans == Append(call.plans, Planned(fp, disk))
       IN  \/ /\ CanPlan(fp, disk)
              /\ call' = IF Len(plans) = Len(call.patch)
                         THEN [call EXCEPT !.step = "applying", !.plans = plans]
                         ELSE [call EXCEPT !.plans = plans]
              /\ UNCHANGED <<disk, seen, late, known, others, calls>>
           \/ ~CanPlan(fp, disk) /\ Refused /\ UNCHANGED calls

\* The first of its plans is carried out; the call answers when none is left.
PlanDone ==
    LET rest == Tail(call.plans)
    IN  call' = [call EXCEPT !.step = IF rest = << >> THEN "answering" ELSE "applying",
                             !.plans = rest]

\* Writing or deleting the target; a rename has its old path to remove yet.
ApplyOne ==
    /\ call.step = "applying"
    /\ LET plan == Head(call.plans)
       IN  \/ /\ plan.content = Absent /\ disk[plan.target] = Absent
              /\ Refused
           \/ /\ plan.content # Absent \/ disk[plan.target] # Absent
              /\ disk' = [disk EXCEPT ![plan.target] = plan.content]
              /\ IF plan.source # Absent
                 THEN /\ call' = [call EXCEPT !.step = "renaming"]
                      /\ UNCHANGED <<seen, known>>
                 ELSE /\ PlanDone
                      /\ IF plan.content = Absent
                         THEN seen' = Forgotten({plan.target}) /\ UNCHANGED known
                         ELSE Recorded(plan.target, plan.content)
              /\ UNCHANGED <<late, others>>
    /\ UNCHANGED calls

RemoveSource ==
    /\ call.step = "renaming"
    /\ LET plan == Head(call.plans)
       IN  \/ disk[plan.source] = Absent /\ Refused
           \/ /\ disk[plan.source] # Absent
              /\ disk' = [disk EXCEPT ![plan.source] = Absent]
              /\ Recorded(plan.target, plan.content)
              /\ PlanDone
              /\ UNCHANGED <<late, others>>
    /\ UNCHANGED calls

Renamed(patch) ==
    {fp.old : fp \in {f \in {patch[i] : i \in DOMAIN patch} :
                         f.old # Absent /\ f.new # Absent /\ f.old # f.new}}

AnswerPatch ==
    /\ call.step = "answering"
    /\ seen' = Forgotten(Renamed(call.patch))
    /\ call' = Idle
    /\ UNCHANGED <<disk, late, known, others, calls>>
-----------------------------------------------------------------------------
(* Timeouts and other programs.                                            *)

\* The write a call is waiting for: it goes on when the call is dropped.
InFlight ==
    CASE call.step = "writing" -> {<<call.path, call.content>>}
      [] call.step = "applying" -> {<<Head(call.plans).target, Head(call.plans).content>>}
      [] call.step = "renaming" -> {<<Head(call.plans).source, Absent>>}
      [] OTHER -> {}

Drop ==
    /\ call # Idle
    /\ late' = late \union InFlight
    /\ call' = Idle
    /\ UNCHANGED <<disk, seen, known, others, calls>>

LateWrite ==
    /\ \E write \in late :
          /\ disk' = [disk EXCEPT ![write[1]] = write[2]]
          /\ late' = late \ {write}
    /\ others' = others + 1
    /\ UNCHANGED <<seen, call, known, calls>>

OtherProgram ==
    /\ others < Changes
    /\ \E path \in Paths, content \in Outside :
          /\ content # disk[path]
          /\ disk' = [disk EXCEPT ![path] = content]
    /\ others' = others + 1
    /\ UNCHANGED <<seen, call, late, known, calls>>

Next ==
    \/ \E path \in Paths : ReadFile(path)
    \/ \E path \in Paths, content \in Content : WriteFile(path, content)
    \/ \E path \in Paths, old, new \in Texts : EditFile(path, old, new)
    \/ Written
    \/ \E patch \in Patches : ApplyPatch(patch)
    \/ PlanOne \/ ApplyOne \/ RemoveSource \/ AnswerPatch
    \/ Drop \/ LateWrite \/ OtherProgram

Spec == Init /\ [][Next]_vars

-----------------------------------------------------------------------------
(* Properties.                                                             *)

Plans == [target : Paths, content : Content \union {Absent}, source : Paths \union {Absent}]

WriteCalls == [step : {"writing"}, path : Paths, base : Content \union {Absent},
               content : Content]

PatchCalls == [step : {"planning", "applying", "renaming", "answering"}, patch : Patches,
               plans : Seq(Plans), before : Files, others : Nat]

TypeOK ==
    /\ disk \in Files /\ seen \in Files
    /\ call \in {Idle} \union WriteCalls \union PatchCalls
    /\ late \subseteq Paths \X (Content \union {Absent})
    /\ known \in [Paths -> SUBSET (Content \union {Absent})]
    /\ others \in Nat /\ calls \in 0 .. Calls

\* write_file and edit_file set out to replace only what the session has seen at
\* that path, whatever other programs and timed out calls did since (check_fresh,
\* record, forget).
OnlyKnownReplaced ==
    call.step = "writing" => call.base \in known[call.path] \union {Absent}

Undisturbed == others = call.others

\* No path is named by two file patches.
NamesApart(patch) ==
    \A i, j \in DOMAIN patch :
        i # j => {patch[i].old, patch[i].new} \intersect {patch[j].old, patch[j].new}
                     \subseteq {Absent}

\* The files a patch describes, were it applied to files at once.
Described(patch, files) ==
    [path \in Paths |->
        IF \E i \in DOMAIN patch : patch[i].new = path
        THEN Planned(CHOOSE fp \in {patch[i] : i \in DOMAIN patch} : fp.new = path, files).content
        ELSE IF path \in Sources(patch) THEN Absent ELSE files[path]]

\* A patch whose file patches name different paths, and that nobody disturbed, is
\* answered only when every file is as it describes; refused while it is planned, it
\* has changed nothing (invoke, plan_one_file, apply_plan).
PatchIsWhole ==
    /\ call.step = "answering" /\ Undisturbed /\ NamesApart(call.patch) =>
           disk = Described(call.patch, call.before)
    /\ call.step = "planning" /\ Undisturbed => disk = call.before

\* What apply_patch says of itself: a patch that is answered has been applied, every
\* hunk of it.
EveryHunkApplied ==
    call.step = "answering" /\ Undisturbed =>
        \A i \in DOMAIN call.patch :
            LET fp == call.patch[i]
            IN  fp.old # Absent /\ fp.new # Absent =>
                    \A edit \in fp.edits : disk[fp.new][edit[1]] = edit[3]

\* What fs/mod.rs says of the three tools: a write fails when the file changed on disk
\* since it was read.
StaleWriteFails ==
    [][\A path \in Paths :
          call.step = "writing" /\ call'.step = "idle" /\ late' = late /\ call.path = path =>
              disk[path] = call.base]_vars

\* And a patch changes an existing file only when the session has read it.
PatchedFilesWereRead ==
    call.step = "answering" =>
        \A path \in Sources(call.patch) : call.before[path] \in known[path]
=============================================================================
