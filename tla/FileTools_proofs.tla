-------------------------- MODULE FileTools_proofs --------------------------
(***************************************************************************)
(* Proofs about FileTools, for every set of paths, contents and patches    *)
(* and every number of calls and of changes by others: what the single     *)
(* file tools replace, and what a patch leaves on disk.                    *)
(***************************************************************************)
EXTENDS FileTools, TLAPS

\* The steps tell the three sorts of call apart.
LEMMA CallSorts ==
    ASSUME TypeOK
    PROVE  /\ call.step = "idle" => call = Idle
           /\ call.step = "writing" => call \in WriteCalls
           /\ call.step \in {"planning", "applying", "renaming", "answering"} =>
                call \in PatchCalls
           /\ call = Idle => call.step = "idle"
           /\ call.step \in {"idle", "writing", "planning", "applying", "renaming", "answering"}
BY DEF TypeOK, Idle, WriteCalls, PatchCalls

\* A file patch is of one of three kinds.
LEMMA PatchKinds ==
    ASSUME NEW fp \in FilePatch
    PROVE  \/ fp.old \in Paths /\ fp.new \in Paths /\ fp.edits \in SUBSET (Places \X Texts \X Texts)
           \/ fp.old = Absent /\ fp.new \in Paths /\ fp.body \in Content
           \/ fp.old \in Paths /\ fp.new = Absent /\ fp.body \in Content
BY DEF FilePatch

\* What a hunk makes of a file is a file.
LEMMA PatchedType ==
    ASSUME NEW edits \in SUBSET (Places \X Texts \X Texts), NEW content \in Content
    PROVE  Patched(edits, content) \in Content
<1>. SUFFICES ASSUME NEW place \in Places
              PROVE  (IF \E edit \in edits : edit[1] = place
                      THEN (CHOOSE edit \in edits : edit[1] = place)[3]
                      ELSE content[place]) \in Texts
  BY DEF Patched, Content
<1>1. CASE \E edit \in edits : edit[1] = place
  <2>1. (CHOOSE edit \in edits : edit[1] = place) \in edits
    BY <1>1
  <2>. QED  BY <1>1, <2>1
<1>2. CASE ~\E edit \in edits : edit[1] = place
  BY <1>2 DEF Content
<1>. QED  BY <1>1, <1>2

\* A plan that can be made is a plan, against files as they are.
LEMMA PlannedType ==
    ASSUME NEW fp \in FilePatch, NEW files \in Files, CanPlan(fp, files)
    PROVE  Planned(fp, files) \in Plans
<1>1. CASE fp.old = Absent
  <2>1. fp.new \in Paths /\ fp.body \in Content /\ fp.new # Absent
    <3>1. Absent \notin Paths
      BY FileToolsAssumption
    <3>. QED  BY <1>1, <3>1, PatchKinds
  <2>2. Planned(fp, files) = [target |-> fp.new, content |-> fp.body, source |-> Absent]
    BY <1>1, <2>1 DEF Planned
  <2>. QED  BY <2>1, <2>2 DEF Plans
<1>2. CASE fp.old # Absent /\ fp.new = Absent
  <2>1. fp.old \in Paths
    BY <1>2, PatchKinds
  <2>2. Planned(fp, files) = [target |-> fp.old, content |-> Absent, source |-> Absent]
    BY <1>2 DEF Planned
  <2>. QED  BY <2>1, <2>2 DEF Plans
<1>3. CASE fp.old # Absent /\ fp.new # Absent
  <2>1. fp.old \in Paths /\ fp.new \in Paths /\ fp.edits \in SUBSET (Places \X Texts \X Texts)
    BY <1>3, PatchKinds
  <2>2. files[fp.old] \in Content
    BY <1>3, <2>1 DEF CanPlan, Files
  <2>3. Patched(fp.edits, files[fp.old]) \in Content
    BY <2>1, <2>2, PatchedType
  <2>4. Planned(fp, files) = [target |-> fp.new, content |-> Patched(fp.edits, files[fp.old]),
                              source |-> IF fp.new = fp.old THEN Absent ELSE fp.old]
    BY <1>3 DEF Planned
  <2>. QED  BY <2>1, <2>3, <2>4 DEF Plans
<1>. QED  BY <1>1, <1>2, <1>3

\* A patch call keeps everything but the fields a step replaces.
PatchMoved(c, next, s, rest) ==
    /\ next \in PatchCalls /\ next.step = s /\ next.plans = rest
    /\ next.patch = c.patch /\ next.before = c.before /\ next.others = c.others

LEMMA PatchCallMoves ==
    ASSUME NEW c \in PatchCalls, NEW rest \in Seq(Plans),
           NEW s \in {"planning", "applying", "renaming", "answering"}
    PROVE  /\ PatchMoved(c, [c EXCEPT !.step = s, !.plans = rest], s, rest)
           /\ PatchMoved(c, [c EXCEPT !.plans = rest], c.step, rest)
           /\ PatchMoved(c, [c EXCEPT !.step = s], s, c.plans)
BY DEF PatchCalls, PatchMoved

\* The plan a patch is being carried out by, and the plans left after it.
LEMMA PlansLeft ==
    ASSUME NEW c \in PatchCalls, c.plans # <<>>
    PROVE  /\ Head(c.plans) \in Plans /\ Head(c.plans) = c.plans[1]
           /\ Tail(c.plans) \in Seq(Plans) /\ Len(Tail(c.plans)) = Len(c.plans) - 1
           /\ \A k \in 1..Len(Tail(c.plans)) : Tail(c.plans)[k] = c.plans[k + 1]
BY DEF PatchCalls

\* Once a plan is carried out the call goes on with the rest, or answers.
LEMMA PlanDoneMoves ==
    ASSUME call \in PatchCalls, call.plans # <<>>, PlanDone
    PROVE  PatchMoved(call, call', IF Tail(call.plans) = << >> THEN "answering" ELSE "applying",
                      Tail(call.plans))
BY PlansLeft, PatchCallMoves DEF PlanDone
-----------------------------------------------------------------------------
(* Types, and where a patch call stands among its plans.                   *)

\* While a patch is planned a file patch has no plan yet, while it is carried
\* out a plan is left, and only a rename has its old path to remove.
PlanInv ==
    /\ call.step = "planning" => Len(call.plans) < Len(call.patch)
    /\ call.step \in {"applying", "renaming"} => call.plans # <<>>
    /\ call.step = "renaming" => Head(call.plans).source # Absent
    /\ call.step \in {"planning", "applying", "renaming", "answering"} => call.others <= others

\* The files of a changed path are files.
LEMMA DiskType ==
    ASSUME NEW files \in Files, NEW path \in Paths, NEW content \in Content \union {Absent}
    PROVE  [files EXCEPT ![path] = content] \in Files
BY DEF Files

\* A record keeps the session's memory of its type.
LEMMA RecordedType ==
    ASSUME seen \in Files, known \in [Paths -> SUBSET (Content \union {Absent})],
           NEW path \in Paths, NEW content \in Content \union {Absent}, Recorded(path, content)
    PROVE  seen' \in Files /\ known' \in [Paths -> SUBSET (Content \union {Absent})]
BY DEF Files, Recorded

\* Forgetting paths keeps the records' type.
LEMMA ForgottenType ==
    ASSUME seen \in Files, NEW gone
    PROVE  Forgotten(gone) \in Files
BY DEF Files, Forgotten

\* The single file tools leave the call idle, or writing whole content.
LEMMA WritingType ==
    ASSUME disk \in Files, NEW path \in Paths, NEW content \in Content, Writing(path, content)
    PROVE  call' \in WriteCalls /\ call'.step = "writing" /\ call'.base = disk[path]
           /\ call'.path = path
BY DEF Writing, WriteCalls, Files

\* An edit of one place of a file is a file.
LEMMA EditedType ==
    ASSUME disk \in Files, NEW path \in Paths, disk[path] # Absent, NEW matches,
           NEW new \in Texts
    PROVE  [place \in Places |-> IF place \in matches THEN new ELSE disk[path][place]] \in Content
<1>1. disk[path] \in Content
  BY DEF Files
<1>. QED  BY <1>1 DEF Content

LEMMA TypeInvariant == Spec => [](TypeOK /\ PlanInv)
<1>1. Init => TypeOK /\ PlanInv
  <2>. SUFFICES ASSUME Init PROVE TypeOK /\ PlanInv
    OBVIOUS
  <2>1. disk \in Files /\ seen \in Files
    BY FileToolsAssumption DEF Init, Files
  <2>2. known \in [Paths -> SUBSET (Content \union {Absent})]
    BY DEF Init
  <2>3. call = Idle /\ call.step = "idle"
    BY DEF Init, Idle
  <2>4. late = {} /\ others = 0 /\ calls = 0
    BY DEF Init
  <2>5. calls \in 0 .. Calls
    BY <2>4, FileToolsAssumption
  <2>. QED  BY <2>1, <2>2, <2>3, <2>4, <2>5 DEF TypeOK, PlanInv
<1>2. TypeOK /\ PlanInv /\ [Next]_vars => TypeOK' /\ PlanInv'
  <2>. SUFFICES ASSUME TypeOK, PlanInv, [Next]_vars PROVE TypeOK' /\ PlanInv'
    OBVIOUS
  <2>. DEFINE TypesBut == /\ disk' \in Files /\ seen' \in Files
                          /\ late' \subseteq Paths \X (Content \union {Absent})
                          /\ known' \in [Paths -> SUBSET (Content \union {Absent})]
                          /\ others' \in Nat /\ calls' \in 0 .. Calls
  <2>0. /\ disk \in Files /\ seen \in Files
        /\ late \subseteq Paths \X (Content \union {Absent})
        /\ known \in [Paths -> SUBSET (Content \union {Absent})]
        /\ others \in Nat /\ calls \in 0 .. Calls /\ Calls \in Nat
    BY FileToolsAssumption DEF TypeOK
  <2>1. ASSUME TypesBut, call' = Idle PROVE TypeOK' /\ PlanInv'
    BY <2>1 DEF TypeOK, PlanInv, Idle
  <2>2. ASSUME TypesBut, call' \in WriteCalls PROVE TypeOK' /\ PlanInv'
    BY <2>2 DEF TypeOK, PlanInv, WriteCalls
  <2>3. ASSUME TypesBut, call' = call, others' = others \/ others' = others + 1
        PROVE  TypeOK' /\ PlanInv'
    <3>1. call \in PatchCalls => call.others \in Nat
      BY DEF PatchCalls
    <3>. QED  BY <2>0, <2>3, <3>1, CallSorts DEF TypeOK, PlanInv
  <2>4. Begin => calls' \in 0 .. Calls
    BY <2>0 DEF Begin
  <2>5. ASSUME Refused, calls' \in 0 .. Calls PROVE TypeOK' /\ PlanInv'
    BY <2>0, <2>1, <2>5 DEF Refused
  <2>6. ASSUME NEW path \in Paths, ReadFile(path) PROVE TypeOK' /\ PlanInv'
    <3>1. disk[path] \in Content \union {Absent}
      BY <2>0 DEF Files
    <3>2. TypesBut
      BY <2>0, <2>4, <2>6, <3>1, RecordedType DEF ReadFile
    <3>. QED  BY <2>3, <2>6, <3>2 DEF ReadFile
  <2>7. ASSUME NEW path \in Paths, NEW content \in Content, WriteFile(path, content)
        PROVE  TypeOK' /\ PlanInv'
    <3>1. CASE Refused
      BY <2>4, <2>5, <2>7, <3>1 DEF WriteFile
    <3>2. CASE Writing(path, content) /\ UNCHANGED <<disk, seen, late, known, others>>
      BY <2>0, <2>2, <2>4, <2>7, <3>2, WritingType DEF WriteFile
    <3>. QED  BY <2>7, <3>1, <3>2 DEF WriteFile
  <2>8. ASSUME NEW path \in Paths, NEW old \in Texts, NEW new \in Texts, EditFile(path, old, new)
        PROVE  TypeOK' /\ PlanInv'
    <3>. DEFINE matches == {place \in Places : disk[path][place] = old}
                edited == [place \in Places |->
                              IF place \in matches THEN new ELSE disk[path][place]]
    <3>1. CASE Refused
      BY <2>4, <2>5, <2>8, <3>1 DEF EditFile
    <3>2. CASE ~Refused
      <4>1. /\ disk[path] # Absent /\ Writing(path, edited) /\ Begin
            /\ UNCHANGED <<disk, seen, late, known, others>>
        BY <2>8, <3>2 DEF EditFile
      <4>2. edited \in Content
        BY <2>0, <4>1, EditedType
      <4>3. call' \in WriteCalls
        BY <2>0, <4>1, <4>2, WritingType
      <4>. QED  BY <2>0, <2>2, <2>4, <4>1, <4>3
    <3>. QED  BY <3>1, <3>2
  <2>9. CASE Written
    <3>1. call \in WriteCalls
      BY <2>9, CallSorts DEF Written
    <3>2. call.path \in Paths /\ call.content \in Content
      BY <3>1 DEF WriteCalls
    <3>3. TypesBut
      BY <2>0, <2>9, <3>2, DiskType, RecordedType DEF Written
    <3>. QED  BY <2>1, <2>9, <3>3 DEF Written
  <2>10. ASSUME TypesBut, call' \in PatchCalls, PlanInv' PROVE TypeOK' /\ PlanInv'
    BY <2>10 DEF TypeOK
  <2>11. ASSUME NEW patch \in Patches, ApplyPatch(patch) PROVE TypeOK' /\ PlanInv'
    <3>1. patch \in Seq(FilePatch) /\ patch # <<>>
      BY FileToolsAssumption
    <3>2. call' = [step |-> "planning", patch |-> patch, plans |-> << >>,
                   before |-> disk, others |-> others]
      BY <2>11 DEF ApplyPatch
    <3>3. << >> \in Seq(Plans)
      OBVIOUS
    <3>4. call' \in PatchCalls
      BY <2>0, <3>2, <3>3 DEF PatchCalls
    <3>5. PlanInv'
      BY <2>0, <2>11, <3>1, <3>2 DEF PlanInv, ApplyPatch
    <3>. QED  BY <2>0, <2>4, <2>10, <2>11, <3>4, <3>5 DEF ApplyPatch
  <2>12. CASE PlanOne
    <3>. DEFINE fp == call.patch[Len(call.plans) + 1]
                plans == Append(call.plans, Planned(fp, disk))
    <3>1. call \in PatchCalls /\ call.step = "planning" /\ Len(call.plans) < Len(call.patch)
      BY <2>12, CallSorts DEF PlanOne, PlanInv
    <3>2. call.patch \in Seq(FilePatch) /\ call.plans \in Seq(Plans)
      BY <3>1, FileToolsAssumption DEF PatchCalls
    <3>3. fp \in FilePatch
      BY <3>1, <3>2
    <3>4. CASE CanPlan(fp, disk)
      <4>1. Planned(fp, disk) \in Plans
        BY <2>0, <3>3, <3>4, PlannedType
      <4>2. plans \in Seq(Plans) /\ Len(plans) = Len(call.plans) + 1 /\ plans # <<>>
        BY <3>2, <4>1
      <4>3. /\ call' = IF Len(plans) = Len(call.patch)
                       THEN [call EXCEPT !.step = "applying", !.plans = plans]
                       ELSE [call EXCEPT !.plans = plans]
            /\ UNCHANGED <<disk, seen, late, known, others, calls>>
        BY <2>12, <3>4 DEF PlanOne
      <4>4. \/ Len(plans) = Len(call.patch) /\ PatchMoved(call, call', "applying", plans)
            \/ Len(plans) # Len(call.patch) /\ PatchMoved(call, call', "planning", plans)
        BY <3>1, <4>2, <4>3, PatchCallMoves
      <4>5. call' \in PatchCalls /\ PlanInv'
        BY <2>0, <3>1, <3>2, <4>2, <4>3, <4>4 DEF PlanInv, PatchMoved
      <4>. QED  BY <2>0, <2>10, <4>3, <4>5
    <3>5. CASE ~CanPlan(fp, disk)
      BY <2>0, <2>5, <2>12, <3>5 DEF PlanOne
    <3>. QED  BY <3>4, <3>5
  <2>13. ASSUME call \in PatchCalls, call.step \in {"applying", "renaming"}, PlanDone,
                TypesBut, others' = others
         PROVE  TypeOK' /\ PlanInv'
    <3>1. call.plans # <<>>
      BY <2>13 DEF PlanInv
    <3>2. PatchMoved(call, call', IF Tail(call.plans) = << >> THEN "answering" ELSE "applying",
                     Tail(call.plans))
      BY <2>13, <3>1, PlanDoneMoves
    <3>. QED  BY <2>10, <2>13, <3>2 DEF PlanInv, PatchMoved
  <2>14. CASE ApplyOne
    <3>. DEFINE plan == Head(call.plans)
    <3>1. call \in PatchCalls /\ call.step = "applying" /\ call.plans # <<>> /\ plan \in Plans
      BY <2>14, CallSorts, PlansLeft DEF ApplyOne, PlanInv
    <3>2. plan.target \in Paths /\ plan.content \in Content \union {Absent}
      BY <3>1 DEF Plans
    <3>3. CASE Refused
      BY <2>0, <2>5, <2>14, <3>3 DEF ApplyOne
    <3>4. CASE ~Refused
      <4>1. disk' = [disk EXCEPT ![plan.target] = plan.content]
            /\ UNCHANGED <<late, others, calls>>
        BY <2>14, <3>4 DEF ApplyOne
      <4>2. CASE plan.source # Absent
        <5>1. call' = [call EXCEPT !.step = "renaming"] /\ UNCHANGED <<seen, known>>
          BY <2>14, <3>4, <4>2 DEF ApplyOne
        <5>2. PatchMoved(call, call', "renaming", call.plans)
          BY <3>1, <5>1, PatchCallMoves DEF PatchCalls
        <5>3. call' \in PatchCalls /\ PlanInv'
          BY <3>1, <4>1, <4>2, <5>2 DEF PlanInv, PatchMoved
        <5>. QED  BY <2>0, <2>10, <3>2, <4>1, <5>1, <5>3, DiskType
      <4>3. CASE plan.source = Absent
        <5>1. /\ PlanDone
              /\ \/ seen' = Forgotten({plan.target}) /\ UNCHANGED known
                 \/ Recorded(plan.target, plan.content)
          BY <2>14, <3>4, <4>3 DEF ApplyOne
        <5>2. seen' \in Files /\ known' \in [Paths -> SUBSET (Content \union {Absent})]
          BY <2>0, <3>2, <5>1, ForgottenType, RecordedType
        <5>. QED  BY <2>0, <2>13, <3>1, <3>2, <4>1, <5>1, <5>2, DiskType
      <4>. QED  BY <4>2, <4>3
    <3>. QED  BY <3>3, <3>4
  <2>15. CASE RemoveSource
    <3>. DEFINE plan == Head(call.plans)
    <3>1. call \in PatchCalls /\ call.step = "renaming" /\ call.plans # <<>> /\ plan \in Plans
          /\ plan.source # Absent
      BY <2>15, CallSorts, PlansLeft DEF RemoveSource, PlanInv
    <3>2. plan.target \in Paths /\ plan.content \in Content \union {Absent}
          /\ plan.source \in Paths
      BY <3>1 DEF Plans
    <3>3. CASE Refused
      BY <2>0, <2>5, <2>15, <3>3 DEF RemoveSource
    <3>4. CASE ~Refused
      <4>1. /\ disk' = [disk EXCEPT ![plan.source] = Absent] /\ PlanDone
            /\ Recorded(plan.target, plan.content) /\ UNCHANGED <<late, others, calls>>
        BY <2>15, <3>4 DEF RemoveSource
      <4>. QED  BY <2>0, <2>13, <3>1, <3>2, <4>1, DiskType, RecordedType
    <3>. QED  BY <3>3, <3>4
  <2>16. CASE AnswerPatch
    BY <2>0, <2>1, <2>16, ForgottenType DEF AnswerPatch
  <2>17. CASE Drop
    <3>1. InFlight \subseteq Paths \X (Content \union {Absent})
      <4>1. CASE call.step = "writing"
        <5>1. call.path \in Paths /\ call.content \in Content
          BY <4>1, CallSorts DEF WriteCalls
        <5>2. InFlight = {<<call.path, call.content>>}
          BY <4>1 DEF InFlight
        <5>. QED  BY <5>1, <5>2
      <4>2. CASE call.step \in {"applying", "renaming"}
        <5>1. Head(call.plans) \in Plans
          BY <4>2, CallSorts, PlansLeft DEF PlanInv
        <5>2. /\ Head(call.plans).target \in Paths
              /\ Head(call.plans).content \in Content \union {Absent}
              /\ call.step = "renaming" => Head(call.plans).source \in Paths
          BY <5>1 DEF Plans, PlanInv
        <5>3. \/ InFlight = {<<Head(call.plans).target, Head(call.plans).content>>}
              \/ call.step = "renaming" /\ InFlight = {<<Head(call.plans).source, Absent>>}
          BY <4>2 DEF InFlight
        <5>. QED  BY <5>2, <5>3
      <4>3. CASE call.step \notin {"writing", "applying", "renaming"}
        BY <4>3 DEF InFlight
      <4>. QED  BY <4>1, <4>2, <4>3
    <3>. QED  BY <2>0, <2>1, <2>17, <3>1 DEF Drop
  <2>18. CASE LateWrite
    <3>1. PICK write \in late : /\ disk' = [disk EXCEPT ![write[1]] = write[2]]
                                /\ late' = late \ {write}
      BY <2>18 DEF LateWrite
    <3>2. write[1] \in Paths /\ write[2] \in Content \union {Absent}
      BY <2>0
    <3>3. /\ disk' \in Files /\ late' \subseteq late /\ others' = others + 1
          /\ UNCHANGED <<seen, call, known, calls>>
      BY <2>0, <2>18, <3>1, <3>2, DiskType DEF LateWrite
    <3>4. TypesBut
      BY <2>0, <3>3
    <3>. QED  BY <2>3, <3>3, <3>4
  <2>19. CASE OtherProgram
    <3>1. PICK path \in Paths, content \in Outside : disk' = [disk EXCEPT ![path] = content]
      BY <2>19 DEF OtherProgram
    <3>2. content \in Content \union {Absent}
      BY FileToolsAssumption
    <3>3. /\ disk' \in Files /\ others' = others + 1
          /\ UNCHANGED <<seen, call, late, known, calls>>
      BY <2>0, <2>19, <3>1, <3>2, DiskType DEF OtherProgram
    <3>4. TypesBut
      BY <2>0, <3>3
    <3>. QED  BY <2>3, <3>3, <3>4
  <2>20. CASE UNCHANGED vars
    BY <2>0, <2>3, <2>20 DEF vars
  <2>. QED
    BY <2>6, <2>7, <2>8, <2>9, <2>11, <2>12, <2>14, <2>15, <2>16, <2>17, <2>18, <2>19, <2>20
       DEF Next
<1>. QED  BY <1>1, <1>2, PTL DEF Spec

\* Every state of the file tools has its type.
THEOREM TypeCorrect == Spec => []TypeOK
BY TypeInvariant, PTL
-----------------------------------------------------------------------------
(* What a single file tool replaces.  The record of a path is of a content *)
(* the session saw there, so a file that equals its record was seen.       *)

SeenInv ==
    /\ \A path \in Paths : seen[path] # Absent => seen[path] \in known[path]
    /\ OnlyKnownReplaced

\* write_file and edit_file set out to replace only what the session has seen
\* at that path, whatever others wrote and however calls were dropped.
THEOREM KnownReplaced == Spec => []OnlyKnownReplaced
<1>1. Init => SeenInv
  BY DEF Init, SeenInv, OnlyKnownReplaced, Idle
<1>2. TypeOK /\ PlanInv /\ SeenInv /\ [Next]_vars => SeenInv'
  <2>. SUFFICES ASSUME TypeOK, PlanInv, SeenInv, [Next]_vars PROVE SeenInv'
    OBVIOUS
  <2>0. /\ disk \in Files /\ seen \in Files
        /\ known \in [Paths -> SUBSET (Content \union {Absent})]
    BY DEF TypeOK
  <2>1. ASSUME UNCHANGED <<seen, known>>, call' = call \/ call'.step # "writing" PROVE SeenInv'
    BY <2>1 DEF SeenInv, OnlyKnownReplaced
  <2>2. ASSUME NEW path \in Paths, NEW content \in Content \union {Absent}, Recorded(path, content),
               call' = call \/ call'.step # "writing"
        PROVE  SeenInv'
    <3>1. /\ \A p \in Paths : known[p] \subseteq known'[p]
          /\ \A p \in Paths : seen'[p] = seen[p] \/ (p = path /\ seen'[p] \in known'[p])
      BY <2>0, <2>2 DEF Recorded, Files
    <3>2. call.step = "writing" => call.path \in Paths
      BY CallSorts DEF WriteCalls
    <3>. QED  BY <2>2, <3>1, <3>2 DEF SeenInv, OnlyKnownReplaced
  <2>3. ASSUME NEW gone, seen' = Forgotten(gone), known' = known, call'.step # "writing"
        PROVE  SeenInv'
    BY <2>0, <2>3 DEF SeenInv, OnlyKnownReplaced, Forgotten, Files
  <2>4. ASSUME NEW path \in Paths, NEW content \in Content, Writing(path, content),
               disk[path] = Absent \/ Fresh(path), UNCHANGED <<seen, known>>
        PROVE  SeenInv'
    <3>1. call'.path = path /\ call'.base = disk[path]
      BY <2>0, <2>4, WritingType
    <3>2. disk[path] = Absent \/ disk[path] \in known[path]
      BY <2>4 DEF SeenInv, Fresh
    <3>. QED  BY <2>4, <3>1, <3>2 DEF SeenInv, OnlyKnownReplaced
  <2>5. CASE Refused
    BY <2>1, <2>5 DEF Refused, Idle
  <2>6. ASSUME NEW path \in Paths, ReadFile(path) PROVE SeenInv'
    <3>1. disk[path] \in Content \union {Absent}
      BY <2>0 DEF Files
    <3>. QED  BY <2>2, <2>6, <3>1 DEF ReadFile
  <2>7. ASSUME NEW path \in Paths, NEW content \in Content, WriteFile(path, content)
        PROVE  SeenInv'
    BY <2>4, <2>5, <2>7 DEF WriteFile
  <2>8. ASSUME NEW path \in Paths, NEW old \in Texts, NEW new \in Texts, EditFile(path, old, new)
        PROVE  SeenInv'
    <3>. DEFINE matches == {place \in Places : disk[path][place] = old}
                edited == [place \in Places |->
                              IF place \in matches THEN new ELSE disk[path][place]]
    <3>1. CASE Refused
      BY <2>5, <3>1
    <3>2. CASE ~Refused
      <4>1. /\ disk[path] # Absent /\ Fresh(path) /\ Writing(path, edited)
            /\ UNCHANGED <<seen, known>>
        BY <2>8, <3>2 DEF EditFile
      <4>2. edited \in Content
        BY <2>0, <4>1, EditedType
      <4>. QED  BY <2>4, <4>1, <4>2
    <3>. QED  BY <3>1, <3>2
  <2>9. CASE Written
    <3>1. call.path \in Paths /\ call.content \in Content
      BY <2>9, CallSorts DEF Written, WriteCalls
    <3>. QED  BY <2>2, <2>9, <3>1 DEF Written, Idle
  <2>10. ASSUME NEW patch \in Patches, ApplyPatch(patch) PROVE SeenInv'
    <3>1. call'.step = "planning" /\ UNCHANGED <<seen, known>>
      BY <2>10 DEF ApplyPatch
    <3>. QED  BY <2>1, <3>1
  <2>11. ASSUME call \in PatchCalls, call.plans # <<>>, PlanDone PROVE call'.step # "writing"
    BY <2>11, PlanDoneMoves DEF PatchMoved
  <2>12. CASE PlanOne
    <3>1. CASE Refused
      BY <2>5, <3>1
    <3>2. CASE ~Refused
      <4>1. /\ UNCHANGED <<seen, known>> /\ call \in PatchCalls
            /\ \E plans : call' = [call EXCEPT !.step = "applying", !.plans = plans]
                          \/ call' = [call EXCEPT !.plans = plans]
            /\ call.step = "planning"
        BY <2>12, <3>2, CallSorts DEF PlanOne
      <4>2. call'.step # "writing"
        BY <4>1 DEF PatchCalls
      <4>. QED  BY <2>1, <4>1, <4>2
    <3>. QED  BY <3>1, <3>2
  <2>13. CASE ApplyOne
    <3>. DEFINE plan == Head(call.plans)
    <3>1. call \in PatchCalls /\ call.plans # <<>> /\ plan \in Plans
      BY <2>13, CallSorts, PlansLeft DEF ApplyOne, PlanInv
    <3>2. plan.target \in Paths /\ plan.content \in Content \union {Absent}
      BY <3>1 DEF Plans
    <3>3. CASE Refused
      BY <2>5, <3>3
    <3>4. CASE ~Refused /\ plan.source # Absent
      <4>1. call' = [call EXCEPT !.step = "renaming"] /\ UNCHANGED <<seen, known>>
        BY <2>13, <3>4 DEF ApplyOne
      <4>2. call'.step # "writing"
        BY <3>1, <4>1 DEF PatchCalls
      <4>. QED  BY <2>1, <4>1, <4>2
    <3>5. CASE ~Refused /\ plan.source = Absent
      <4>1. /\ PlanDone
            /\ \/ seen' = Forgotten({plan.target}) /\ UNCHANGED known
               \/ Recorded(plan.target, plan.content)
        BY <2>13, <3>5 DEF ApplyOne
      <4>. QED  BY <2>2, <2>3, <2>11, <3>1, <3>2, <4>1
    <3>. QED  BY <3>3, <3>4, <3>5
  <2>14. CASE RemoveSource
    <3>. DEFINE plan == Head(call.plans)
    <3>1. call \in PatchCalls /\ call.plans # <<>> /\ plan \in Plans
      BY <2>14, CallSorts, PlansLeft DEF RemoveSource, PlanInv
    <3>2. plan.target \in Paths /\ plan.content \in Content \union {Absent}
      BY <3>1 DEF Plans
    <3>3. CASE Refused
      BY <2>5, <3>3
    <3>4. CASE ~Refused
      <4>1. PlanDone /\ Recorded(plan.target, plan.content)
        BY <2>14, <3>4 DEF RemoveSource
      <4>. QED  BY <2>2, <2>11, <3>1, <3>2, <4>1
    <3>. QED  BY <3>3, <3>4
  <2>15. CASE AnswerPatch
    BY <2>3, <2>15 DEF AnswerPatch, Idle
  <2>16. CASE Drop \/ LateWrite \/ OtherProgram
    <3>1. Idle.step # "writing"
      BY DEF Idle
    <3>. QED  BY <2>1, <2>16, <3>1 DEF Drop, LateWrite, OtherProgram
  <2>17. CASE UNCHANGED vars
    BY <2>1, <2>17 DEF vars
  <2>. QED
    BY <2>6, <2>7, <2>8, <2>9, <2>10, <2>12, <2>13, <2>14, <2>15, <2>16, <2>17 DEF Next
<1>3. SeenInv => OnlyKnownReplaced
  BY DEF SeenInv
<1>. QED  BY <1>1, <1>2, <1>3, TypeInvariant, PTL DEF Spec
-----------------------------------------------------------------------------
(* What a patch leaves.  After n of its plans the files are as its first n *)
(* file patches describe, and every other path is as the patch found it.   *)

CarriedOut(patch, n, before, files) ==
    \A path \in Paths :
        /\ \A i \in 1..n : patch[i].new = path =>
                              files[path] = Planned(patch[i], before).content
        /\ \A i \in 1..n : patch[i].old = path /\ patch[i].new # path => files[path] = Absent
        /\ (\A i \in 1..n : path \notin {patch[i].old, patch[i].new}) =>
               files[path] = before[path]

\* What carrying out the plan of one file patch does to the files.
LEMMA OneCarriedOut ==
    ASSUME NEW fp \in FilePatch, NEW before \in Files, NEW files \in Files, NEW after,
           Planned(fp, before).source = Absent =>
              after = [files EXCEPT ![Planned(fp, before).target] = Planned(fp, before).content],
           Planned(fp, before).source # Absent =>
              after = [[files EXCEPT ![Planned(fp, before).target] = Planned(fp, before).content]
                          EXCEPT ![Planned(fp, before).source] = Absent]
    PROVE  /\ fp.new \in Paths => after[fp.new] = Planned(fp, before).content
           /\ fp.old \in Paths /\ fp.old # fp.new => after[fp.old] = Absent
           /\ \A path \in Paths \ {fp.old, fp.new} : after[path] = files[path]
<1>0. Absent \notin Paths /\ files \in [Paths -> Content \union {Absent}]
  BY FileToolsAssumption DEF Files
<1>1. CASE fp.old = Absent
  <2>1. fp.new \in Paths /\ fp.new # Absent
    BY <1>0, <1>1, PatchKinds
  <2>2. Planned(fp, before) = [target |-> fp.new, content |-> fp.body, source |-> Absent]
    BY <1>1, <2>1 DEF Planned
  <2>3. after = [files EXCEPT ![fp.new] = Planned(fp, before).content]
    BY <2>2
  <2>. QED  BY <1>0, <1>1, <2>1, <2>3
<1>2. CASE fp.old # Absent /\ fp.new = Absent
  <2>1. fp.old \in Paths
    BY <1>2, PatchKinds
  <2>2. Planned(fp, before) = [target |-> fp.old, content |-> Absent, source |-> Absent]
    BY <1>2 DEF Planned
  <2>3. after = [files EXCEPT ![fp.old] = Absent]
    BY <2>2
  <2>. QED  BY <1>0, <1>2, <2>1, <2>3
<1>3. CASE fp.old # Absent /\ fp.new # Absent
  <2>1. fp.old \in Paths /\ fp.new \in Paths
    BY <1>3, PatchKinds
  <2>2. Planned(fp, before) = [target |-> fp.new, content |-> Patched(fp.edits, before[fp.old]),
                               source |-> IF fp.new = fp.old THEN Absent ELSE fp.old]
    BY <1>3 DEF Planned
  <2>3. CASE fp.new = fp.old
    <3>1. after = [files EXCEPT ![fp.new] = Planned(fp, before).content]
      BY <2>2, <2>3
    <3>. QED  BY <1>0, <2>1, <2>3, <3>1
  <2>4. CASE fp.new # fp.old
    <3>1. after = [[files EXCEPT ![fp.new] = Planned(fp, before).content] EXCEPT ![fp.old] = Absent]
      BY <1>3, <2>2, <2>4
    <3>. QED  BY <1>0, <2>1, <2>4, <3>1
  <2>. QED  BY <2>3, <2>4
<1>. QED  BY <1>1, <1>2, <1>3

\* Carrying out the next plan, of a patch whose file patches name different
\* paths, leaves what the earlier ones did.
LEMMA OneMoreCarriedOut ==
    ASSUME NEW patch \in Seq(FilePatch), NEW n \in Nat, n + 1 <= Len(patch), NamesApart(patch),
           NEW before \in Files, NEW files \in Files, CarriedOut(patch, n, before, files),
           NEW after,
           LET plan == Planned(patch[n + 1], before)
           IN  /\ plan.source = Absent => after = [files EXCEPT ![plan.target] = plan.content]
               /\ plan.source # Absent =>
                    after = [[files EXCEPT ![plan.target] = plan.content]
                                EXCEPT ![plan.source] = Absent]
    PROVE  CarriedOut(patch, n + 1, before, after)
<1>. DEFINE fp == patch[n + 1]
<1>1. fp \in FilePatch /\ n + 1 \in DOMAIN patch /\ DOMAIN patch = 1..Len(patch)
  OBVIOUS
<1>2. /\ fp.new \in Paths => after[fp.new] = Planned(fp, before).content
      /\ fp.old \in Paths /\ fp.old # fp.new => after[fp.old] = Absent
      /\ \A path \in Paths \ {fp.old, fp.new} : after[path] = files[path]
  BY <1>1, OneCarriedOut
<1>3. \A i \in 1..n : i \in DOMAIN patch /\ i # n + 1
  BY <1>1
<1>4. \A i \in 1..(n + 1) : i \in 1..n \/ i = n + 1
  OBVIOUS
<1>5. \A i \in 1..n, path \in Paths : path \in {patch[i].old, patch[i].new} =>
                                        path \notin {fp.old, fp.new}
  BY <1>1, <1>3, FileToolsAssumption DEF NamesApart
<1>. SUFFICES ASSUME NEW path \in Paths
     PROVE /\ \A i \in 1..(n + 1) : patch[i].new = path =>
                                      after[path] = Planned(patch[i], before).content
           /\ \A i \in 1..(n + 1) : patch[i].old = path /\ patch[i].new # path =>
                                      after[path] = Absent
           /\ (\A i \in 1..(n + 1) : path \notin {patch[i].old, patch[i].new}) =>
                  after[path] = before[path]
  BY DEF CarriedOut
<1>6. ASSUME NEW i \in 1..(n + 1), patch[i].new = path
      PROVE  after[path] = Planned(patch[i], before).content
  <2>1. CASE i = n + 1
    BY <1>2, <1>6, <2>1
  <2>2. CASE i \in 1..n
    BY <1>2, <1>5, <1>6, <2>2 DEF CarriedOut
  <2>. QED  BY <1>4, <2>1, <2>2
<1>7. ASSUME NEW i \in 1..(n + 1), patch[i].old = path, patch[i].new # path
      PROVE  after[path] = Absent
  <2>1. CASE i = n + 1
    BY <1>2, <1>7, <2>1
  <2>2. CASE i \in 1..n
    BY <1>2, <1>5, <1>7, <2>2 DEF CarriedOut
  <2>. QED  BY <1>4, <2>1, <2>2
<1>8. ASSUME \A i \in 1..(n + 1) : path \notin {patch[i].old, patch[i].new}
      PROVE  after[path] = before[path]
  <2>1. path \notin {fp.old, fp.new} /\ \A i \in 1..n : path \notin {patch[i].old, patch[i].new}
    BY <1>8
  <2>. QED  BY <1>2, <2>1 DEF CarriedOut
<1>. QED  BY <1>6, <1>7, <1>8

\* With every plan carried out the files are those the patch describes.
LEMMA AllCarriedOut ==
    ASSUME NEW patch \in Seq(FilePatch), NEW before \in Files, NEW files \in Files,
           CarriedOut(patch, Len(patch), before, files)
    PROVE  files = Described(patch, before)
<1>. DEFINE D(path) ==
       IF \E i \in DOMAIN patch : patch[i].new = path
       THEN Planned(CHOOSE fp \in {patch[i] : i \in DOMAIN patch} : fp.new = path, before).content
       ELSE IF path \in Sources(patch) THEN Absent ELSE before[path]
<1>1. DOMAIN patch = 1..Len(patch)
  OBVIOUS
<1>2. ASSUME NEW path \in Paths PROVE files[path] = D(path)
  <2>1. CASE \E i \in DOMAIN patch : patch[i].new = path
    <3>1. PICK j \in DOMAIN patch :
             patch[j] = CHOOSE fp \in {patch[i] : i \in DOMAIN patch} : fp.new = path
      BY <2>1
    <3>2. patch[j].new = path
      BY <2>1, <3>1
    <3>. QED  BY <1>1, <2>1, <3>1, <3>2 DEF CarriedOut
  <2>2. CASE ~(\E i \in DOMAIN patch : patch[i].new = path) /\ path \in Sources(patch)
    BY <1>1, <2>2 DEF CarriedOut, Sources
  <2>3. CASE ~(\E i \in DOMAIN patch : patch[i].new = path) /\ path \notin Sources(patch)
    <3>1. path # Absent
      BY FileToolsAssumption
    <3>2. \A i \in 1..Len(patch) : path \notin {patch[i].old, patch[i].new}
      BY <1>1, <2>3, <3>1 DEF Sources
    <3>. QED  BY <2>3, <3>2 DEF CarriedOut
  <2>. QED  BY <2>1, <2>2, <2>3
<1>3. files = [path \in Paths |-> D(path)]
  BY <1>2 DEF Files
<1>. QED  BY <1>3 DEF Described

OnPatch == call.step \in {"planning", "applying", "renaming", "answering"} /\ Undisturbed
Done    == Len(call.patch) - Len(call.plans)

\* While nobody disturbs a patch, its plans are those made against the files
\* it found, and the files are those with the plans so far carried out.
PatchInv ==
    /\ OnPatch /\ call.step = "planning" =>
         /\ disk = call.before
         /\ \A k \in 1..Len(call.plans) : call.plans[k] = Planned(call.patch[k], call.before)
    /\ OnPatch /\ call.step # "planning" =>
         /\ Done \in Nat
         /\ \A k \in 1..Len(call.plans) :
              call.plans[k] = Planned(call.patch[Done + k], call.before)
         /\ call.step = "answering" => call.plans = << >>
         /\ NamesApart(call.patch) =>
              \E files \in Files :
                 /\ CarriedOut(call.patch, Done, call.before, files)
                 /\ disk = IF call.step = "renaming"
                           THEN [files EXCEPT ![Head(call.plans).target] = Head(call.plans).content]
                           ELSE files

\* The plan in hand is that of the file patch after those that are done.
LEMMA PlanInHand ==
    ASSUME call \in PatchCalls, call.plans # << >>, Done \in Nat,
           \A k \in 1..Len(call.plans) :
              call.plans[k] = Planned(call.patch[Done + k], call.before)
    PROVE  /\ Done + 1 <= Len(call.patch)
           /\ Head(call.plans) = Planned(call.patch[Done + 1], call.before)
<1>1. call.plans \in Seq(Plans) /\ call.patch \in Seq(FilePatch)
  BY FileToolsAssumption DEF PatchCalls
<1>2. Len(call.plans) >= 1 /\ Len(call.plans) \in Nat /\ Len(call.patch) \in Nat
  BY <1>1
<1>3. Done + 1 <= Len(call.patch)
  BY <1>2 DEF Done
<1>4. 1 \in 1..Len(call.plans) /\ Head(call.plans) = call.plans[1]
  BY <1>1, <1>2
<1>. QED  BY <1>3, <1>4

\* A plan carried out leaves the rest of the plans, and one more is done.
LEMMA PlanDoneKeeps ==
    ASSUME call \in PatchCalls, call.plans # << >>, Done \in Nat, PlanDone,
           call.step # "planning",
           \A k \in 1..Len(call.plans) :
              call.plans[k] = Planned(call.patch[Done + k], call.before)
    PROVE  /\ call' \in PatchCalls /\ call'.step \in {"applying", "answering"}
           /\ call'.patch = call.patch /\ call'.before = call.before
           /\ call'.others = call.others
           /\ Done' = Done + 1
           /\ \A k \in 1..Len(call'.plans) :
                call'.plans[k] = Planned(call'.patch[Done' + k], call'.before)
           /\ call'.step = "answering" => call'.plans = << >>
<1>1. call.plans \in Seq(Plans) /\ call.patch \in Seq(FilePatch)
  BY FileToolsAssumption DEF PatchCalls
<1>2. /\ Tail(call.plans) \in Seq(Plans) /\ Len(Tail(call.plans)) = Len(call.plans) - 1
      /\ \A k \in 1..Len(Tail(call.plans)) : Tail(call.plans)[k] = call.plans[k + 1]
  BY PlansLeft
<1>3. PatchMoved(call, call', IF Tail(call.plans) = << >> THEN "answering" ELSE "applying",
                 Tail(call.plans))
  BY PlanDoneMoves
<1>4. Done' = Done + 1
  <2>1. Len(call'.patch) = Len(call.patch) /\ Len(call'.plans) = Len(call.plans) - 1
    BY <1>2, <1>3 DEF PatchMoved
  <2>2. Len(call.patch) \in Nat /\ Len(call.plans) \in Nat
    BY <1>1
  <2>. QED  BY <2>1, <2>2 DEF Done
<1>5. \A k \in 1..Len(call'.plans) :
         call'.plans[k] = Planned(call'.patch[Done' + k], call'.before)
  <2>. SUFFICES ASSUME NEW k \in 1..Len(call'.plans)
                PROVE  call'.plans[k] = Planned(call'.patch[Done' + k], call'.before)
    OBVIOUS
  <2>1. call'.plans = Tail(call.plans) /\ call'.patch = call.patch /\ call'.before = call.before
    BY <1>3 DEF PatchMoved
  <2>2. k + 1 \in 1..Len(call.plans) /\ Done' + k = Done + (k + 1)
    BY <1>1, <1>2, <1>4, <2>1
  <2>. QED  BY <1>2, <2>1, <2>2
<1>. QED  BY <1>3, <1>4, <1>5 DEF PatchMoved

\* A patch nobody disturbed is answered only when every file is as it
\* describes, and has changed nothing while it can still be refused.
THEOREM PatchAppliedWhole == Spec => []PatchIsWhole
<1>1. Init => PatchInv
  BY DEF Init, PatchInv, OnPatch, Idle
<1>2. TypeOK /\ PlanInv /\ PatchInv /\ [Next]_vars => PatchInv'
  <2>. SUFFICES ASSUME TypeOK, PlanInv, PatchInv, [Next]_vars PROVE PatchInv'
    OBVIOUS
  <2>0. disk \in Files /\ others \in Nat
    BY DEF TypeOK
  <2>1. ASSUME call' = Idle \/ call'.step = "writing" PROVE PatchInv'
    BY <2>1 DEF PatchInv, OnPatch, Idle
  <2>2. ASSUME UNCHANGED <<disk, call, others>> PROVE PatchInv'
    BY <2>2 DEF PatchInv, OnPatch, Undisturbed, Done
  <2>3. CASE Refused
    BY <2>1, <2>3 DEF Refused
  <2>4. ASSUME NEW path \in Paths, ReadFile(path) PROVE PatchInv'
    BY <2>2, <2>4 DEF ReadFile
  <2>5. ASSUME NEW path \in Paths, NEW content \in Content, WriteFile(path, content)
        PROVE  PatchInv'
    BY <2>1, <2>3, <2>5 DEF WriteFile, Writing
  <2>6. ASSUME NEW path \in Paths, NEW old \in Texts, NEW new \in Texts, EditFile(path, old, new)
        PROVE  PatchInv'
    BY <2>1, <2>3, <2>6 DEF EditFile, Writing
  <2>7. ASSUME NEW patch \in Patches, ApplyPatch(patch) PROVE PatchInv'
    BY <2>7 DEF ApplyPatch, PatchInv, OnPatch
  <2>8. CASE PlanOne
    <3>. DEFINE fp == call.patch[Len(call.plans) + 1]
                plans == Append(call.plans, Planned(fp, disk))
    <3>1. call \in PatchCalls /\ call.step = "planning" /\ Len(call.plans) < Len(call.patch)
      BY <2>8, CallSorts DEF PlanOne, PlanInv
    <3>2. /\ call.patch \in Seq(FilePatch) /\ call.plans \in Seq(Plans)
          /\ Len(call.patch) \in Nat /\ Len(call.plans) \in Nat /\ fp \in FilePatch
      BY <3>1, FileToolsAssumption DEF PatchCalls
    <3>3. CASE ~CanPlan(fp, disk)
      BY <2>3, <2>8, <3>3 DEF PlanOne
    <3>4. CASE CanPlan(fp, disk)
      <4>1. Planned(fp, disk) \in Plans
        BY <2>0, <3>2, <3>4, PlannedType
      <4>2. /\ plans \in Seq(Plans) /\ Len(plans) = Len(call.plans) + 1
            /\ plans[Len(call.plans) + 1] = Planned(fp, disk)
            /\ \A k \in 1..Len(call.plans) : plans[k] = call.plans[k]
        BY <3>2, <4>1
      <4>3. /\ call' = IF Len(plans) = Len(call.patch)
                       THEN [call EXCEPT !.step = "applying", !.plans = plans]
                       ELSE [call EXCEPT !.plans = plans]
            /\ UNCHANGED <<disk, others>>
        BY <2>8, <3>4 DEF PlanOne
      <4>4. \/ Len(plans) = Len(call.patch) /\ PatchMoved(call, call', "applying", plans)
            \/ Len(plans) # Len(call.patch) /\ PatchMoved(call, call', "planning", plans)
        BY <3>1, <4>2, <4>3, PatchCallMoves
      <4>5. CASE ~Undisturbed
        BY <4>3, <4>4, <4>5 DEF PatchInv, OnPatch, Undisturbed, PatchMoved
      <4>6. CASE Undisturbed
        <5>1. /\ disk = call.before
              /\ \A k \in 1..Len(call.plans) : call.plans[k] = Planned(call.patch[k], call.before)
          BY <3>1, <4>6 DEF PatchInv, OnPatch
        <5>2. \A k \in 1..Len(plans) : plans[k] = Planned(call.patch[k], call.before)
          BY <3>2, <4>2, <5>1
        <5>3. CASE PatchMoved(call, call', "planning", plans)
          BY <4>3, <5>1, <5>2, <5>3 DEF PatchInv, OnPatch, PatchMoved
        <5>4. CASE Len(plans) = Len(call.patch) /\ PatchMoved(call, call', "applying", plans)
          <6>1. /\ call'.step = "applying" /\ call'.plans = plans /\ call'.patch = call.patch
                /\ call'.before = call.before
            BY <5>4 DEF PatchMoved
          <6>2. Done' = 0
            BY <3>2, <5>4, <6>1 DEF Done
          <6>3. \A k \in 1..Len(plans) : 0 + k = k
            OBVIOUS
          <6>4. CarriedOut(call.patch, 0, call.before, disk)
            BY <5>1 DEF CarriedOut
          <6>. QED
            BY <2>0, <4>3, <5>2, <6>1, <6>2, <6>3, <6>4 DEF PatchInv, OnPatch
        <5>. QED  BY <4>4, <5>3, <5>4
      <4>. QED  BY <4>5, <4>6
    <3>. QED  BY <3>3, <3>4
  <2>9. CASE ApplyOne
    <3>. DEFINE plan == Head(call.plans)
    <3>1. call \in PatchCalls /\ call.step = "applying" /\ call.plans # <<>>
      BY <2>9, CallSorts DEF ApplyOne, PlanInv
    <3>2. call.patch \in Seq(FilePatch) /\ call.before \in Files
      BY <3>1, FileToolsAssumption DEF PatchCalls
    <3>3. CASE Refused
      BY <2>3, <3>3
    <3>4. CASE ~Refused /\ plan.source # Absent
      <4>1. /\ disk' = [disk EXCEPT ![plan.target] = plan.content] /\ UNCHANGED others
            /\ call' = [call EXCEPT !.step = "renaming"]
        BY <2>9, <3>4 DEF ApplyOne
      <4>2. PatchMoved(call, call', "renaming", call.plans)
        BY <3>1, <4>1, PatchCallMoves DEF PatchCalls
      <4>. QED
        BY <3>1, <4>1, <4>2 DEF PatchInv, OnPatch, Undisturbed, Done, PatchMoved
    <3>5. CASE ~Refused /\ plan.source = Absent
      <4>1. /\ disk' = [disk EXCEPT ![plan.target] = plan.content] /\ UNCHANGED others
            /\ PlanDone
        BY <2>9, <3>5 DEF ApplyOne
      <4>2. call'.others = call.others
        BY <3>1, <4>1, PlanDoneMoves DEF PatchMoved
      <4>3. CASE ~Undisturbed
        BY <4>1, <4>2, <4>3 DEF PatchInv, OnPatch, Undisturbed
      <4>4. CASE Undisturbed
        <5>1. /\ Done \in Nat
              /\ \A k \in 1..Len(call.plans) :
                   call.plans[k] = Planned(call.patch[Done + k], call.before)
          BY <3>1, <4>4 DEF PatchInv, OnPatch
        <5>2. /\ call'.step \in {"applying", "answering"} /\ Done' = Done + 1
              /\ call'.patch = call.patch /\ call'.before = call.before
              /\ \A k \in 1..Len(call'.plans) :
                   call'.plans[k] = Planned(call'.patch[Done' + k], call'.before)
              /\ call'.step = "answering" => call'.plans = << >>
          BY <3>1, <4>1, <5>1, PlanDoneKeeps
        <5>3. Done + 1 <= Len(call.patch) /\ plan = Planned(call.patch[Done + 1], call.before)
          BY <3>1, <5>1, PlanInHand
        <5>4. NamesApart(call.patch) => CarriedOut(call.patch, Done, call.before, disk)
          BY <3>1, <4>4 DEF PatchInv, OnPatch
        <5>5. NamesApart(call.patch) => CarriedOut(call.patch, Done + 1, call.before, disk')
          BY <2>0, <3>2, <3>5, <4>1, <5>1, <5>3, <5>4, OneMoreCarriedOut
        <5>6. disk' \in Files
          <6>1. plan \in Plans
            BY <3>1, PlansLeft
          <6>2. plan.target \in Paths /\ plan.content \in Content \union {Absent}
            BY <6>1 DEF Plans
          <6>. QED  BY <2>0, <4>1, <6>2, DiskType
        <5>. QED  BY <5>1, <5>2, <5>5, <5>6 DEF PatchInv, OnPatch
      <4>. QED  BY <4>3, <4>4
    <3>. QED  BY <3>3, <3>4, <3>5
  <2>10. CASE RemoveSource
    <3>. DEFINE plan == Head(call.plans)
    <3>1. call \in PatchCalls /\ call.step = "renaming" /\ call.plans # <<>> /\ plan.source # Absent
      BY <2>10, CallSorts DEF RemoveSource, PlanInv
    <3>2. call.patch \in Seq(FilePatch) /\ call.before \in Files
      BY <3>1, FileToolsAssumption DEF PatchCalls
    <3>3. CASE Refused
      BY <2>3, <3>3
    <3>4. CASE ~Refused
      <4>1. disk' = [disk EXCEPT ![plan.source] = Absent] /\ UNCHANGED others /\ PlanDone
        BY <2>10, <3>4 DEF RemoveSource
      <4>2. call'.others = call.others
        BY <3>1, <4>1, PlanDoneMoves DEF PatchMoved
      <4>3. CASE ~Undisturbed
        BY <4>1, <4>2, <4>3 DEF PatchInv, OnPatch, Undisturbed
      <4>4. CASE Undisturbed
        <5>1. /\ Done \in Nat
              /\ \A k \in 1..Len(call.plans) :
                   call.plans[k] = Planned(call.patch[Done + k], call.before)
          BY <3>1, <4>4 DEF PatchInv, OnPatch
        <5>2. /\ call'.step \in {"applying", "answering"} /\ Done' = Done + 1
              /\ call'.patch = call.patch /\ call'.before = call.before
              /\ \A k \in 1..Len(call'.plans) :
                   call'.plans[k] = Planned(call'.patch[Done' + k], call'.before)
              /\ call'.step = "answering" => call'.plans = << >>
          BY <3>1, <4>1, <5>1, PlanDoneKeeps
        <5>3. Done + 1 <= Len(call.patch) /\ plan = Planned(call.patch[Done + 1], call.before)
          BY <3>1, <5>1, PlanInHand
        <5>4. ASSUME NamesApart(call.patch)
              PROVE  CarriedOut(call.patch, Done + 1, call.before, disk')
          <6>1. PICK files \in Files :
                   /\ CarriedOut(call.patch, Done, call.before, files)
                   /\ disk = [files EXCEPT ![plan.target] = plan.content]
            BY <3>1, <4>4, <5>4 DEF PatchInv, OnPatch
          <6>. QED  BY <3>1, <3>2, <4>1, <5>1, <5>3, <5>4, <6>1, OneMoreCarriedOut
        <5>5. disk' \in Files
          BY <2>0, <4>1 DEF Files
        <5>. QED  BY <5>1, <5>2, <5>4, <5>5 DEF PatchInv, OnPatch
      <4>. QED  BY <4>3, <4>4
    <3>. QED  BY <3>3, <3>4
  <2>11. CASE Written \/ AnswerPatch \/ Drop
    BY <2>1, <2>11 DEF Written, AnswerPatch, Drop
  <2>12. CASE LateWrite \/ OtherProgram
    <3>1. call' = call /\ others' = others + 1
      BY <2>12 DEF LateWrite, OtherProgram
    <3>2. call.step \in {"planning", "applying", "renaming", "answering"} =>
             call.others \in Nat /\ call.others <= others
      BY CallSorts DEF PlanInv, PatchCalls
    <3>. QED  BY <2>0, <3>1, <3>2 DEF PatchInv, OnPatch, Undisturbed
  <2>13. CASE UNCHANGED vars
    BY <2>2, <2>13 DEF vars
  <2>. QED
    BY <2>4, <2>5, <2>6, <2>7, <2>8, <2>9, <2>10, <2>11, <2>12, <2>13 DEF Next
<1>3. TypeOK /\ PatchInv => PatchIsWhole
  <2>. SUFFICES ASSUME TypeOK, PatchInv PROVE PatchIsWhole
    OBVIOUS
  <2>1. ASSUME call.step = "answering", Undisturbed, NamesApart(call.patch)
        PROVE  disk = Described(call.patch, call.before)
    <3>1. call \in PatchCalls
      BY <2>1, CallSorts
    <3>2. call.patch \in Seq(FilePatch) /\ call.before \in Files
      BY <3>1, FileToolsAssumption DEF PatchCalls
    <3>3. /\ call.plans = << >> /\ disk \in Files
          /\ CarriedOut(call.patch, Done, call.before, disk)
      BY <2>1 DEF PatchInv, OnPatch
    <3>4. Done = Len(call.patch)
      BY <3>2, <3>3 DEF Done
    <3>. QED  BY <3>2, <3>3, <3>4, AllCarriedOut
  <2>2. call.step = "planning" /\ Undisturbed => disk = call.before
    BY DEF PatchInv, OnPatch
  <2>. QED  BY <2>1, <2>2 DEF PatchIsWhole
<1>. QED  BY <1>1, <1>2, <1>3, TypeInvariant, PTL DEF Spec
=============================================================================
