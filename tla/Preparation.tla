------------------------------ MODULE Preparation ------------------------------
(***************************************************************************)
(* Preparing a machine: the directory of a model, the pulls that write it   *)
(* and what is listed, verified and loaded of it; what the doctor says; what *)
(* the tuner recommends; what a request tells the engine.                    *)
(* Source: crates/dark-engine/src/{load,tune,stream,embed},                  *)
(* crates/dark-cli/src/{models,harness,doctor,setup}.rs.                     *)
(*                                                                         *)
(* A file is its stem and its extension; a directory is a function from      *)
(* files to what they hold: the revision they were fetched at, and whether   *)
(* all of it is there.  The hash of a file is the file and what it holds.     *)
(***************************************************************************)
EXTENDS Integers, SequencesExt, FiniteSetsExt

CONSTANTS
    Quants,             \* the quantisations, in the order of their names
    ProgressInterval    \* between two reports of a download

-----------------------------------------------------------------------------
(* Pulling a model.                                                        *)

File(stem, ext) == [stem |-> stem, ext |-> ext]
Manifest == File("manifest", "toml")
Config == File("config", "json")
Tokenizer == File("tokenizer", "json")
Residual == File("residual", "safetensors")
Whole == File("model", "safetensors")

Put(dir, file, content) ==
    [f \in DOMAIN dir \union {file} |-> IF f = file THEN content ELSE dir[f]]

Sha256OfFile(dir, file) == [file |-> file, content |-> dir[file]]

Extension == [uqff |-> "uqff", gguf |-> "gguf", hf |-> "safetensors"]

Primary(format, quant) == IF format = "hf" THEN Whole ELSE File(quant, Extension[format])

PullFiles(format, quant) ==
    CASE format = "uqff" -> <<Primary(format, quant), Residual, Config, Tokenizer>>
      [] format = "gguf" -> <<Primary(format, quant)>>
      [] format = "hf" -> <<Config, Tokenizer, Primary(format, quant)>>

\* A flag names a format or leaves UQFF.
ParseQuantFlag(flag) ==
    IF flag.prefix \in {"uqff", "gguf"} THEN [format |-> flag.prefix, quant |-> flag.rest]
    ELSE [format |-> "uqff", quant |-> flag.rest]

Write(dir, file, content) ==
    <<Put(dir, file, [content EXCEPT !.whole = FALSE]), Put(dir, file, content)>>

\* The directory after each step of a pull: every file is written in place, the
\* manifest with the hash of the primary one last.
Pull(dir, request) ==
    LET fetch(dirs, file) == dirs \o Write(dirs[Len(dirs)], file, [rev |-> request.rev, whole |-> TRUE])
        fetched == FoldLeft(fetch, <<dir>>, PullFiles(request.format, request.quant))
        there == fetched[Len(fetched)]
    IN  fetched \o Write(there, Manifest,
            [whole |-> TRUE, format |-> request.format, quant |-> request.quant,
             sha256 |-> Sha256OfFile(there, Primary(request.format, request.quant))])

\* The directory a repository's files are in: an owner, a slash and a name.
ModelDir(repository) ==
    FlattenSeq([k \in DOMAIN repository |-> IF repository[k] = "/" THEN <<"_", "_">> ELSE <<repository[k]>>])

-----------------------------------------------------------------------------
(* What is installed, and what a load reads.                               *)

Installed(dir) == Manifest \in DOMAIN dir /\ dir[Manifest].whole

Place(file) == SelectInSeq(Quants \o <<"model", "residual">>, LAMBDA stem : stem = file.stem)
WithExtension(dir, ext) == {f \in DOMAIN dir : f.ext = ext}
FirstByName(files) == CHOOSE f \in files : \A g \in files : Place(f) <= Place(g)

PrimaryHash(dir, format) ==
    LET candidates == WithExtension(dir, Extension[format])
    IN  IF candidates = {} THEN "missing" ELSE Sha256OfFile(dir, FirstByName(candidates))

Verify(dir) == PrimaryHash(dir, dir[Manifest].format) = dir[Manifest].sha256

\* Which of the models of a list answers.
Choose(repositories, preferred) ==
    IF preferred # "none" THEN repositories \intersect {preferred}
    ELSE IF Cardinality(repositories) = 1 THEN repositories ELSE {}

WeightFiles(dir) == UNION {WithExtension(dir, Extension[format]) : format \in DOMAIN Extension}
WeightBytesIn(dir, size) == MapThenSumSet(LAMBDA file : size[file], WeightFiles(dir))
ParamsFromWeightBytes(bytes, bits) == (bytes * 8) \div bits
WeightsBytes(params, bits) == (params * bits + 7) \div 8

ShapeIsRead(dir) == Config \in DOMAIN dir /\ dir[Config].whole /\ WeightFiles(dir) # {}

\* The files named to the engine: a shard, every file, or the directory.
SpecFor(dir, format) ==
    LET there == WithExtension(dir, Extension[format])
    IN  IF format = "uqff" /\ there # {} THEN {FirstByName(there)} ELSE there

\* Nothing on this path looks at the hash.
Install(dir) ==
    LET files == SpecFor(dir, dir[Manifest].format)
        sidecars == IF dir[Manifest].format = "uqff" THEN {Residual} ELSE {}
        loads == /\ ShapeIsRead(dir) /\ files # {}
                 /\ \A f \in files \union sidecars \union {Tokenizer} : f \in DOMAIN dir /\ dir[f].whole
    IN  IF loads THEN files ELSE {}

-----------------------------------------------------------------------------
(* The progress of a download: arrivals of bytes after a gap each, and the   *)
(* percentage reported, at a time.                                          *)

ProgressFraction(written, total) == IF total = 0 THEN 0 ELSE Min({(100 * written) \div total, 100})

DrainToFile(arrivals, total) ==
    LET arrive(s, a) ==
            LET now == s.now + a.gap
                written == s.written + a.bytes
                due == now - s.last >= ProgressInterval
            IN  [now |-> now, written |-> written, last |-> IF due THEN now ELSE s.last,
                 reports |-> IF due THEN Append(s.reports, [at |-> now, progress |-> ProgressFraction(written, total)])
                             ELSE s.reports]
        end == FoldLeft(arrive, [now |-> 0, written |-> 0, last |-> 0, reports |-> <<[at |-> 0, progress |-> 0]>>],
                        arrivals)
    IN  Append(end.reports, [at |-> end.now, progress |-> 100])

\* The lines of a pull's percentage, over all its files.
Printed(reports) ==
    FoldLeft(LAMBDA s, r : IF r.progress - s.last >= 1 \/ r.progress >= 100
                           THEN [last |-> r.progress, lines |-> Append(s.lines, r.progress)] ELSE s,
             [last |-> -100, lines |-> << >>], reports).lines

-----------------------------------------------------------------------------
(* What the doctor finds, of a host.                                        *)

Found(status, network) == [status |-> status, network |-> network]
Ok == Found("ok", FALSE)
Warn == Found("warn", FALSE)
Fail(network) == Found("fail", network)
Pending(network) == Found("pending", network)

CheckAccelerator(host) ==
    IF host.variant = "cpu" THEN IF host.accelerator = "none" THEN Ok ELSE Fail(TRUE)
    ELSE IF host.variant = host.accelerator THEN Ok ELSE Warn

CheckMemory(host) == IF host.available < 2 THEN Fail(FALSE) ELSE Ok

CheckModelManifests(models) ==
    IF models = {} THEN Pending(TRUE) ELSE IF "bad" \in models THEN Fail(TRUE) ELSE Ok

CheckLiveGeneration == Pending(TRUE)
CheckMeasuredRate == Pending(FALSE)
CheckEmbeddingVsPacks == Pending(FALSE)

CheckPackHashes(packs) ==
    IF packs = {} THEN Pending(TRUE)
    ELSE IF "unreadable" \in packs THEN Fail(TRUE)
    ELSE IF "stale" \in packs THEN Warn ELSE Ok

CheckInstructionChain(chain) ==
    CASE chain = "unread" -> Fail(FALSE) [] chain = "long" -> Warn [] chain = "clean" -> Ok

CheckTreeSitter(host) == IF host.grammars THEN Ok ELSE Fail(FALSE)
CheckGit(host) == IF host.git THEN Ok ELSE Fail(TRUE)
CheckTerminal(host) ==
    IF host.term = "unset" THEN Fail(FALSE)
    ELSE IF host.term = "dumb" \/ ~host.tty THEN Warn ELSE Ok

Report(host) ==
    <<CheckAccelerator(host), CheckMemory(host), CheckModelManifests(host.models), CheckLiveGeneration,
      CheckMeasuredRate, CheckPackHashes(host.packs), CheckEmbeddingVsPacks,
      CheckInstructionChain(host.chain), CheckTreeSitter(host), CheckGit(host), CheckTerminal(host)>>

HasFailures(report) == \E k \in DOMAIN report : report[k].status = "fail"
OfflineBlocked(report) == \E k \in DOMAIN report : report[k].status # "ok" /\ report[k].network

\* The eight steps of setup: what ecosystem it is and the report are all that runs.
RunSteps(host) == [k \in 1..8 |-> IF k \in {6, 8} THEN "done" ELSE "pending"]
AllDone(steps) == \A k \in DOMAIN steps : steps[k] = "done"

-----------------------------------------------------------------------------
(* What the tuner recommends; the budget in gibibytes.                      *)

BudgetBytes(available) == available - available \div 10
WithHeadroom(bytes) == bytes + bytes \div 10

Classify(device, budget) ==
    IF device = "cpu" THEN "CpuOnly"
    ELSE IF budget < 8 THEN "EntryGpu"
    ELSE IF budget < 16 THEN "MidGpu"
    ELSE IF budget < 24 THEN "HighGpu" ELSE "Workstation"

Profiles ==
    [CpuOnly |-> [model |-> "4B", context |-> 8, thinking |-> FALSE, rounds |-> 12],
     EntryGpu |-> [model |-> "4B", context |-> 16, thinking |-> TRUE, rounds |-> 24],
     MidGpu |-> [model |-> "8B", context |-> 32, thinking |-> TRUE, rounds |-> 24],
     HighGpu |-> [model |-> "14B", context |-> 32, thinking |-> TRUE, rounds |-> 32],
     Workstation |-> [model |-> "32B", context |-> 32, thinking |-> TRUE, rounds |-> 32]]

Recommend(device, total, budget) ==
    [profile |-> Profiles[Classify(device, budget)], shared |-> total < 24]

\* In mebibytes, a context in thousands of tokens; eight heads of 128 in each layer.
KvCacheMiB(layers, context) == layers * 4 * context

-----------------------------------------------------------------------------
(* What a request tells the engine, and the order of a reranking.            *)

ToolChoice(choice, tools) ==
    IF choice \in {"auto", "required"} THEN "auto"
    ELSE IF choice = "none" \/ choice \in tools THEN choice ELSE "invalid"

Thinking == [on |-> "yes", off |-> "no", auto |-> "template"]

Build(req, native) ==
    LET offered == IF native THEN req.tools ELSE {}
    IN  [tools |-> offered,
         choice |-> IF offered = {} THEN "unset" ELSE ToolChoice(req.choice, req.tools),
         top_k |-> IF req.deterministic THEN 1 ELSE req.top_k,
         thinking |-> Thinking[req.think]]

\* The affirmative token's probability: as generated, or among the alternatives.
AffirmativeProbability(answer) ==
    IF answer.token = "yes" THEN answer.prob
    ELSE IF "yes" \in DOMAIN answer.others THEN answer.others["yes"] ELSE -1

Scores(answers) == [k \in DOMAIN answers |-> Max({AffirmativeProbability(answers[k]), 0})]

\* Highest first, then as given.
Rerank(answers) ==
    LET scores == Scores(answers)
    IN  SetToSortSeq(DOMAIN answers,
            LAMBDA a, b : scores[a] > scores[b] \/ (scores[a] = scores[b] /\ a < b))
=============================================================================
