------------------------------ MODULE Settings ------------------------------
(***************************************************************************)
(* What a turn is set up with: the layers of the configuration, the        *)
(* profile of a model and its sampling, the fixed beginning of a context,  *)
(* and the two ways a context that grows too long is cut.                  *)
(* Source: crates/dark-config/src/{resolver,env,value}.rs, dark-cli/src/    *)
(* config.rs, dark-qwen/src/{profile/mod,sampling}.rs, dark-core/src/       *)
(* context/{prefix,tail,compact}.rs.                                       *)
(*                                                                         *)
(* A dotted key is a sequence of words and a word the sequence of its      *)
(* parts between underscores: a.b_c is <<<<"a">>, <<"b", "c">>>>. A TOML    *)
(* document is a function from the keys of its leaves to their values.     *)
(***************************************************************************)
EXTENDS Integers, SequencesExt, FiniteSetsExt

-----------------------------------------------------------------------------
(* The layers of the configuration.                                        *)

Below(key, other) == IsStrictPrefix(key, other)

\* A variable's name: the parts alone, whether a dot or an underscore divides them.
CanonicalEnvName(key) == FlattenSeq(key)

FallbackDottedKey(name) == [k \in DOMAIN name |-> <<name[k]>>]

\* The order of two keys with the same parts: a dot sorts before an underscore.
SortsBefore(key, other) ==
    \E k \in DOMAIN key \intersect DOMAIN other :
        Len(key[k]) < Len(other[k]) /\ \A j \in 1..(k - 1) : key[j] = other[j]

IsSecretKey(key) == Last(key) = <<"token">>

\* Each leaf of a layer replaces the value of that one key.
Overlay(values, layer, source) ==
    [key \in DOMAIN values \union DOMAIN layer |->
        IF key \in DOMAIN layer THEN [value |-> layer[key], source |-> source] ELSE values[key]]

\* The key a variable sets: the first known one that has its name, or a new one.
KeyOfVariable(name, known) ==
    LET named == {key \in known : CanonicalEnvName(key) = name}
    IN  IF named = {} THEN FallbackDottedKey(name)
        ELSE CHOOSE key \in named : \A other \in named \ {key} : SortsBefore(key, other)

\* No two variables set the same key, so their order says nothing.
ApplyEnv(env, values) ==
    LET key(name) == KeyOfVariable(name, DOMAIN values)
        set == {name \in DOMAIN env : name # << >>}
        layer == [k \in {key(name) : name \in set} |->
                     env[CHOOSE name \in set : key(name) = k]]
    IN  Overlay(values, layer, "env")

\* The configuration, or the error that refuses it.
Resolve(sources) ==
    LET files == <<sources.home, sources.project>>
        secrets == \E k \in 1..2 : \E key \in DOMAIN files[k] : IsSecretKey(key)
        defaults == Overlay(<< >>, sources.defaults, "default")
        home == Overlay(defaults, sources.home, "home")
        project == Overlay(home, sources.project, "project")
    IN  IF secrets THEN [error |-> "secret", values |-> << >>]
        ELSE [error |-> "none",
              values |-> Overlay(ApplyEnv(sources.env, project), sources.flags, "flag")]

\* The table a section's owner reads: a leaf keeps out whatever is below it.
UnflattenSection(values, prefix) ==
    LET inside == {key \in DOMAIN values : Below(prefix, key)}
        rest(key) == SubSeq(key, Len(prefix) + 1, Len(key))
        kept == {key \in inside : \A other \in inside : ~Below(other, key)}
    IN  [r \in {rest(key) : key \in kept} |-> values[prefix \o r].value]

\* config set: the person's own file with a known key written to it.
WriteDotted(document, key, value) ==
    [k \in {k \in DOMAIN document : ~Below(key, k)} \union {key} |->
        IF k = key THEN value ELSE document[k]]

WriteValue(sources, key, value) ==
    LET now == Resolve(sources)
        error == IF now.error # "none" THEN now.error
                 ELSE IF key \notin DOMAIN now.values THEN "unknown"
                 ELSE IF \E k \in DOMAIN sources.home : Below(k, key) THEN "not a table"
                 ELSE "none"
    IN  [error |-> error,
         home |-> IF error = "none" THEN WriteDotted(sources.home, key, value) ELSE sources.home]

-----------------------------------------------------------------------------
(* The profile of a model. A pattern is the sequence of its alternatives,  *)
(* each a text; the star at the end of one is dropped.                     *)

ContainsText(id, text) ==
    \E from \in 0..(Len(id) - Len(text)) : SubSeq(id, from + 1, from + Len(text)) = text

Alternative(text) == IF text # << >> /\ Last(text) = "*" THEN Front(text) ELSE text

PatternMatches(pattern, id) == \E k \in DOMAIN pattern : ContainsText(id, Alternative(pattern[k]))

\* The person's profiles stand before the built-in ones, which take the person's roles.
FromToml(overrides, roles, builtin) ==
    [k \in DOMAIN overrides |-> [match |-> overrides[k].match, charts |-> overrides[k].charts, roles |-> roles]]
    \o [k \in DOMAIN builtin |-> [match |-> builtin[k].match, charts |-> builtin[k].charts, roles |-> roles]]

\* The place of the first profile that matches, 0 when none does.
MatchProfile(table, id) ==
    LET matching == {k \in DOMAIN table : PatternMatches(table[k].match, id)}
    IN  IF matching = {} THEN 0 ELSE Min(matching)

AuthorizeCharting(table, id) ==
    LET k == MatchProfile(table, id)
    IN  CASE k = 0 -> "no profile" [] k # 0 /\ table[k].charts -> "granted" [] OTHER -> "refused"

Builtin ==
    <<[match |-> <<<<"Qwen3", "-", "0.6B">>, <<"Qwen3", "-", "1.7B">>>>, charts |-> FALSE],
      [match |-> <<<<"Qwen3", "-", "4B">>, <<"Qwen3", "-", "8B">>>>, charts |-> FALSE],
      [match |-> <<<<"Qwen3", "-", "14B">>, <<"Qwen3", "-", "32B">>,
                   <<"Qwen3", "-", "Coder", "-", "30B", "-", "A3B">>>>, charts |-> TRUE],
      [match |-> <<<<"Qwen3.5", "-", "*">>>>, charts |-> TRUE]>>

\* Temperatures in tenths; a sampling that leaves one out has -1 there.
IsGreedy(sampling) == sampling.temperature = 0 \/ sampling.topK = 1

GuardAgainstGreedyThinking(sampling, thinking) == ~(thinking /\ IsGreedy(sampling))

MicroRoles ==
    [deliberate |-> [think |-> "on", temperature |-> 6, topK |-> -1],
     extract |-> [think |-> "off", temperature |-> 2, topK |-> -1],
     classify |-> [think |-> "off", temperature |-> 0, topK |-> -1],
     narrate |-> [think |-> "off", temperature |-> 4, topK |-> -1]]

ForModel(quant, thinking) ==
    [temperature |-> IF thinking THEN 6 ELSE 7, topK |-> 20,
     presencePenalty |-> IF quant \in {"q2", "q3", "iq2", "iq3"} THEN 7 ELSE -1]

-----------------------------------------------------------------------------
(* The fixed beginning of a context. A part that is left out is "none".     *)

PrefixParts == <<"system", "agents", "environment", "digest", "ticket">>

AssemblePrefix(inputs) ==
    LET given == SelectSeq(PrefixParts, LAMBDA part :
                     part \in {"digest", "ticket"} => inputs[part] # "none")
    IN  [k \in DOMAIN given |-> [text |-> inputs[given[k]], pinned |-> TRUE]]

\* The parts a notice names when the prefix of a turn is not the one before it.
ChangedSince(inputs, previous) == SelectSeq(PrefixParts, LAMBDA part : inputs[part] # previous[part])

-----------------------------------------------------------------------------
(* Cutting a context. A chunk is the number of its tokens.                 *)

EvictChunks(chunks, budget) ==
    FoldLeft(LAMBDA s, chunk :
                 IF s.tokens + chunk <= budget
                 THEN [s EXCEPT !.kept = Append(@, chunk), !.tokens = @ + chunk]
                 ELSE [s EXCEPT !.evicted = Append(@, chunk)],
             [kept |-> << >>, evicted |-> << >>, tokens |-> 0], chunks)

CompactionThreshold(granted) == (granted * 3) \div 4
ShouldCompact(used, granted) == used >= CompactionThreshold(granted)

Unpinned(history) == SelectSeq([k \in DOMAIN history |-> k], LAMBDA k : ~history[k].pinned)

\* The oldest third of what is not pinned, nothing when that is less than three.
SelectFoldRange(history) ==
    LET unpinned == Unpinned(history)
    IN  IF Len(unpinned) < 3 THEN {} ELSE {unpinned[k] : k \in 1..(Len(unpinned) \div 3)}

\* The summary stands where the first folded message stood.
ApplySummary(history, fold, summary) ==
    LET kept == SelectSeq([k \in DOMAIN history |-> k], LAMBDA k : k \notin fold \/ k = Min(fold))
    IN  [j \in DOMAIN kept |-> IF kept[j] \in fold THEN summary ELSE history[kept[j]]]

=============================================================================
