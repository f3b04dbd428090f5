------------------------------ MODULE Foreign ------------------------------
(***************************************************************************)
(* An agent that answers a turn over the Agent Client Protocol: how it is   *)
(* found and started, what its permission requests become, and what its     *)
(* reply becomes on the screen.                                             *)
(* Source: crates/dark-acp/src/{bridge,discover,session}.rs,                 *)
(* crates/dark-cli/src/acp.rs, crates/dark-core/src/policy.                  *)
(*                                                                         *)
(* A path is the sequence of its names below the file system's root.         *)
(***************************************************************************)
EXTENDS Integers, SequencesExt, FiniteSetsExt

None == "none"

-----------------------------------------------------------------------------
(* Finding an agent and starting it.                                       *)

Row(name, native, npx) == [name |-> name, native |-> native, npx |-> npx, reaches_network |-> TRUE]

\* Every row reaches the network; None is a form an agent does not publish.
Known == <<
    Row("claude", None, "claude-agent-acp"),
    Row("opencode", "opencode", "opencode-ai"),
    Row("gemini", "gemini", "gemini-cli"),
    Row("qwen", "qwen", "qwen-code"),
    Row("codex", None, "codex-acp"),
    Row("copilot", None, "copilot-language-server"),
    Row("kiro", "kiro-cli", None),
    Row("hermes", "hermes", None),
    Row("openclaw", "openclaw", "openclaw")>>

KnownNames == {Known[k].name : k \in DOMAIN Known}

Native(program) == [program |-> program, package |-> None, needs_network_to_start |-> FALSE]
Npx(package) == [program |-> "npx", package |-> package, needs_network_to_start |-> TRUE]

\* "path" is the set of programs the machine can run.
Startable(known, path) ==
    known.native \in path \/ (known.npx # None /\ "npx" \in path)

LaunchOf(known, path) ==
    IF known.native \in path THEN Native(known.native) ELSE Npx(known.npx)

Agent(name, launch, reaches) == [name |-> name, launch |-> launch, reaches_network |-> reaches]

Find(path) ==
    LET startable == SelectSeq(Known, LAMBDA known : Startable(known, path))
    IN  [k \in DOMAIN startable |->
            Agent(startable[k].name, LaunchOf(startable[k], path), startable[k].reaches_network)]

FindNamed(name, path) == SelectSeq(Find(path), LAMBDA agent : agent.name = name)

\* What a person who names an agent is told, or "starts".
Named(name, path) ==
    IF FindNamed(name, path) # <<>> THEN "starts"
    ELSE IF name \in KnownNames THEN "not installed" ELSE "no such agent"

CheckDarkMode(agent, dark) ==
    IF ~dark THEN "ok"
    ELSE IF agent.launch.needs_network_to_start THEN "download"
    ELSE IF agent.reaches_network THEN "remote"
    ELSE "ok"

-----------------------------------------------------------------------------
(* A permission request, from the agent to the policy and back.            *)

KindName(kind) ==
    IF kind \in {"allow_once", "allow_always", "reject_once", "reject_always"} THEN kind
    ELSE "unknown"

Ask(title, path, diff, command) ==
    [title |-> title, path |-> path, diff |-> diff, command |-> command]
Titled(title) == Ask(title, None, None, None)

\* What the connection reads of a request: its title alone.
Received(request) == Titled(IF request.title = None THEN "an action" ELSE request.title)

ToPrompt(ask) ==
    IF ask.path # None /\ ask.diff # None
    THEN [kind |-> "write", path |-> ask.path, text |-> ask.diff]
    ELSE IF ask.command # None THEN [kind |-> "exec", path |-> ask.path, text |-> ask.command]
    ELSE [kind |-> "other", path |-> None, text |-> ask.title]

\* The file system: the paths that exist, and where a link among them leads.
RECURSIVE Canonical(_, _)
Canonical(fs, path) ==
    IF path = <<>> THEN <<>>
    ELSE LET here == Append(Canonical(fs, Front(path)), Last(path))
         IN  IF here \in DOMAIN fs.links THEN fs.links[here] ELSE here

NearestExisting(fs, path) ==
    CHOOSE n \in 0..Len(path) :
        /\ Canonical(fs, SubSeq(path, 1, n)) \in fs.there
        /\ \A m \in n + 1..Len(path) : Canonical(fs, SubSeq(path, 1, m)) \notin fs.there

EscapesRoot(fs, path, root) ==
    LET existing == NearestExisting(fs, path)
        resolved == Canonical(fs, SubSeq(path, 1, existing)) \o SubSeq(path, existing + 1, Len(path))
    IN  Canonical(fs, root) \notin fs.there \/ ~IsPrefix(Canonical(fs, root), resolved)

DefaultPolicy == [read |-> "allow", write |-> "confirm", exec |-> "confirm"]

ActionOf(prompt, outside) ==
    CASE prompt.kind = "write" -> [kind |-> "write", outside |-> outside]
      [] prompt.kind = "exec" -> [kind |-> "exec", outside |-> FALSE]
      [] prompt.kind = "other" -> [kind |-> "read", outside |-> FALSE]

\* Policy::classify with the run mode: "interactive", "headless" or "yes".
Classify(policy, action, mode) ==
    IF action.kind = "write" /\ action.outside THEN "deny"
    ELSE IF policy[action.kind] # "confirm" THEN policy[action.kind]
    ELSE CASE mode = "yes" -> "allow" [] mode = "headless" -> "deny" [] mode = "interactive" -> "ask"

\* PolicyDecides::decide; the answer is the person's, if one is asked for.
Decide(policy, prompt, outside, mode, answer) ==
    LET verdict == Classify(policy, ActionOf(prompt, outside), mode)
    IN  IF verdict = "allow" \/ (verdict = "ask" /\ answer # "deny") THEN "once" ELSE "deny"

Wanted == [always |-> <<"allow_always", "allow_once">>, once |-> <<"allow_once">>,
           deny |-> <<"reject_once", "reject_always">>]

\* The place of the option that carries out "allow", or 0: the request is cancelled.
ChosenOption(allow, kinds) ==
    LET offered == SelectSeq(Wanted[allow], LAMBDA kind : kind \in Range(kinds))
    IN  IF offered = <<>> THEN 0 ELSE Min({k \in DOMAIN kinds : kinds[k] = offered[1]})

\* The whole request: what the agent is told, as the kind of the option it is given.
Answered(request, mode, answer) ==
    LET kinds == [k \in DOMAIN request.options |-> KindName(request.options[k])]
        allow == Decide(DefaultPolicy, ToPrompt(Received(request)), FALSE, mode, answer)
        chosen == ChosenOption(allow, kinds)
    IN  IF chosen = 0 THEN "cancelled" ELSE kinds[chosen]

-----------------------------------------------------------------------------
(* The reply.  An update is what the agent reports; the bus may lose a      *)
(* delta, and the printer may not be able to write the transcript.          *)

Update(kind, text) == [kind |-> kind, text |-> text]

\* What the handler sends on the bus, and what it keeps as the reply: a thought and a
\* tool are notices, a plan is nothing.
Deltas(updates) == SelectSeq(updates, LAMBDA u : u.kind = "message")
Said(updates) == FlattenSeq([k \in DOMAIN Deltas(updates) |-> Deltas(updates)[k].text])

\* The printer ends at the turn's end, or with the first delta it cannot record.
Streamed(deltas, lost, unwritable) ==
    LET received == SelectSeq([k \in DOMAIN deltas |-> [at |-> k, text |-> deltas[k].text]],
                              LAMBDA d : d.at \notin lost)
        seen == SubSeq(received, 1, Min({unwritable, Len(received)}))
    IN  FlattenSeq([k \in DOMAIN seen |-> seen[k].text])

Printed(updates, lost, unwritable) ==
    LET streamed == Streamed(Deltas(updates), lost, unwritable)
    IN  IF streamed = <<>> THEN Said(updates) ELSE streamed

=============================================================================
