----------------------------- MODULE BashShape ------------------------------
(***************************************************************************)
(* What a Bash command of the agent is taken for, and what it does.        *)
(*                                                                         *)
(* A command is a sequence of simple commands, joined by chain operators   *)
(* or each on a line of its own, perhaps sent to the background, perhaps   *)
(* with a substitution in it.                                              *)
(* Classify is phase_policy.classify, the one authority on the shape of a  *)
(* command: the gate lets it pass and the hook after it believes that a    *)
(* script ran on that ground alone.  Runs, Alone and Changes say what a    *)
(* shell would do with the same command.  The two part where the pattern   *)
(* of a script command takes a word whole that the shell takes apart: an   *)
(* assignment, the value of an interpreter flag, the target of a           *)
(* redirection (any text without blanks), a quote it pairs otherwise.      *)
(***************************************************************************)
EXTENDS Integers, SequencesExt, FiniteSetsExt

\* Where the command-line scripts lie under scripts/.
Location == [baseline |-> "engine", create_plan |-> "engine",
             parse_args |-> "engine", pipeline |-> "engine",
             dashboard |-> "root", resume |-> "root", scaffold |-> "root"]
Blessed == DOMAIN Location
Lifecycle == {"dashboard", "parse_args", "scaffold", "resume"}
Internal == {"eval_kernel", "quick_check", "report"}

\* A simple command.  A field that does not apply has its plain value.
Plain == [env |-> "none", head |-> "read", flag |-> "none", path |-> "scripts",
          dir |-> "root", script |-> "none", git |-> "none", output |-> FALSE,
          redirect |-> FALSE, hidden |-> "none"]

Pythons == {"python", "py", "nohup"}     \* nohup: a wrapper around python
Names == Blessed \cup Internal \cup {"unknown"}

\* env: assignments before the command; tweak: a flag such as -u; version3: -3;
\* short: --version and the like; inline: -c or -m; elsewhere: a longer path.
\* hidden: an operator of the shell inside one word, and with it a command that
\* is neither a script nor for reading, before the script (`A=1;cmd; python`),
\* instead of it (`A=1;cmd python`), or after it (`>log;cmd`, or between quotes);
\* or it sends the script to the background (`>log&`).
Scripted ==
  {s \in [env : {"none", "task", "other"}, head : Pythons,
          flag : {"none", "tweak", "version3", "short", "inline"},
          path : {"scripts", "elsewhere"}, dir : {"engine", "root"},
          script : Names, git : {"none"}, output : {FALSE}, redirect : BOOLEAN,
          hidden : {"none", "before", "instead", "after", "background"}] :
     /\ s.hidden \in {"before", "instead"} => s.env # "none" \/ s.flag = "tweak"
     /\ s.hidden = "background" => s.redirect}

\* look: git log, diff and the like; list: git branch with listing flags only.
Unscripted ==
  {s \in [env : {"none", "task"}, head : {"read", "tool", "git", "export"},
          flag : {"none"}, path : {"scripts"}, dir : {"root"}, script : {"none"},
          git : {"none", "look", "list", "change"}, output : BOOLEAN,
          redirect : BOOLEAN, hidden : {"none"}] :
     /\ s.head = "git" <=> s.git # "none"
     /\ s.head \in {"git", "export"} => s.env = "none"
     /\ s.head = "export" => ~s.output}

Simple == Scripted \cup Unscripted

\* lines: each simple command stands on a line of its own.
Command(segments, background, substitution) ==
  [segs |-> segments, lines |-> FALSE, background |-> background,
   substitution |-> substitution]

-----------------------------------------------------------------------------
(* classify *)

\* Only flags after which the script really runs; the py launcher also takes a
\* version.
FlagRuns(s) == s.flag \in {"none", "tweak"} \/ (s.flag = "version3" /\ s.head = "py")

\* Its name is known and the path leads to it.
InPlace(s) ==
  s.path = "scripts" /\ s.script \in Blessed /\ Location[s.script] = s.dir

\* The words of a simple command as arguments of the one on the line before: the
\* pattern takes a line end for a blank.
TakenForArguments(s) == s.hidden \notin {"before", "instead"}

\* _CANONICAL_AR_RE with the location map: one script in the foreground, its
\* arguments free of shell operators, redirections at the end; what a word may
\* hide the pattern does not see.
Canonical(c) ==
  /\ c.segs # <<>> /\ ~c.background
  /\ LET s == c.segs[1]
     IN  /\ s.head \in {"python", "py"} /\ FlagRuns(s) /\ InPlace(s)
         /\ Len(c.segs) = 1 \/ (c.lines /\ ~s.redirect)
  /\ \A i \in DOMAIN c.segs : i = 1 \/ TakenForArguments(c.segs[i])

\* Faulty variant: git branch may only list.
ReadonlyGitAny(s) == s.git # "none" /\ ~s.output

\* git log, diff and the like; git branch with nothing but listing flags.
ReadonlyGit(s) == s.git \in {"list", "look"} /\ ~s.output

\* _is_readonly_segment: no assignments, no redirection, a head that reads.
Readonly(s) ==
  /\ s.env = "none" /\ ~s.redirect
  /\ \/ s.head = "read" /\ ~s.output
     \/ s.head = "git" /\ ReadonlyGit(s)
     \/ s.head = "export"

Shape(class, name) == [class |-> class, name |-> name]

\* Lines are one segment: only the head of the first is looked at, the rest are
\* its arguments, which git branch and export refuse.
ReadAsOne(c) ==
  /\ Readonly(c.segs[1]) /\ (c.segs[1].head = "read" \/ c.segs[1].git = "look")
  /\ \A i \in DOMAIN c.segs :
       ~c.segs[i].redirect /\ ~c.segs[i].output /\ c.segs[i].hidden = "none"

AllRead(c) ==
  /\ c.segs # <<>>
  /\ IF c.lines THEN ReadAsOne(c) ELSE \A i \in DOMAIN c.segs : Readonly(c.segs[i])

Classify(c) ==
  IF c.substitution THEN Shape("OTHER", "none")
  ELSE IF Canonical(c)
    THEN Shape(IF c.segs[1].script \in Lifecycle THEN "LIFECYCLE" ELSE "AR",
               c.segs[1].script)
  ELSE IF AllRead(c) THEN Shape("READONLY", "none") ELSE Shape("OTHER", "none")

\* parse_invoked_ar_script
Invoked(c) ==
  LET shape == Classify(c)
  IN  IF shape.class \in {"AR", "LIFECYCLE"} THEN shape.name ELSE "none"

\* parse_script_names: every script named anywhere in a command that mentions
\* python by that name, of whatever shape.
ScriptNames(c) ==
  IF \E i \in DOMAIN c.segs : c.segs[i].head \in {"python", "nohup"}
    THEN {c.segs[i].script : i \in DOMAIN c.segs} ELSE {}

\* _script_name_check: a name that is no command-line script.
NameRefused(c) == ScriptNames(c) \cap (Internal \cup {"unknown"}) # {}

\* _activation_target: the word AR_TASK_DIR=... anywhere in the command.
Activates(c) ==
  \E i \in DOMAIN c.segs : c.segs[i].env = "task" \/ c.segs[i].head = "export"

-----------------------------------------------------------------------------
(* What the shell does *)

\* Under Python and under a wrapper alike the file must be there.
Starts(s) ==
  /\ s.head \in Pythons
  /\ s.flag \in {"none", "tweak"} \/ (s.flag = "version3" /\ s.head = "py")
  /\ s.script \in Blessed /\ Location[s.script] = s.dir
  /\ s.hidden # "instead"

\* Where in a command a script runs.
Runs(c) == {i \in DOMAIN c.segs : Starts(c.segs[i])}

\* One simple command in the foreground, and nothing hidden in it.
Alone(c) == Len(c.segs) = 1 /\ ~c.background /\ c.segs[1].hidden = "none"

\* It changes a file or the repository without running one of the scripts.
Changes(s) ==
  \/ s.redirect \/ s.output \/ s.hidden \in {"before", "instead", "after"}
  \/ s.head = "tool"
  \/ s.head = "git" /\ s.git = "change"
  \/ s.head \in Pythons /\ s.flag = "inline"
=============================================================================
