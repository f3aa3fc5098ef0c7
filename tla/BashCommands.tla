---------------------------- MODULE BashCommands ----------------------------
(***************************************************************************)
(* Every command of one or two segments, put to the classifier.            *)
(***************************************************************************)
EXTENDS BashShape

CONSTANTS
  Leads,    \* bound: the first segments that another one may follow
  Tails     \* bound: what may follow them

VARIABLE cmd

Init == cmd = Command(<<>>, FALSE, FALSE)

First == /\ cmd.segs = <<>>
         /\ \E s \in Simple, b \in BOOLEAN, u \in BOOLEAN : cmd' = Command(<<s>>, b, u)

Second == /\ Len(cmd.segs) = 1 /\ cmd.segs[1] \in Leads
          /\ \E s \in Tails, l \in BOOLEAN :
               cmd' = [cmd EXCEPT !.segs = Append(@, s), !.lines = l]

Next == First \/ Second
Spec == Init /\ [][Next]_cmd

\* What the gate, and the hook that moves the phase on, may rely on.  A command
\* taken for a script names that script first, runs it unless a word hides
\* another command in its place, and runs it alone and in the foreground if it
\* is one line and no word hides anything; one line taken for reading runs no
\* script and changes nothing (phase_policy.py:34-42).
ShapeIsTrue ==
  LET shape == Classify(cmd)
      first == cmd.segs[1]
  IN  /\ shape.class \in {"AR", "LIFECYCLE"} =>
           /\ first.script = shape.name /\ ~cmd.substitution
           /\ first.hidden # "instead" => 1 \in Runs(cmd)
           /\ first.hidden = "none" /\ ~cmd.lines => Runs(cmd) = {1} /\ Alone(cmd)
      /\ shape.class = "READONLY" /\ ~cmd.lines =>
           Runs(cmd) = {} /\ \A i \in DOMAIN cmd.segs : ~Changes(cmd.segs[i])

\* Claim (phase_policy.py:389-391): what is taken for a script is exactly one
\* foreground invocation of it.
ScriptRunsAlone ==
  Classify(cmd).class \in {"AR", "LIFECYCLE"} => Runs(cmd) = {1} /\ Alone(cmd)
=============================================================================
