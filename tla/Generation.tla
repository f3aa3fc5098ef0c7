---------------------------- MODULE Generation -----------------------------
(***************************************************************************)
(* How a candidate of the multi-turn runner comes about, one level below    *)
(* MultiTurn: the calls of the generator with their retries, the bundle     *)
(* parsed from the answer and merged into the base, and the task directory, *)
(* which is rewritten one file at a time and may be left half written by a  *)
(* death (runner.py _call_llm and _prepare_candidate, bundle.py).           *)
(***************************************************************************)
EXTENDS Naturals, FiniteSets

CONSTANTS
    Logic,      \* editable_paths: the files an answer may write
    Fixed,      \* the files of the scaffold it may not
    Contents,   \* what a file may hold, [code |-> n, note |-> n]; code 0 carries
                \* an <LLM-TODO: marker, note stands for its comments
    Retries,    \* llm_transient_retries
    MaxAnswers, \* bound on the accepted answers
    MaxKills,   \* bound on the deaths
    MaxResumes  \* bound on the resumes after a death or a pause

VARIABLES
    tree,    \* the sources in the task directory
    kept,    \* best.json or, before it, the repair base; NoBundle at first
    from,    \* base.json
    cand,    \* candidate.json, once the pending phase is EVAL
    target,  \* the bundle restore_bundle is writing
    then,    \* and what follows when it is written
    step,    \* the next step of the process, "down" without one
    calls,   \* [asked |-> first or retried prompt, retry |-> transport retries]
    wrote,   \* the files of the last accepted answer
    whole,   \* the scaffold and the candidates that were once completely there
    count    \* [answers, kills, resumes]

vars == <<tree, kept, from, cand, target, then, step, calls, wrote, whole,
          count>>

Marker == [code |-> 0, note |-> 0]
Stable == [code |-> 1, note |-> 0]
Scaffold == [p \in Logic \cup Fixed |-> IF p \in Logic THEN Marker ELSE Stable]
NoBundle == [p \in {} |-> Stable]
FirstCall == [asked |-> 1, retry |-> 0]

Init ==
    /\ tree = Scaffold /\ from = Scaffold /\ whole = {Scaffold} /\ wrote = {}
    /\ kept = NoBundle /\ cand = NoBundle /\ target = NoBundle /\ then = "none"
    /\ step = "call" /\ calls = FirstCall
    /\ count = [answers |-> 0, kills |-> 0, resumes |-> 0]

-----------------------------------------------------------------------------
(* A call that fails is repeated; one whose answer is cut off is repeated    *)
(* once with a shorter prompt.  A failure leaves the directory as it is.     *)
Pause == step' = "down" /\ UNCHANGED calls

TransportFails ==
    /\ step = "call"
    /\ IF calls.retry < Retries
       THEN calls' = [calls EXCEPT !.retry = @ + 1] /\ UNCHANGED step
       ELSE Pause
    /\ UNCHANGED <<tree, kept, from, cand, target, then, wrote, whole, count>>

(* No content, or artifacts that cannot be saved.                            *)
AnswerLost ==
    /\ step = "call" /\ Pause
    /\ UNCHANGED <<tree, kept, from, cand, target, then, wrote, whole, count>>

AnswerTruncated ==
    /\ step = "call"
    /\ IF calls.asked = 1
       THEN calls' = [asked |-> 2, retry |-> 0] /\ UNCHANGED step
       ELSE Pause
    /\ UNCHANGED <<tree, kept, from, cand, target, then, wrote, whole, count>>

-----------------------------------------------------------------------------
(* An answer writes some files and deletes others (bundle.py).               *)
Answers == [files : UNION {[S -> Contents] : S \in SUBSET (Logic \cup Fixed)},
            delete : SUBSET (Logic \cup Fixed)]

ParseFileBundle(a) ==
    /\ a.files # NoBundle
    /\ DOMAIN a.files \subseteq Logic /\ a.delete \subseteq Logic
    /\ DOMAIN a.files \cap a.delete = {}

HasMarker(bundle) == \E p \in DOMAIN bundle : bundle[p].code = 0
ValidateLogicBundle(a) == DOMAIN a.files = Logic
ValidateInitialBundle(bundle) == DOMAIN bundle = Logic \cup Fixed /\ ~HasMarker(bundle)

Merged(base, a) ==
    [p \in (DOMAIN base \ a.delete) \cup DOMAIN a.files |->
        IF p \in DOMAIN a.files THEN a.files[p] ELSE base[p]]

(* (Faulty variant: an answer may complete a marked base in part.)           *)
AcceptedInPart(base, a) ==
    ParseFileBundle(a) /\ ValidateInitialBundle(Merged(base, a))

(* A base with a marker in it asks for every logic file at once.             *)
Accepted(base, a) ==
    /\ ParseFileBundle(a)
    /\ HasMarker(base) => ValidateLogicBundle(a)
    /\ ValidateInitialBundle(Merged(base, a))

Restore(bundle, next) == target' = bundle /\ then' = next /\ step' = "restore"

AnswerMerged ==
    /\ step = "call" /\ count.answers < MaxAnswers
    /\ \E a \in Answers :
         /\ Accepted(from, a)
         /\ Restore(Merged(from, a), "checkpoint")
         /\ wrote' = DOMAIN a.files
    /\ count' = [count EXCEPT !.answers = @ + 1]
    /\ UNCHANGED <<tree, kept, from, cand, calls, whole>>

(* Text that is no bundle at all, or a bundle that is not accepted.          *)
AnswerRejected ==
    /\ step = "call"
    /\ Restore(from, "down")
    /\ UNCHANGED <<tree, kept, from, cand, calls, wrote, whole, count>>

(* restore_bundle: a file at a time, each by a rename.                       *)
WriteFile ==
    /\ step = "restore"
    /\ \E p \in DOMAIN target :
         /\ tree[p] # target[p]
         /\ tree' = [tree EXCEPT ![p] = target[p]]
    /\ whole' = IF tree' = target /\ then = "checkpoint" THEN whole \cup {target} ELSE whole
    /\ UNCHANGED <<kept, from, cand, target, then, step, calls, wrote, count>>

Restored ==
    /\ step = "restore" /\ tree = target
    /\ step' = then
    /\ UNCHANGED <<tree, kept, from, cand, target, then, calls, wrote, whole, count>>

(* What capture_bundle reads back is the candidate.                          *)
Checkpoint ==
    /\ step = "checkpoint"
    /\ cand' = tree /\ step' = "compare"
    /\ UNCHANGED <<tree, kept, from, target, then, calls, wrote, whole, count>>

-----------------------------------------------------------------------------
(* A candidate with the code of its base is a no-op.  The others are         *)
(* evaluated and kept, or the base is restored, also when the evaluator      *)
(* itself failed.                                                            *)
SemanticBundleHash(bundle) == [p \in DOMAIN bundle |-> bundle[p].code]

NoOp ==
    /\ step = "compare" /\ SemanticBundleHash(cand) = SemanticBundleHash(from)
    /\ Restore(from, "call") /\ cand' = NoBundle /\ calls' = FirstCall
    /\ UNCHANGED <<tree, kept, from, wrote, whole, count>>

Evaluates == step = "compare" /\ SemanticBundleHash(cand) # SemanticBundleHash(from)

Keep ==
    /\ Evaluates
    /\ kept' = cand /\ from' = cand /\ cand' = NoBundle
    /\ step' = "call" /\ calls' = FirstCall
    /\ UNCHANGED <<tree, target, then, wrote, whole, count>>

RollBack ==
    /\ Evaluates /\ kept # NoBundle
    /\ Restore(from, "call") /\ cand' = NoBundle /\ calls' = FirstCall
    /\ UNCHANGED <<tree, kept, from, wrote, whole, count>>

(* The candidate stays pending: its round is taken up again.                 *)
EvaluatorFails ==
    /\ Evaluates
    /\ Restore(from, "down")
    /\ UNCHANGED <<tree, kept, from, cand, calls, wrote, whole, count>>

-----------------------------------------------------------------------------
Die ==
    /\ step # "down" /\ count.kills < MaxKills
    /\ step' = "down" /\ count' = [count EXCEPT !.kills = @ + 1]
    /\ UNCHANGED <<tree, kept, from, cand, target, then, calls, wrote, whole>>

(* _resume_state restores what is recorded and otherwise takes the directory *)
(* as it finds it; a candidate under evaluation comes back with its base.    *)
ResumeBase == IF kept # NoBundle THEN kept ELSE tree

Resume ==
    /\ step = "down" /\ count.resumes < MaxResumes
    /\ count' = [count EXCEPT !.resumes = @ + 1]
    /\ calls' = FirstCall
    /\ IF cand # NoBundle
       THEN Restore(cand, "compare") /\ UNCHANGED from
       ELSE Restore(ResumeBase, "call") /\ from' = ResumeBase
    /\ UNCHANGED <<tree, kept, cand, wrote, whole>>

Next ==
    \/ TransportFails \/ AnswerLost \/ AnswerTruncated \/ AnswerMerged \/ AnswerRejected
    \/ WriteFile \/ Restored \/ Checkpoint
    \/ NoOp \/ Keep \/ RollBack \/ EvaluatorFails \/ Die \/ Resume

Spec == Init /\ [][Next]_vars

-----------------------------------------------------------------------------
(* What is compared and evaluated is a complete project without markers,     *)
(* with the fixed files of the scaffold, and it is what the directory holds. *)
JudgedIsWhole ==
    step = "compare" =>
       /\ tree = cand /\ ValidateInitialBundle(cand)
       /\ \A p \in Fixed : cand[p] = Scaffold[p]

(* Over one death anywhere, no candidate mixes the files of two bundles:     *)
(* what its answer did not write is from one bundle that was once completely *)
(* in the directory.  A directory left half written is recorded nowhere      *)
(* before the first candidate is, and the markers it still has make the next *)
(* answer complete (bundle.py:157, runner.py:1140).                          *)
NeverMixed ==
    step = "restore" /\ then = "checkpoint" =>
       \E b \in whole : \A p \in Logic \ wrote : target[p] = b[p]
=============================================================================
