------------------------------ MODULE PlanText ------------------------------
(***************************************************************************)
(* The text of plan.md: what create_plan.py accepts, how PlanStore writes  *)
(* and settles it line by line, and how every reader parses it back.       *)
(*                                                                         *)
(* A line is a record: its kind and the parts the parsers look at.  A      *)
(* description says of its text what some code tells apart: whether it is  *)
(* short or an identifier, which classes of words it has, whether it runs  *)
(* over a line end ("break"), and whether it holds the ACTIVE marker       *)
(* ("active") or the two words of the table head ("head").  A rationale is *)
(* its length class; "broken" is long enough, but not its first line.      *)
(***************************************************************************)
EXTENDS Integers, SequencesExt, FiniteSetsExt

CONSTANTS
  Descs,     \* the descriptions an agent writes: [short, spaced, words, marks]
  Reasons,   \* the rationales: a set of "short", "fits", "long", "broken"
  Decisions, \* the decisions of a round
  MaxItems,  \* bound on the items of a plan
  MaxPlans   \* bound on the versions of the plan

VARIABLES
  text,      \* plan.md, <<>> when there is none
  nextPid    \* progress.next_pid, 0 before the first plan
vars == <<text, nextPid>>


-----------------------------------------------------------------------------
(* create_plan.py: what is accepted *)

\* An <item>: its sub-elements in order, with their texts.
Items == [tags : {<<"desc", "rationale">>, <<"desc">>, <<"desc", "desc">>,
                  <<"desc", "rationale", "keywords">>},
          desc : Descs, rationale : Reasons]

\* _parse_items_xml: known elements, each once.
Parsed(item) == IsInjective(item.tags) /\ Range(item.tags) \subseteq {"desc", "rationale"}

\* _validate_items: both there, a sentence, and enough of a rationale.
Complete(item) ==
  /\ {"desc", "rationale"} \subseteq Range(item.tags)
  /\ ~item.desc.short /\ item.desc.spaced
  /\ item.rationale # "short"

\* _check_diversity: a phrase of tuning, or nothing but words of tuning.
ParamOnly(d) ==
  /\ d.words \ {"stop"} # {}
  /\ "phrase" \in d.words \/ "content" \notin d.words

Diverse(items) == Quantify(DOMAIN items, LAMBDA i : ParamOnly(items[i].desc)) < Len(items) - 1

\* One item out of line refuses the document as a whole.
Accepted == UNION {{items \in [1..n -> {item \in Items : Parsed(item) /\ Complete(item)}] :
                      Diverse(items)} : n \in 3..MaxItems}

\* 400 characters at most are stored.
Stored(rationale) == IF rationale = "long" THEN "fits" ELSE rationale

-----------------------------------------------------------------------------
(* Lines *)

Plain == [short |-> FALSE, spaced |-> TRUE, words |-> {"content"}, marks |-> {}]

Line(kind) == [kind |-> kind, n |-> 0, done |-> FALSE, active |-> FALSE,
               decision |-> "NONE", desc |-> Plain, rationale |-> "none"]

TitleLine(v) == [Line("title") EXCEPT !.n = v]
ItemLine(pid, active, d) ==
  [Line("item") EXCEPT !.n = pid, !.active = active, !.desc = d]
Row(pid, decision, d) ==
  [Line("row") EXCEPT !.n = pid, !.decision = decision, !.desc = d]

\* "(ACTIVE)" in line
SaysActive(l) == l.active \/ "active" \in l.desc.marks

\* is_settled_table_header: a table line with the words Item and Outcome.
IsTableHead(l) == l.kind = "head" \/ (l.kind = "row" /\ "head" \in l.desc.marks)
InTable(l) == l.kind \in {"head", "rule", "row"}

-----------------------------------------------------------------------------
(* Readers *)

ItemLines(t) == {i \in DOMAIN t : t[i].kind = "item"}
Pending(t) == {i \in ItemLines(t) : ~t[i].done}
Version(t) == IF t = <<>> THEN 0 ELSE t[1].n

\* The rationale sub-line directly below the item.
RationaleOf(t, i) ==
  IF i < Len(t) /\ t[i + 1].kind = "rationale" THEN t[i + 1].rationale ELSE "none"

\* A rationale cut at its first line is below the 30 characters.
Long30(rationale) == rationale \in {"fits", "long"}
Within400(rationale) == rationale # "long"

\* validate_plan
Valid(t) ==
  /\ t # <<>>
  /\ Cardinality(ItemLines(t)) >= 3
  /\ \A i \in Pending(t) : Long30(RationaleOf(t, i)) /\ Within400(RationaleOf(t, i))
  /\ Cardinality({i \in Pending(t) : SaysActive(t[i])}) = 1

\* Faulty variant: the line below the rule is skipped as well.
TableBelowRule(t) ==
  {i \in DOMAIN t : \E h \in 1..(i - 3) : IsTableHead(t[h]) /\ \A j \in h..i : InTable(t[j])}

\* The lines of a table below its head, down to the first that is none.
Table(t) ==
  {i \in DOMAIN t : \E h \in 1..(i - 1) : IsTableHead(t[h]) /\ \A j \in h..i : InTable(t[j])}

\* parse_settled_history: a row that reads like a head is taken for one.
SettledRows(t) ==
  LET kept == {i \in Table(t) : t[i].kind = "row" /\ ~IsTableHead(t[i])}
  IN  [k \in 1..Cardinality(kept) |->
         t[CHOOSE i \in kept : Cardinality({j \in kept : j <= i}) = k]]

\* compute_next_pid: the counter, else one above the numbers on the items.
NextPid(t) ==
  IF nextPid # 0 THEN nextPid ELSE Max({1} \cup {t[i].n + 1 : i \in ItemLines(t)})

-----------------------------------------------------------------------------
(* PlanStore.render and settle_active *)

ItemText(item, pid, active) ==
  LET cut == "break" \in item.desc.marks
      wrapped == Stored(item.rationale) = "broken"
  IN  <<ItemLine(pid, active, item.desc)>>
        \o (IF cut THEN <<Line("rest")>> ELSE <<>>)
        \o <<[Line("rationale") EXCEPT !.rationale = Stored(item.rationale)]>>
        \o (IF wrapped THEN <<Line("rest")>> ELSE <<>>)

Render(version, first, items, rows) ==
  <<TitleLine(version), Line("blank"), Line("section")>>
    \o FlattenSeq([i \in DOMAIN items |-> ItemText(items[i], first + i - 1, i = 1)])
    \o <<Line("blank"), Line("section"), Line("head"), Line("rule")>>
    \o rows \o <<Line("blank")>>

\* Marking an item done takes every ACTIVE marker out of its line.
Checked(l) == [l EXCEPT !.done = TRUE, !.active = FALSE, !.desc.marks = @ \ {"active"}]

\* The next pending item that is not yet ACTIVE.
Advanced(t, at) ==
  LET others == {i \in Pending(t) : i # at /\ ~SaysActive(t[i])}
  IN  IF others = {} THEN t ELSE [t EXCEPT ![Min(others)].active = TRUE]

\* The place of the new row: below the table of the last head, or of the last
\* row that reads like one.
TableEnd(t) ==
  LET head == Max({i \in DOMAIN t : IsTableHead(t[i])})
      below == {i \in (head + 2)..Len(t) : \A j \in (head + 2)..i : InTable(t[j])}
  IN  Min({Len(t) + 1, Max({head + 2} \cup {i + 1 : i \in below})})

\* settle_active of the first line that is pending and says ACTIVE.
SettledText(t, decision) ==
  LET at == Min({i \in Pending(t) : SaysActive(t[i])})
      done == Advanced([t EXCEPT ![at] = Checked(@)], at)
      row == Row(t[at].n, decision, done[at].desc)
  IN  IF \E i \in DOMAIN t : IsTableHead(t[i])
        THEN InsertAt(done, TableEnd(done), row) ELSE done

-----------------------------------------------------------------------------
Init == text = <<>> /\ nextPid = 0

\* create_plan.py: nothing is written unless everything is accepted.
CreatePlan ==
  /\ Version(text) < MaxPlans
  /\ \E items \in Accepted :
       /\ text' = Render(Version(text) + 1, NextPid(text), items, SettledRows(text))
       /\ nextPid' = NextPid(text) + Len(items)

\* The settle step of pipeline.py; without an ACTIVE item it raises.
SettleActive ==
  /\ \E i \in Pending(text) : SaysActive(text[i])
  /\ \E d \in Decisions : text' = SettledText(text, d)
  /\ UNCHANGED nextPid

Next == CreatePlan \/ SettleActive
Spec == Init /\ [][Next]_vars

-----------------------------------------------------------------------------
\* The text read back: the plan record of TaskRecord.
Read(t) ==
  LET items == ItemLines(t)
      rows == SettledRows(t)
  IN  [v |-> Version(t),
       first |-> Min({t[i].n : i \in items} \cup (IF t = <<>> THEN {0} ELSE {})),
       n |-> Cardinality(items),
       done |-> Cardinality(items \ Pending(t)),
       settled |-> [k \in DOMAIN rows |-> [item |-> rows[k].n, decision |-> rows[k].decision]]]

Book == INSTANCE PlanBook WITH plan <- Read(text), PlanSizes <- 3..MaxItems,
          MaxRounds <- 1, FailThreshold <- 1, DiagCap <- 1

\* workflow/planning.py "puts render + parse behind one type so the format
\* can't drift": every write of the text, read back, is a step of the plan
\* record; items keep their order and numbers, one row is added per settled
\* item and no row is ever dropped, over any number of versions.
TextStartsAsPlan == Book!Init
TextStepsAsPlan == Book!Next \/ Read(text') = Read(text)
TextIsPlan == TextStartsAsPlan /\ [][TextStepsAsPlan]_vars

\* post_bash advances the phase only on a plan that validates: what
\* create_plan.py accepted must be readable as a valid plan, or the agent is
\* left in its phase with a plan it believes installed.
PlanValidates == Version(text') # Version(text) => Valid(text')
=============================================================================
