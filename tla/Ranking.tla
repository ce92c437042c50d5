------------------------------- MODULE Ranking -------------------------------
(***************************************************************************)
(* How a core turns a catalog, an actor and the selector's answers into a  *)
(* tool, a choice or a workflow's tools: retrieve, DecodeChoice, the two   *)
(* passes of selectTools, reduceBinary, decodeWorkflow and exposeWorkflow. *)
(* A tool is its position in the catalog, which is sorted by tool_id; a    *)
(* text is its set of tokens; a probability is a percentage.  An option is *)
(* 0 ("none", "no") or i ("t%04d" of the i-th candidate; 1 for "yes").     *)
(***************************************************************************)
EXTENDS Sorting, Sequences, FiniteSetsExt, SequencesExt

CONSTANTS Tools,        \* 1..n
          Effect,       \* [Tools -> {"read", "write", "destructive"}]
          Words,        \* Words[t][field]: the tokens of a field of t
          QueryLimit,   \* most tokens of a query: 256
          ScoreFrom,    \* no scoring up to so many allowed tools: 32
          Kept,         \* most candidates: 64
          FirstPass,    \* most candidates of a first question: 32
          Shown,        \* most candidates of a choice: 5
          MostExposed,  \* most operations of a workflow: 8
          None

ASSUME RankingAssumption ==
    /\ {QueryLimit, ScoreFrom, Kept, FirstPass, Shown, MostExposed} \subseteq Nat \ {0}
    /\ Tools \subseteq Nat \ {0}
    /\ ScoreFrom <= Kept /\ Shown >= 2
    /\ Effect \in [Tools -> {"read", "write", "destructive"}]
    /\ None \notin Nat \cup Seq(Int)

Score(t, query) ==
    LET hits(field) == Cardinality(Words[t][field] \cap query) IN
    10 * hits("name") + 5 * hits("aliases") + 3 * hits("title") + 2 * hits("tags")
        + hits("description")

Take(n, s) == IF Len(s) <= n THEN s ELSE SubSeq(s, 1, n)
ById(tools) == Arranged(tools, [t \in tools |-> 0], [t \in tools |-> t])

\* Seeded fault: of equal scores the catalog's last comes first, and the worst
\* are kept.
BestLast(tools, query) ==
    Arranged(tools, [t \in tools |-> Score(t, query)], [t \in tools |-> -t])
\* Score descending, then tool_id.
BestFirst(tools, query) ==
    Arranged(tools, [t \in tools |-> -Score(t, query)], [t \in tools |-> t])

\* The candidates among the allowed tools; the caller has checked the query.
Retrieve(allowed, query) ==
    IF Cardinality(allowed) <= ScoreFrom THEN ById(allowed)
    ELSE Take(Kept, BestFirst({t \in allowed : Score(t, query) > 0}, query))

Total(p) == MapThenSumSet(LAMBDA o : p[o], DOMAIN p)

\* The answer of the selector to a question with these options: `sound` stands
\* for one answer of type "choice" with a confidence and a model.
Decodes(raw, options) ==
    /\ raw.sound
    /\ raw.choice \in options
    /\ DOMAIN raw.p = options
    /\ \A o \in options : raw.p[o] \in 0..100 /\ raw.p[o] <= raw.p[raw.choice]
    /\ Total(raw.p) = 100

\* What a tool must reach, and by how much it must lead.
Bar(t) == IF Effect[t] = "read" THEN [threshold |-> 70, margin |-> 15]
                                ELSE [threshold |-> 85, margin |-> 25]
Confident(t, p, second) == p >= Bar(t).threshold /\ p - second >= Bar(t).margin

Selected(t) == [kind |-> "selected", tool |-> t]
NoMatch(reason) == [kind |-> "no_match", reason |-> reason]
Failure(code) == [kind |-> "error", code |-> code]
\* One candidate is no choice.
Choose(tools) == IF Len(tools) < 2 THEN NoMatch("selector_abstained")
                 ELSE [kind |-> "needs_choice", tools |-> Take(Shown, tools)]

\* Options of an answer, the most probable first; "none" sorts before "t0001".
Ranked(p, options) == Arranged(options, [o \in options |-> -p[o]], [o \in options |-> o])

\* One question about all of `subset`; None asks for the second pass.
Judge(subset, p, last) ==
    LET order == Ranked(p, DOMAIN p)
        others == Ranked(p, DOMAIN p \ {0})
        top == order[1]
        second == IF Len(order) > 1 THEN p[order[2]] ELSE 0
    IN IF top # 0 /\ Confident(subset[top], p[top], second) THEN Selected(subset[top])
       ELSE IF ~last THEN None
       ELSE IF top = 0 THEN NoMatch("selector_abstained")
       ELSE Choose([i \in DOMAIN others |-> subset[others[i]]])

\* Seeded fault: equal answers keep the order of the candidates.
PositivesInPlace(tools, answers) ==
    LET yes == {i \in DOMAIN tools : answers[i].choice = 1} IN
    Arranged(yes, [i \in yes |-> -answers[i].p[1]], [i \in yes |-> i])
\* The candidates with a positive answer, the most probable first, then by ID.
Positives(tools, answers) ==
    LET yes == {i \in DOMAIN tools : answers[i].choice = 1} IN
    Arranged(yes, [i \in yes |-> -answers[i].p[1]], [i \in yes |-> tools[i]])

\* Seeded fault: the other candidates' answers are not compared.
OwnNo(answers, order) == answers[order[1]].p[0]
\* What the first positive must lead: its own "none" and the next positive.
RunnerUp(answers, order) ==
    LET no == answers[order[1]].p[0]
        next == IF Len(order) > 1 THEN answers[order[2]].p[1] ELSE no
    IN IF next > no THEN next ELSE no

\* One question per candidate.
ReduceBinary(tools, answers) ==
    LET order == Positives(tools, answers) IN
    IF order = <<>> THEN NoMatch("selector_abstained")
    ELSE IF Confident(tools[order[1]], answers[order[1]].p[1], RunnerUp(answers, order))
    THEN Selected(tools[order[1]])
    ELSE Choose([k \in DOMAIN order |-> tools[order[k]]])

\* The tools a workflow includes: a yes that reaches the tool's threshold, whatever
\* the others have.
Included(tools, answers) ==
    {tools[i] : i \in {j \in DOMAIN tools : /\ answers[j].choice = 1
                                            /\ answers[j].p[1] >= Bar(tools[j]).threshold}}

\* Seeded fault: the cap is applied to the candidates' order.
ExposeRanked(included, candidates, limit) ==
    LET order == SelectSeq(candidates, LAMBDA t : t \in included)
    IN IF limit = None THEN order ELSE Take(limit, order)
\* The first of them by ID, up to the limit of the request.
Expose(included, candidates, limit) ==
    IF limit = None THEN ById(included) ELSE Take(limit, ById(included))

\* The status, and an operation for each exposed tool; all or none.
WorkflowView(exposed, count) ==
    [kind |-> "workflow", count |-> count,
     status |-> IF exposed = <<>> THEN "no_match"
                ELSE IF Len(exposed) > MostExposed THEN "needs_refinement" ELSE "prepared",
     operations |-> IF Len(exposed) > MostExposed THEN <<>> ELSE exposed]

\* catalogIndices
Indices(tools) == [i \in DOMAIN tools |-> tools[i] - 1]
=============================================================================
