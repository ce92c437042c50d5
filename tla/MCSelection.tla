----------------------------- MODULE MCSelection -----------------------------
\* Four tools, of which more than two allowed ones are scored, at most three are
\* kept and two are asked about first; a choice shows two, a workflow exposes two.
EXTENDS Evaluation

MCTools == 1..5
MCEffect == [t \in MCTools |-> IF t \in {1, 3} THEN "read" ELSE "write"]
Text(name, title, rest) == [name |-> name, title |-> title, aliases |-> {}, tags |-> rest,
                            description |-> rest]
MCWords == << Text({"get"}, {}, {"woku"}), Text({"woku"}, {}, {}), Text({}, {"get"}, {"woku"}),
              Text({"get", "woku"}, {}, {}), Text({}, {}, {}) >>

Request(kinds, cores, limits) ==
    [kind : kinds, core : cores, limit : limits, external : {TRUE},
     allowed : {{}, {2}, {1, 3}, {1, 2, 3}, 1..4}, query : {{"get"}, {"get", "woku"}}]
One(kind, external, allowed, query) ==
    [kind |-> kind, core |-> "go", limit |-> None, external |-> external, allowed |-> allowed,
     query |-> query]
MCRequests ==
    Request({"choice", "binary"}, {"go"}, {None}) \cup Request({"workflow"}, {"go", "rust"}, {None, 1, 2})
    \cup {One("choice", FALSE, {1}, {"get"}), One("binary", TRUE, {1, 9}, {"get"}),
          One("choice", TRUE, {1, 2, 3}, {"none"}),
          One("workflow", TRUE, {1}, {"get", "woku", "other"})}

\* Distributions over n candidates and none, with a choice at the top or not, and
\* answers that are not one.
Points == {0, 5, 15, 25, 30, 40, 50, 60, 70, 85, 100}
Spread(n) == {p \in [0..n -> Points] : MapThenSumSet(LAMBDA o : p[o], 0..n) = 100}
Spreads == [n \in 1..3 |-> Spread(n)]
Reply(choice, p, sound) == [choice |-> choice, p |-> p, sound |-> sound]
MCReplies(n) ==
    {Reply(c, p, TRUE) : c \in {0, 1}, p \in Spreads[n]}
    \cup {Reply(1, [o \in 0..n |-> IF o = 1 THEN 85 ELSE 0], TRUE),
          Reply(1, [o \in 1..n |-> IF o = 1 THEN 100 ELSE 0], TRUE),
          Reply(0, [o \in 0..n |-> IF o = 0 THEN 100 ELSE 0], FALSE)}

\* A second preparation is about one tool.  Records 1 and 2 exist; a case asks for each
\* kind of write, or what is known of record 1.
MCAgain == {r \in MCRequests : /\ r.kind = "workflow" /\ r.core = "go" /\ r.limit # None
                               /\ r.allowed = {2} /\ r.query = {"get"}}
MCDoes == <<"find", "update", "get", "delete", "create">>
MCBusiness == [i \in 1..5 |-> IF i <= 2 THEN "was" ELSE None]
Case(goal, tool, target, content, steps, facts, relations, instead, patterns) ==
    [goal |-> goal, tool |-> tool, target |-> target, content |-> content, steps |-> steps,
     entities |-> {1}, facts |-> facts, relations |-> relations, instead |-> instead,
     patterns |-> patterns]
Find == Step(1, {3}, None, None, {1}, {})
Get == Step(3, {}, 1, None, {}, {1})
MCCases ==
    { Case("read", None, None, None, <<Find, Get>>, {"was"}, {<<1, "was">>}, {<<1, "listed">>}, "replaced"),
      Case("update", 2, 1, "new", <<Find, Get, Step(2, {}, 1, "new", {}, {1})>>, {}, {}, None, "fewer"),
      Case("delete", 4, 1, None, <<Find, Step(4, {}, 1, None, {}, {1})>>, {}, {}, None, "kept"),
      Case("create", 5, None, "new", <<Find, Step(5, {}, None, "new", {}, {})>>, {}, {}, None, "replaced") }
\* The cell before may have left its update running.
MCStray == {<<2, 1, "bad">>}
=============================================================================
