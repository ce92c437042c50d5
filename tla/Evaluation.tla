------------------------------ MODULE Evaluation ------------------------------
(***************************************************************************)
(* A cell of the benchmark, seen from what is said of it afterwards.  In a *)
(* joint mode the provider asks for workflows of which the core tells,     *)
(* beside the view, what became of each tool; answers and diagnostics may  *)
(* be lost, and the client tries once more.  In the direct mode an agent   *)
(* calls the tools themselves, some at once, and is graded by what it did  *)
(* and left behind.                                                        *)
(***************************************************************************)
EXTENDS Selection, Grading

CONSTANTS Does,        \* what a tool does: "find", "get", "update", "create", "delete"
          Cases,       \* the cases of the corpus
          Business,    \* the business's records after a reset
          Again,       \* requests that a second preparation may make
          Stray,       \* writes of the cell before that may still run, as <<tool, id, content>>
          MaxCalls,    \* bounds of the model: calls of a cell, how many an agent has
          MaxAtOnce,   \* running, and how many nobody waits for
          MaxLate

ASSUME EvaluationAssumption ==
    /\ None \notin [retrieved : Seq(Tools), included : Seq(Tools) \cup {None},
                    exposed : Seq(Tools) \cup {None}]
    /\ Again \subseteq {r \in Requests : r.kind = "workflow"}
    /\ Does \in [Tools -> {"find", "get", "update", "create", "delete"}]
    /\ \A t \in Tools : Effect[t] = "read" <=> Does[t] \in {"find", "get"}
    /\ None \notin Ids /\ None \notin Contents
    /\ Business \in [Ids -> Contents \cup {None}]
    /\ IsFiniteSet(Stray) /\ MaxLate \in Nat
    /\ \A s \in Stray :
          /\ s \in Tools \X (Ids \cup {None}) \X (Contents \cup {None})
          /\ Effect[s[1]] # "read" /\ IF Does[s[1]] = "create" THEN s[2] = None ELSE s[2] \in Ids
          /\ IF Does[s[1]] = "delete" THEN s[3] = None ELSE s[3] \in Contents
    /\ \A c \in Cases :
          \* "acyclic dependencies": those of a step are before it.
          /\ c.steps \in Seq([tool : Tools, alternatives : SUBSET Tools, id : Ids \cup {None},
                             content : Contents \cup {None}, shows : SUBSET Ids,
                             dependsOn : SUBSET Nat])
          /\ \A k \in DOMAIN c.steps : c.steps[k].dependsOn \subseteq 1..k - 1
          \* A case asks for a write of its kind, of a record that is there and for a content
          \* that it has not.
          /\ c.goal \in {"read", "update", "create", "delete"}
          /\ c.patterns \in {"kept", "fewer", "replaced"}
          /\ c.goal # "read" => c.tool \in Tools /\ Does[c.tool] = c.goal
          /\ c.goal \in {"update", "delete"} => c.target \in Ids /\ Business[c.target] # None
          /\ c.goal = "update" => c.content \in Contents \ {Business[c.target]}
          /\ c.goal = "create" => c.target = None /\ c.content \in Contents
          /\ c.goal = "delete" => c.content = None

VARIABLES mode,      \* "core", "joint", "direct", then as the record is taken "recorded",
                     \* "traced" and "graded"
          host,      \* the provider's record: [remote, events], and the hops of the
                     \* preparation under way, or None
          history,   \* ghost: what the core did in each attempt of a preparation
          desk       \* the business: [records, calls, trace, running], and ghosts

evaluation == <<mode, host, history, desk>>
allVars == <<vars, evaluation>>

EvaluationInit ==
    /\ Init
    /\ host = [remote |-> <<>>, events |-> <<>>, hops |-> <<>>]
    /\ history = <<>>
    /\ \/ /\ mode = IF Traced THEN "joint" ELSE "core"
          /\ desk = None
       \/ /\ request = CHOOSE r \in Requests : r.kind = "choice"
          /\ mode = "direct"
          /\ \E strays \in SUBSET Stray :
                /\ Cardinality(strays) <= MaxLate
                /\ desk = [records |-> Business, calls |-> <<>>, trace |-> <<>>,
                           running |-> {[tool |-> s[1], id |-> s[2], content |-> s[3], before |-> 0,
                                         awaited |-> FALSE, known |-> FALSE] : s \in strays},
                           shown |-> {}, done |-> <<>>, late |-> Cardinality(strays)]

Core == mode \in {"core", "joint"} /\ Next /\ UNCHANGED evaluation
-----------------------------------------------------------------------------
(* The provider's record of preparations *)

\* The names of a tool's stages, if the header came and is of this catalog.
Names(indices) == [i \in DOMAIN indices |-> indices[i] + 1]
Stages(readable) ==
    IF ~readable \/ trace = None THEN None
    ELSE [retrieved |-> Names(trace.retrieved),
          included |-> IF trace.included = None THEN None ELSE Names(trace.included),
          exposed |-> IF trace.exposed = None THEN None ELSE Names(trace.exposed)]

Exposed == IF Done("workflow") THEN view.operations ELSE <<>>

\* What the core did, whoever learns of it.
Attempt(arrived, readable, stored) ==
    [arrived |-> arrived, readable |-> readable /\ trace # None, delivered |-> stored,
     retrieved |-> ToSet(candidates), asked |-> Done("workflow"),
     included |-> IF Done("workflow") /\ candidates # <<>> THEN Included(candidates, answers) ELSE {},
     shown |-> ToSet(Exposed)]

Rest == /\ stage' = "done" /\ candidates' = <<>> /\ answers' = None /\ trace' = None /\ view' = None

\* The core is asked (again) for `req`.
AskCore(req) ==
    /\ request' = req
    /\ stage' = "new" /\ candidates' = <<>> /\ answers' = None /\ trace' = None /\ view' = None

\* The client makes one more attempt after a refusal that may be over.
Retry(readable) ==
    /\ mode = "joint" /\ host.hops = <<>> /\ Done("error") /\ view.code = "SELECTOR_UNAVAILABLE"
    /\ host' = [host EXCEPT !.hops = <<Stages(readable)>>]
    /\ history' = Append(history, Attempt(TRUE, readable, FALSE))
    /\ AskCore(request)
    /\ UNCHANGED <<mode, desk>>

\* prepareWorkflow() ends: the metric joins the record, whatever happened, and the event
\* gets the exposed tools once they are stored as snapshots.
PrepareEnds(arrived, readable, stored) ==
    LET hops == host.hops \o (IF arrived THEN <<Stages(readable)>> ELSE <<>>)
        n == Len(host.remote)
    IN /\ mode = "joint" /\ view # None
       /\ readable => arrived
       /\ stored => arrived /\ Done("workflow") /\ Accepts(view, request)
       /\ host' = [remote |-> Append(host.remote, hops),
                   events |-> Append(host.events,
                       [remoteStart |-> n, remoteEnd |-> n + 1,
                        exposed |-> IF stored THEN Exposed ELSE <<>>]),
                   hops |-> <<>>]
       /\ history' = Append(history, Attempt(arrived, readable, stored))
       /\ Rest
       /\ UNCHANGED <<mode, request, desk>>

\* The agent asks for another workflow under the cap of its mode.
PrepareAgain ==
    /\ mode = "joint" /\ stage = "done" /\ view = None
    /\ Len(host.events) = 1
    /\ \E req \in Again : req.limit = request.limit /\ AskCore(req)
    /\ UNCHANGED evaluation

Preparation == \/ \E readable \in BOOLEAN : Retry(readable)
               \/ \E arrived, readable, stored \in BOOLEAN : PrepareEnds(arrived, readable, stored)
               \/ PrepareAgain
-----------------------------------------------------------------------------
(* The agent and the business *)

Exists(id) == desk.records[id] # None
Unused(id) == ~Exists(id) /\ Business[id] = None
Targets(t) == IF Does[t] \in {"find", "create"} THEN {None} ELSE {i \in Ids : Business[i] # None}
Writing(t) == IF Does[t] \in {"update", "create"} THEN Contents \ {Business[i] : i \in Ids} ELSE {None}

\* A call of which an agent may know nothing starts; a write alone, reads together.
Call ==
    /\ mode = "direct"
    /\ Len(desk.done) + Cardinality(desk.running) < MaxCalls
    /\ \E t \in Tools : \E id \in Targets(t), content \in Writing(t) :
          LET awaited == {c \in desk.running : c.awaited} IN
          /\ awaited # {} => Effect[t] = "read" /\ \A c \in awaited : Effect[c.tool] = "read"
          /\ Cardinality(awaited) < MaxAtOnce
          /\ desk' = [desk EXCEPT !.running = @ \cup
                 {[tool |-> t, id |-> id, content |-> content, before |-> Len(desk.trace),
                   awaited |-> TRUE, known |-> id # None => id \in desk.shown]}]
    /\ UNCHANGED <<vars, mode, host, history>>

\* What a call that succeeds changes and shows.
Changed(c) ==
    CASE Does[c.tool] = "update" -> [desk.records EXCEPT ![c.id] = c.content]
      [] Does[c.tool] = "delete" -> [desk.records EXCEPT ![c.id] = None]
      [] Does[c.tool] = "create" ->
            [desk.records EXCEPT ![CHOOSE i \in Ids : Unused(i)] = c.content]
      [] OTHER -> desk.records
Tells(c, records) ==
    CASE Does[c.tool] = "find" -> {<<i, "listed">> : i \in {j \in Ids : records[j] # None}}
      [] Does[c.tool] = "delete" -> {<<c.id, "listed">>}
      [] Does[c.tool] = "create" ->
            {<<i, c.content>> : i \in {j \in Ids : records[j] # None /\ ~Exists(j)}}
      [] OTHER -> {<<c.id, records[c.id]>>}

\* A call ends: the business puts it into its trace, the handler pushes it, whichever cell
\* it was of, and who still waits for it sees its result.  A call that nobody waits for may
\* be in no trace of this cell, and a write that is reported as an error may have taken
\* effect.  What was taken of the record before is as it was.
Ends(c, isError, effect, traced) ==
    LET records == IF effect THEN Changed(c) ELSE desk.records
        result == IF isError THEN {} ELSE Tells(c, records)
        entry == [tool |-> c.tool, id |-> c.id, content |-> c.content, before |-> c.before,
                  isError |-> isError, result |-> result]
    IN /\ IF mode = "traced" THEN ~traced ELSE c.awaited => traced
       /\ ~isError => effect = (Effect[c.tool] # "read")
       /\ effect => Effect[c.tool] # "read"
       /\ (~isError \/ effect) /\ c.id # None => Exists(c.id)
       /\ effect /\ Does[c.tool] = "create" => \E i \in Ids : Unused(i)
       /\ desk' = [desk EXCEPT !.records = records, !.running = @ \ {c},
                     !.calls = IF mode = "direct" THEN Append(@, entry) ELSE @,
                     !.trace = IF traced THEN Append(@, entry) ELSE @,
                     !.shown = IF c.awaited THEN @ \cup {pair[1] : pair \in result} ELSE @,
                     !.done = Append(@, [call |-> entry, effect |-> effect,
                                         known |-> isError \/ c.known])]
CallEnds ==
    /\ mode \in {"direct", "recorded", "traced"}
    /\ \E c \in desk.running, isError, effect, traced \in BOOLEAN : Ends(c, isError, effect, traced)
    /\ UNCHANGED <<vars, mode, host, history>>

\* The client's own limit of a call is over; the call goes on.
Abandon(c) ==
    /\ c.awaited
    /\ desk' = [desk EXCEPT !.running = (@ \ {c}) \cup {[c EXCEPT !.awaited = FALSE]}, !.late = @ + 1]
GiveUp ==
    /\ mode = "direct" /\ desk.late < MaxLate
    /\ \E c \in desk.running : Abandon(c)
    /\ UNCHANGED <<vars, mode, host, history>>

\* The conversation ends, or fails; the record is taken, then the trace, then the state,
\* at once where no call can end in between.
TakeRecord ==
    /\ mode \in {"direct", "recorded", "traced"}
    /\ \A c \in desk.running : ~c.awaited
    /\ mode' = CASE desk.running = {} -> "graded"
                 [] mode = "direct" -> "recorded"
                 [] mode = "recorded" -> "traced"
                 [] mode = "traced" -> "graded"
    /\ UNCHANGED <<vars, host, history, desk>>

Agent == Call \/ CallEnds \/ GiveUp \/ TakeRecord

EvaluationNext == Core \/ Preparation \/ Agent

EvaluationSpec == EvaluationInit /\ [][EvaluationNext]_allVars
-----------------------------------------------------------------------------
(* Properties *)

\* "Failed inclusion is not a negative vote": a tool counts as lost where it was lost in
\* what the core really did in the attempts whose answers arrived, and as exposed if and
\* only if the agent was offered it; what is not known of an attempt is not guessed.
LossIsWhereItHappened ==
    mode = "joint" /\ stage = "done" /\ view = None =>
        \A t \in Tools :
            LET label == LossAt(t, host.events, host.remote)
                seen == {history[i] : i \in {j \in DOMAIN history : history[j].arrived}}
                found == {h \in seen : t \in h.retrieved}
            IN /\ label = "exposed" <=> \E h \in seen : h.delivered /\ t \in h.shown
               /\ label # "exposed" =>
                     (label = "unobserved" <=> seen = {} \/ \E h \in seen : ~h.readable)
               /\ label = "preselection" => found = {}
               /\ label = "inclusion_unobserved" => \E h \in found : ~h.asked
               /\ label = "inclusion" => found # {} /\ \A h \in found : h.asked /\ t \notin h.included
               /\ label = "final_cut" => /\ \E h \in found : t \in h.included
                                         /\ \A h \in seen : t \notin h.shown
               /\ label = "delivery_error" => \E h \in seen : t \in h.shown /\ ~h.delivered
               /\ label # "exposure_unobserved"

\* What the agent did, in the order it ended: what a success requires, whatever was
\* reported of the calls.
Earned(case) ==
    LET changes == {i \in DOMAIN desk.done : desk.done[i].effect} IN
    /\ \A i \in DOMAIN desk.done :
          LET d == desk.done[i] IN
          /\ d.known
          /\ Effect[d.call.tool] # "read" =>
                case.goal # "read" /\ d.call.tool = case.tool /\ Subset(d.call, case.target, None)
    /\ CASE case.goal = "read" -> changes = {}
         [] case.goal = "update" -> \E i \in changes : /\ \A j \in changes : j <= i
                                                      /\ desk.done[i].call.content = case.content
         [] OTHER -> \E i \in changes : /\ changes = {i}
                                         /\ desk.done[i].call.content = case.content

Record(answer) ==
    [completed |-> TRUE, answer |-> answer, calls |-> desk.calls, trace |-> desk.trace,
     baseline |-> Business, final |-> desk.records]

\* Where every call was waited for, an agent succeeds if and only if it wrote what it was
\* asked to and attempted no other write, used no identifier before a result had shown it,
\* and saw and said what the case asks for.  The clarifications take a success away only
\* where they replaced the patterns, and give none that was not earned.  The reference
\* path is found wherever it is in the trace; and what v3 calls a success has no write
\* that v2 calls wrong and the change that v2 looks for, whatever calls came late.
GradeIsEarned ==
    mode = "graded" =>
        \A case \in Cases :
            LET v2 == GradeV2(desk.calls, case)
                earned == Earned(case)
            IN /\ desk.late = 0 =>
                     \A answer \in Answers(case) :
                         LET record == Record(answer) IN
                         /\ Evaluate(record, case) <=>
                               /\ CompleteAnswer(record, case)
                               /\ EvidenceFacts(record, case) /\ Relations(record, case)
                               /\ \A e \in case.entities : Shows(Evidence(desk.trace), e)
                               /\ earned
                         /\ FinalEvaluate(record, case) => earned
                         /\ Evaluate(record, case) /\ ~FinalEvaluate(record, case) =>
                               case.patterns = "replaced" /\ ~answer.clarified
               /\ CompleteSequence(desk.trace, case.steps) <=>
                     \E f \in [DOMAIN case.steps -> DOMAIN desk.trace] :
                         \A k \in DOMAIN case.steps : Fits(desk.trace, case.steps[k], f[k], f)
               /\ case.goal # "read" /\ WorkflowSuccess(Record(None), case) =>
                     /\ v2.wrongMutationCalls = {} /\ PersistedMutation(case, desk.records)
                     /\ desk.late = 0 => v2.eventualToolCorrect /\ v2.exactArguments
=============================================================================
