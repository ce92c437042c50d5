------------------------------ MODULE Selection ------------------------------
(***************************************************************************)
(* One preparation in a core, from the checks of the actor to the view: of *)
(* a single tool, with the profile `choice` (one question, asked again     *)
(* about more candidates) or `binary` (a question per candidate), or of a  *)
(* workflow.  The selector answers anything; the provider's checks of a    *)
(* workflow and of its trace are here too.                                 *)
(***************************************************************************)
EXTENDS Ranking

CONSTANTS Requests,     \* what the provider may ask
          Replies(_)    \* Replies(n): what is read of an answer about n candidates

ASSUME SelectionAssumption ==
    /\ \A r \in Requests : /\ IsFiniteSet(r.allowed) /\ IsFiniteSet(r.query)
                           /\ r.limit \in 1..MostExposed \cup {None}
    /\ None \notin [kind : {"workflow"}, count : Nat, operations : Seq(Tools),
                   status : {"no_match", "needs_refinement", "prepared"}]
                 \cup [kind : {"no_match"}, reason : {"selector_abstained"}]
                 \cup [kind : {"error"}, code :
                          {"INVALID_REQUEST", "DATA_PROCESSING_NOT_CONFIGURED", "PAYLOAD_TOO_LARGE",
                           "SELECTOR_INVALID_RESPONSE", "SELECTOR_UNAVAILABLE"}]

VARIABLES request,      \* the request, and the core that serves it
          stage,        \* "new", "first", "second" (question) or "done"
          candidates,   \* what retrieve() returned
          answers,      \* the last answer, or the answer of each candidate
          trace,        \* X-Toolgate-Workflow-Trace
          view          \* what was returned

vars == <<request, stage, candidates, answers, trace, view>>

Workflow == request.kind = "workflow"
Traced == Workflow /\ request.limit # None

Init == /\ request \in Requests
        /\ stage = "new" /\ candidates = <<>>
        /\ answers = None /\ trace = None /\ view = None

Finish(v) == stage' = "done" /\ view' = v

Empty == IF Workflow THEN WorkflowView(<<>>, 0) ELSE NoMatch("no_authorized_tools")

\* The checks of prepare() and of the workflow, then retrieve().
Start ==
    LET found == Retrieve(request.allowed, request.query) IN
    /\ stage = "new"
    /\ IF ~(request.allowed \subseteq Tools)
       THEN Finish(Failure("INVALID_REQUEST")) /\ UNCHANGED <<candidates, trace>>
       ELSE IF request.allowed = {} /\ ~(Workflow /\ request.core = "rust")
       THEN Finish(Empty) /\ UNCHANGED <<candidates, trace>>
       ELSE IF request.allowed # {} /\ ~request.external
       THEN Finish(Failure("DATA_PROCESSING_NOT_CONFIGURED")) /\ UNCHANGED <<candidates, trace>>
       ELSE IF Cardinality(request.query) > QueryLimit
       THEN Finish(Failure("PAYLOAD_TOO_LARGE")) /\ UNCHANGED <<candidates, trace>>
       ELSE /\ candidates' = found
            /\ trace' = IF Traced THEN [retrieved |-> Indices(found), included |-> None,
                                        exposed |-> None] ELSE trace
            /\ IF found = <<>> /\ ~Workflow THEN Finish(NoMatch("no_retrieval_match"))
               ELSE stage' = "first" /\ UNCHANGED view
    /\ UNCHANGED <<request, answers>>

\* The first question covers what fits it, the second everything.
Covered == IF stage = "first" /\ Len(candidates) > FirstPass THEN FirstPass ELSE Len(candidates)

\* selectTools
AskChoice ==
    LET n == Covered
    IN /\ stage \in {"first", "second"}
       /\ request.kind = "choice"
       /\ \E raw \in Replies(n) :
             /\ answers' = raw
             /\ IF ~Decodes(raw, 0..n) THEN Finish(Failure("SELECTOR_INVALID_RESPONSE"))
                ELSE LET v == Judge(Take(n, candidates), raw.p, n = Len(candidates)) IN
                     IF v = None THEN stage' = "second" /\ UNCHANGED view ELSE Finish(v)
       /\ UNCHANGED <<request, candidates, trace>>

Undecodable(raws) == \E i \in DOMAIN raws : ~Decodes(raws[i], 0..1)

\* selectBinary, of whose calls SelectorPool tells more.
AskEach ==
    /\ stage = "first" /\ request.kind = "binary"
    /\ \E raws \in [DOMAIN candidates -> Replies(1)] :
          /\ answers' = raws
          /\ Finish(IF Undecodable(raws) THEN Failure("SELECTOR_INVALID_RESPONSE")
                    ELSE ReduceBinary(candidates, raws))
    /\ UNCHANGED <<request, candidates, trace>>

\* The questions of a workflow, in one request or many; a missing answer is one
\* that does not decode.
AskWorkflow ==
    /\ stage = "first" /\ Workflow
    /\ \E raws \in [DOMAIN candidates -> Replies(1)] :
          LET included == Included(candidates, raws)
              exposed == Expose(included, candidates, request.limit)
          IN /\ answers' = raws
             /\ IF Undecodable(raws)
                THEN Finish(Failure("SELECTOR_INVALID_RESPONSE")) /\ UNCHANGED trace
                ELSE /\ Finish(WorkflowView(exposed, Len(candidates)))
                     /\ trace' = IF Traced THEN [trace EXCEPT !.included = Indices(ById(included)),
                                                              !.exposed = Indices(exposed)] ELSE trace
    /\ UNCHANGED <<request, candidates>>

\* No answer in time, or none at all; without candidates nobody is asked.
SelectorFails ==
    /\ stage \in {"first", "second"} /\ candidates # <<>>
    /\ Finish(Failure("SELECTOR_UNAVAILABLE"))
    /\ UNCHANGED <<request, candidates, answers, trace>>

Next == Start \/ AskChoice \/ AskEach \/ AskWorkflow \/ SelectorFails
Spec == Init /\ [][Next]_vars
-----------------------------------------------------------------------------
(* The provider *)

\* prepareWorkflow() takes the view.
Accepts(v, req) ==
    /\ req.limit # None => Len(v.operations) <= req.limit
    /\ IsInjective(v.operations)
    /\ ToSet(v.operations) \subseteq req.allowed
    /\ (v.status = "prepared") = (v.operations # <<>>)

\* decodeWorkflowTrace() takes the header.
IndexList(s) == Len(s) <= Kept /\ IsInjective(s)
Reads(t) ==
    /\ IndexList(t.retrieved)
    /\ IF t.included = None THEN t.exposed = None
       ELSE /\ IndexList(t.included) /\ IndexList(t.exposed) /\ Len(t.exposed) <= MostExposed
            /\ ToSet(t.included) \subseteq ToSet(t.retrieved)
            /\ ToSet(t.exposed) \subseteq ToSet(t.included)
-----------------------------------------------------------------------------
(* Properties *)

Done(kind) == view # None /\ view.kind = kind

\* A selected tool is one the actor may use, and it earned it in the last answer:
\* 70 percent for a read, 85 for anything else, and a lead of 15 or 25 points over
\* every other option and every other candidate that was found suitable.
SelectionIsEarned ==
    Done("selected") =>
        LET t == view.tool
            i == CHOOSE n \in DOMAIN candidates : candidates[n] = t
            read == Effect[t] = "read"
            rivals == IF request.kind = "choice"
                      THEN {answers.p[o] : o \in DOMAIN answers.p \ {i}}
                      ELSE {answers[i].p[0]} \cup {answers[j].p[1] : j \in
                               {k \in DOMAIN answers \ {i} : answers[k].choice = 1}}
            p == IF request.kind = "choice" THEN answers.p[i] ELSE answers[i].p[1]
        IN /\ t \in request.allowed
           /\ p >= IF read THEN 70 ELSE 85
           /\ \A r \in rivals : p - r >= IF read THEN 15 ELSE 25

\* What is left out is never better than what is kept: an allowed tool that is no
\* candidate, and a candidate that is not shown in a choice.  Nothing is refused
\* or left to the user before every candidate was asked about.
BestIsNeverHidden ==
    /\ stage # "new" /\ candidates # <<>> => \A t \in request.allowed \ ToSet(candidates) :
          /\ Cardinality(request.allowed) > ScoreFrom
          /\ \/ Score(t, request.query) = 0
             \/ /\ Len(candidates) = Kept
                /\ \A c \in ToSet(candidates) : Score(c, request.query) >= Score(t, request.query)
    /\ request.kind = "choice" /\ (Done("needs_choice") \/ view = NoMatch("selector_abstained")) =>
          DOMAIN answers.p = 0..Len(candidates)
    /\ request.kind = "choice" /\ Done("needs_choice") =>
          /\ Len(view.tools) \in 2..Shown
          /\ \A i, j \in DOMAIN candidates :
                candidates[i] \in ToSet(view.tools) /\ candidates[j] \notin ToSet(view.tools)
                    => answers.p[i] >= answers.p[j]

\* With a question per candidate the result depends on the answers and not on the
\* order the candidates were retrieved in.
OrderDoesNotDecide ==
    request.kind # "choice" /\ answers # None /\ view # None =>
        \A order \in Bijection(DOMAIN candidates, DOMAIN candidates) :
            LET tools == [k \in DOMAIN order |-> candidates[order[k]]]
                same == [k \in DOMAIN order |-> answers[order[k]]]
            IN \/ Undecodable(answers)
               \/ view = IF Workflow
                         THEN WorkflowView(Expose(Included(tools, same), tools, request.limit), Len(tools))
                         ELSE ReduceBinary(tools, same)

\* The provider takes every workflow and every trace a core returns; a cap leaves
\* out the last of the included tools by ID, and above eight nothing is prepared.
WorkflowIsTaken ==
    /\ trace # None => Reads(trace)
    /\ Done("workflow") =>
          LET included == IF candidates = <<>> THEN {} ELSE Included(candidates, answers) IN
          /\ Accepts(view, request)
          /\ \A t \in ToSet(view.operations), u \in included \ ToSet(view.operations) : t < u
          /\ Cardinality(included) <= MostExposed => view.status # "needs_refinement"
=============================================================================
