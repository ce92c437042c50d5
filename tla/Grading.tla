------------------------------- MODULE Grading -------------------------------
(***************************************************************************)
(* How the benchmarks grade what an agent did: grade of v2, v3 and, for    *)
(* part 2 of v3, evaluate with its later clarifications; verifyState; and  *)
(* where a tool was lost between the catalog and the agent.  A record of   *)
(* the business has an identifier and a content.  Of a cell there are two  *)
(* lists of calls: the trace, which the business keeps in the order the    *)
(* calls ended, where `before` of a call is how many had ended when it     *)
(* started; and the business calls, which the provider's handlers push.    *)
(* A result is the set of <<identifier, content>> pairs that it shows.     *)
(***************************************************************************)
EXTENDS Ranking

CONSTANTS Ids,        \* identifiers of business records
          Contents    \* what a record may hold, or a result show of it

\* A case and what solves it: its goal ("read" or the write that is asked for), the
\* tool, target and content of that write, the reference steps, what the results must
\* show (entities, facts and relations), and what the clarifications do with its patterns.
Step(tool, alternatives, id, content, shows, dependsOn) ==
    [tool |-> tool, alternatives |-> alternatives, id |-> id, content |-> content,
     shows |-> shows, dependsOn |-> dependsOn]

Succeeded(trace) == {i \in DOMAIN trace : ~trace[i].isError}
Shows(result, id) == \E pair \in result : pair[1] = id
Evidence(trace) == UNION {trace[i].result : i \in Succeeded(trace)}

\* resolveIds and subset: None asks for nothing.
Subset(call, id, content) ==
    /\ id # None => call.id = id
    /\ content # None => call.content = content

\* Call i does a step, with the result it needs, after the calls of the steps it depends
\* on had ended.
Fits(trace, step, i, matched) ==
    /\ i \in Succeeded(trace)
    /\ \A id \in step.shows : Shows(trace[i].result, id)
    /\ trace[i].tool \in {step.tool} \cup step.alternatives
    /\ trace[i].tool = step.tool => Subset(trace[i], step.id, step.content)
    /\ \A d \in step.dependsOn :
          matched[d] # None /\ matched[d] < i /\ matched[d] <= trace[i].before

\* Seeded fault: a step takes the last call that fits it.
MatchedLast(trace, steps) ==
    LET matched[k \in DOMAIN steps] ==
            LET fit == {i \in DOMAIN trace : Fits(trace, steps[k], i, matched)} IN
            IF fit = {} THEN None ELSE CHOOSE i \in fit : \A j \in fit : j <= i
    IN matched
\* Each step, in the order of the case, takes the first call that fits it.
Matched(trace, steps) ==
    LET matched[k \in DOMAIN steps] ==
            LET fit == {i \in DOMAIN trace : Fits(trace, steps[k], i, matched)} IN
            IF fit = {} THEN None ELSE CHOOSE i \in fit : \A j \in fit : i <= j
    IN matched

CompleteSequence(trace, steps) == None \notin Range(Matched(trace, steps))

\* Every identifier an agent used was in a result that had ended before.
GroundedIds(trace) ==
    \A i \in Succeeded(trace) : trace[i].id # None =>
        \E j \in Succeeded(trace) : j < i /\ j <= trace[i].before /\ Shows(trace[j].result, trace[i].id)

\* The writes that the provider's handlers pushed, whether they succeeded or not.
Writes(calls) == {i \in DOMAIN calls : Effect[calls[i].tool] # "read"}

WrongMutationCalls(calls, case) ==
    {i \in Writes(calls) : ~(/\ case.goal # "read" /\ calls[i].tool = case.tool
                             /\ Subset(calls[i], case.target, case.content))}

\* Part 2 compares the identifiers only.
ImproperMutations(calls, case) ==
    {i \in Writes(calls) : ~(/\ case.goal # "read" /\ calls[i].tool = case.tool
                             /\ Subset(calls[i], case.target, None))}

Added(before, after) == {i \in Ids : before[i] = None /\ after[i] # None}

\* The final state is the first one with the one change that was asked for.
VerifyState(case, before, after) ==
    CASE case.goal = "create" ->
            \E i \in Ids : /\ Added(before, after) = {i} /\ after[i] = case.content
                           /\ after = [before EXCEPT ![i] = after[i]]
      [] case.goal = "update" -> after = [before EXCEPT ![case.target] = case.content]
      [] case.goal = "delete" -> after = [before EXCEPT ![case.target] = None]
      [] OTHER -> after = before

\* v2 looks at the record only, or for any new one.
PersistedMutation(case, after) ==
    CASE case.goal = "create" -> \E i \in Ids : after[i] = case.content
      [] case.goal = "update" -> after[case.target] = case.content
      [] case.goal = "delete" -> after[case.target] = None
      [] OTHER -> None

GradeV2(calls, case) ==
    LET expected == {i \in DOMAIN calls : calls[i].tool = case.tool} IN
    [eventualToolCorrect |-> expected # {},
     exactArguments |-> \E i \in expected : /\ calls[i].id = case.target
                                            /\ calls[i].content = case.content,
     wrongMutationCalls |-> {i \in Writes(calls) : calls[i].tool # case.tool}]

WorkflowSuccess(record, case) ==
    /\ CompleteSequence(record.trace, case.steps)
    /\ GroundedIds(record.trace)
    /\ VerifyState(case, record.baseline, record.final)
    /\ WrongMutationCalls(record.calls, case) = {}

\* Every pattern is found in the answer, and of a write a word that says it was done.
CompleteAnswer(record, case) ==
    record.answer.full /\ (case.goal = "read" \/ record.answer.affirms)
EvidenceFacts(record, case) ==
    \A fact \in case.facts : \E pair \in Evidence(record.trace) : pair[2] = fact
Relations(record, case) == case.relations \subseteq Evidence(record.trace)

\* The verdict of part 2, from what the answer and the relations were found to be.
Success(record, case, answered, related) ==
    /\ record.completed
    /\ answered
    /\ \A e \in case.entities : Shows(Evidence(record.trace), e)
    /\ EvidenceFacts(record, case)
    /\ related
    /\ GroundedIds(record.trace)
    /\ VerifyState(case, record.baseline, record.final)
    /\ ImproperMutations(record.calls, case) = {}

Evaluate(record, case) ==
    Success(record, case, CompleteAnswer(record, case), Relations(record, case))

\* What an answer may be found to hold.  The clarifications leave the patterns of a case
\* as they are ("kept"), take one away ("fewer") or put others in their place, which
\* may reject what the old ones found ("replaced").
Answers(case) ==
    {a \in [full : BOOLEAN, clarified : BOOLEAN, affirms : BOOLEAN, raised : BOOLEAN] :
        /\ case.patterns = "kept" => a.clarified = a.full
        /\ case.patterns = "fewer" => (a.full => a.clarified)}

\* The clarifications: the patterns, other evidence of the relations, and another way to
\* say that a write was done.
FinalEvaluate(record, case) ==
    Success(record, case,
            /\ record.answer.clarified
            /\ case.goal = "read" \/ record.answer.affirms \/ record.answer.raised,
            \/ Relations(record, case)
            \/ case.instead # None /\ case.instead \subseteq Evidence(record.trace))
-----------------------------------------------------------------------------
(* Where a tool was lost *)

\* Seeded fault: a tool that one request did not include was refused.
LossAtAny(tool, events, remote) ==
    LET traces == UNION {UNION {ToSet(remote[m]) : m \in events[e].remoteStart + 1..events[e].remoteEnd}
                         : e \in DOMAIN events}
        eligible == {t \in traces : t # None /\ tool \in ToSet(t.retrieved)}
        positives == {t \in eligible : t.included # None /\ tool \in ToSet(t.included)}
    IN IF \E e \in DOMAIN events : tool \in ToSet(events[e].exposed) THEN "exposed"
       ELSE IF traces = {} \/ None \in traces THEN "unobserved"
       ELSE IF eligible = {} THEN "preselection"
       ELSE IF \E t \in eligible : t.included = None THEN "inclusion_unobserved"
       ELSE IF positives # eligible THEN "inclusion"
       ELSE IF \E t \in positives : tool \in ToSet(t.exposed) THEN "delivery_error"
       ELSE "final_cut"
\* From the diagnostics of the requests of some preparations; no answer, no stages.
LossAt(tool, events, remote) ==
    LET traces == UNION {UNION {ToSet(remote[m]) : m \in events[e].remoteStart + 1..events[e].remoteEnd}
                         : e \in DOMAIN events}
        eligible == {t \in traces : t # None /\ tool \in ToSet(t.retrieved)}
        positives == {t \in eligible : t.included # None /\ tool \in ToSet(t.included)}
    IN IF \E e \in DOMAIN events : tool \in ToSet(events[e].exposed) THEN "exposed"
       ELSE IF traces = {} \/ None \in traces THEN "unobserved"
       ELSE IF eligible = {} THEN "preselection"
       ELSE IF \E t \in eligible : t.included = None THEN "inclusion_unobserved"
       ELSE IF positives = {} THEN "inclusion"
       ELSE IF \E t \in positives : t.exposed = None THEN "exposure_unobserved"
       ELSE IF \E t \in positives : tool \in ToSet(t.exposed) THEN "delivery_error"
       ELSE "final_cut"

\* FirstLoss and cumulativeLoss of the tools of the reference steps.
Losses(tools, events, remote) == [t \in tools |-> LossAt(t, events, remote)]
=============================================================================
