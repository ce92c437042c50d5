------------------------------ MODULE Operation ------------------------------
(***************************************************************************)
(* One operation of the core, from prepare to its receipt: the row of      *)
(* tg.operations, its receipt, and the handlers of backend-go app.go that  *)
(* change them (prepare, ready, mutate).                                   *)
(*                                                                         *)
(* mutate() loads the row FOR UPDATE, so each handler is one atomic step;  *)
(* rows of different operations never meet.  An early return rolls back    *)
(* and is a request that is not granted: no step.  Digests are injective,  *)
(* so an argument value stands for its digest and a tool for its schema.   *)
(***************************************************************************)
EXTENDS Naturals

CONSTANTS Tools, Args,
          Valid,        \* <<tool, args>> pairs that pass tool's input schema
          Principals,   \* (principal, workspace) of actors
          AuthRevs,     \* authorization revisions of actors
          Outcomes,     \* what a receipt can report
          OpLife,       \* lifetime of an operation (15 min)
          DecisionLife, \* longest validity of a decision (60 s)
          MinLife,      \* shortest validity worth issuing (1 s)
          ReceiptLife,  \* how long receipts are taken (24 h)
          MaxRevision,  \* bound on revisions, for TLC
          MaxClock,     \* bound on time, for TLC
          None

Statuses == {"no_match", "needs_choice", "needs_arguments", "ready",
             "decision_issued", "cancelled"}

Actor == [principal: Principals, revision: AuthRevs, allowed: SUBSET Tools]

Decision == [revision: Nat, tool: Tools, args: Args, issued: Nat, notAfter: Nat]

\* An answer that holds a decision: of the handler or of the idempotency store.
Grant == [decision: Decision, actor: Actor, at: Nat, replayed: BOOLEAN]

View == [status: Statuses, revision: Nat, tool: Tools \cup {None},
         candidates: SUBSET Tools, digest: Args \cup {None},
         decision: Decision \cup {None}]

ASSUME OperationAssumption ==
    /\ Valid \subseteq Tools \X Args
    /\ OpLife \in Nat /\ DecisionLife \in Nat /\ ReceiptLife \in Nat
    /\ MinLife \in Nat \ {0}
    /\ MaxRevision \in Nat /\ MaxClock \in Nat
    /\ None \notin Tools \cup Args \cup Outcomes \cup Decision \cup View \cup Actor

VARIABLES clock,
          view,      \* the stored view, None before prepare
          owner,     \* the actor of prepare: ownership columns and allowed
          expires,   \* expires_at of the row and of every view
          receipt,   \* the outcome in tg.receipts
          grants,    \* every answer that held a decision (ghost)
          authors    \* actors whose request changed the view (ghost)

vars == <<clock, view, owner, expires, receipt, grants, authors>>

TypeOK ==
    /\ clock \in Nat
    /\ view \in View \cup {None}
    /\ owner \in Actor \cup {None}
    /\ expires \in Nat
    /\ receipt \in Outcomes \cup {None}
    /\ grants \subseteq Grant
    /\ authors \subseteq Actor
    /\ view # None => owner \in Actor

Init ==
    /\ clock = 0
    /\ view = None
    /\ owner = None
    /\ expires = 0
    /\ receipt = None
    /\ grants = {}
    /\ authors = {}

-----------------------------------------------------------------------------
\* Seeded fault: the authorization revision is not compared.
OwnsAtAnyRevision(actor) ==
    /\ view # None
    /\ actor.principal = owner.principal
    /\ view.tool # None => view.tool \in actor.allowed

\* loadOperation: the row's owner under its authorization revision, still
\* allowed to use the tool that is selected.
Owns(actor) ==
    /\ view # None
    /\ actor.principal = owner.principal
    /\ actor.revision = owner.revision
    /\ view.tool # None => view.tool \in actor.allowed

\* Every handler but receipts refuses an operation that has expired.
Live == clock < expires

MayChange(actor) == Owns(actor) /\ Live

\* A view in which no tool is selected.
Bare(status, revision, candidates) ==
    [status |-> status, revision |-> revision, tool |-> None,
     candidates |-> candidates, digest |-> None, decision |-> None]

\* ready(): select the tool, validate, drop the choice.
Ready(revision, tool, args) ==
    [status |-> IF <<tool, args>> \in Valid THEN "ready" ELSE "needs_arguments",
     revision |-> revision, tool |-> tool, candidates |-> {},
     digest |-> IF <<tool, args>> \in Valid THEN args ELSE None,
     decision |-> None]

Stores(actor, v) ==
    /\ view' = v
    /\ authors' = authors \cup {actor}

Grants(actor, d, replayed) ==
    grants' = grants \cup {[decision |-> d, actor |-> actor, at |-> clock, replayed |-> replayed]}

-----------------------------------------------------------------------------
\* prepare() of a request that names known arguments: what retrieval and the
\* selector return is any tool or any choice among the allowed ones.
Prepare(actor, known) ==
    /\ view = None
    /\ \/ Stores(actor, Bare("no_match", 1, {}))
       \/ \E tool \in actor.allowed : Stores(actor, Ready(1, tool, known))
       \/ \E choices \in (SUBSET actor.allowed) \ {{}} :
            Stores(actor, Bare("needs_choice", 1, choices))
    /\ owner' = actor
    /\ expires' = clock + OpLife
    /\ UNCHANGED <<clock, receipt, grants>>

\* The agent picks one of the candidates.
Resolve(actor, expected, choice, args) ==
    /\ MayChange(actor)
    /\ view.status = "needs_choice"
    /\ view.revision = expected
    /\ choice \in view.candidates
    /\ choice \in actor.allowed
    /\ choice \in owner.allowed
    /\ view.revision < MaxRevision
    /\ Stores(actor, Ready(view.revision + 1, choice, args))
    /\ UNCHANGED <<clock, owner, expires, receipt, grants>>

\* What a request for a first decision is checked for.
Decidable(actor, expected) ==
    /\ MayChange(actor)
    /\ view.status \in {"ready", "needs_arguments"}
    /\ view.revision = expected
    /\ view.revision < MaxRevision

\* Seeded fault: the revision is not incremented.
NeedArgumentsInPlace(actor, expected, args) ==
    /\ Decidable(actor, expected)
    /\ <<view.tool, args>> \notin Valid
    /\ Stores(actor, Ready(view.revision, view.tool, args))
    /\ UNCHANGED <<clock, owner, expires, receipt, grants>>

\* A decision was asked for arguments that do not validate.
NeedArguments(actor, expected, args) ==
    /\ Decidable(actor, expected)
    /\ <<view.tool, args>> \notin Valid
    /\ Stores(actor, Ready(view.revision + 1, view.tool, args))
    /\ UNCHANGED <<clock, owner, expires, receipt, grants>>

\* The decision ends with the operation or after DecisionLife.
Expiry == IF expires < clock + DecisionLife THEN expires
          ELSE clock + DecisionLife

\* The one decision of the operation is issued.
Decide(actor, expected, args) ==
    /\ Decidable(actor, expected)
    /\ <<view.tool, args>> \in Valid
    /\ clock + MinLife <= Expiry
    /\ LET d == [revision |-> view.revision + 1, tool |-> view.tool,
                 args |-> args, issued |-> clock, notAfter |-> Expiry]
       IN /\ Stores(actor, [status |-> "decision_issued",
                            revision |-> view.revision + 1, tool |-> view.tool,
                            candidates |-> {}, digest |-> None, decision |-> d])
          /\ Grants(actor, d, FALSE)
    /\ UNCHANGED <<clock, owner, expires, receipt>>

\* The decision exists: the same arguments get it again while it is valid,
\* whatever revision the caller expected, and nothing changes.
DecideAgain(actor, args) ==
    /\ MayChange(actor)
    /\ view.status = "decision_issued"
    /\ view.decision.args = args
    /\ clock < view.decision.notAfter
    /\ Grants(actor, view.decision, FALSE)
    /\ UNCHANGED <<clock, view, owner, expires, receipt, authors>>

\* Seeded fault: a stored answer is given without the guard.
ReplayUnguarded(actor) ==
    /\ \E g \in grants : g.actor = actor /\ Grants(actor, g.decision, TRUE)
    /\ UNCHANGED <<clock, view, owner, expires, receipt, authors>>

\* A request is repeated under its key and body, of which the actor is a part:
\* its stored answer is given again to an owner while the operation lives, by
\* which time the decision in it may be over.
Replay(actor) ==
    /\ MayChange(actor)
    /\ \E g \in grants : g.actor = actor /\ Grants(actor, g.decision, TRUE)
    /\ UNCHANGED <<clock, view, owner, expires, receipt, authors>>

\* Seeded fault: CANNOT_CANCEL_ISSUED is not checked.
CancelAnything(actor, expected) ==
    /\ MayChange(actor)
    /\ view.revision = expected
    /\ view.revision < MaxRevision
    /\ Stores(actor, Bare("cancelled", view.revision + 1, {}))
    /\ UNCHANGED <<clock, owner, expires, receipt, grants>>

\* cancel keeps nothing but the identity of the operation.
Cancel(actor, expected) ==
    /\ MayChange(actor)
    /\ view.status \in {"ready", "needs_arguments", "needs_choice"}
    /\ view.revision = expected
    /\ view.revision < MaxRevision
    /\ Stores(actor, Bare("cancelled", view.revision + 1, {}))
    /\ UNCHANGED <<clock, owner, expires, receipt, grants>>

\* A receipt names the decision; the first outcome stays, an equal one is
\* accepted again, another one is a conflict.
Receipt(actor, decision, outcome) ==
    /\ Owns(actor)
    /\ view.decision # None
    /\ decision = view.decision
    /\ clock <= view.decision.issued + ReceiptLife
    /\ receipt \in {None, outcome}
    /\ receipt' = outcome
    /\ UNCHANGED <<clock, view, owner, expires, grants, authors>>

Tick ==
    /\ clock < MaxClock
    /\ clock' = clock + 1
    /\ UNCHANGED <<view, owner, expires, receipt, grants, authors>>

Next ==
    \/ \E actor \in Actor :
         \/ \E args \in Args : Prepare(actor, args)
         \/ \E expected \in 1..MaxRevision :
              \/ \E choice \in Tools, args \in Args :
                   Resolve(actor, expected, choice, args)
              \/ \E args \in Args : \/ NeedArguments(actor, expected, args)
                                    \/ Decide(actor, expected, args)
              \/ Cancel(actor, expected)
         \/ \E args \in Args : DecideAgain(actor, args)
         \/ Replay(actor)
         \/ /\ view # None
            /\ \E outcome \in Outcomes : Receipt(actor, view.decision, outcome)
    \/ Tick

Spec == Init /\ [][Next]_vars

-----------------------------------------------------------------------------
\* The three statuses nothing leads out of: a decision cannot be cancelled,
\* replaced or renewed, and a cancelled operation cannot be decided
\* (app.go 602-613, 658-671).
SettledForever ==
    [][view # None /\ view.status \in {"no_match", "cancelled", "decision_issued"}
       => view' = view]_vars

\* A revision names one content: the view never changes without its revision
\* growing by one.  The SDK's put() relies on it to order snapshots.
RevisionNamesView ==
    [][view # None /\ view' # view => view'.revision = view.revision + 1]_vars

\* Whatever decision the core answers with, decided, repeated or replayed, is the
\* stored one, given while the operation lives to an owner under the revision of
\* preparation who is allowed the tool; its window lies in the operation's and
\* has at least MinLife and at most DecisionLife.  The handler answers inside
\* that window.  A replay (app.go 349-373) may come after it: the caller has to
\* look at notAfter, as the SDK does.
GrantsAreValid ==
    \A g \in grants :
        /\ view # None /\ g.decision = view.decision
        /\ g.actor.principal = owner.principal /\ g.actor.revision = owner.revision
        /\ g.decision.tool \in g.actor.allowed
        /\ g.decision.issued <= g.at /\ g.at < expires
        /\ ~g.replayed => g.at < g.decision.notAfter
        /\ g.decision.notAfter <= expires
        /\ g.decision.issued + MinLife <= g.decision.notAfter
        /\ g.decision.notAfter <= g.decision.issued + DecisionLife

\* A decided tool was allowed when the operation was prepared, its arguments
\* validate, and everyone who brought the operation there owned it.
DecisionIsAuthorised ==
    /\ \A a \in authors : /\ a.principal = owner.principal
                          /\ a.revision = owner.revision
    /\ view # None /\ view.decision # None
       => /\ <<view.decision.tool, view.decision.args>> \in Valid
          /\ view.decision.tool \in owner.allowed
          /\ view.decision.revision = view.revision
          /\ \E a \in authors : view.decision.tool \in a.allowed

\* Only a decided operation has a receipt, and its outcome is never rewritten,
\* though receipts outlive the operation.
ReceiptIsFinal ==
    [][/\ receipt # None => receipt' = receipt
       /\ receipt' # None => view # None /\ view.decision # None]_vars

-----------------------------------------------------------------------------
\* What an inductive proof of the above needs besides.

\* The parts of a stored view fit its status.
ViewInv ==
    view # None =>
        /\ view.status = "decision_issued" <=> view.decision # None
        /\ view.decision # None => view.tool = view.decision.tool
        /\ view.status \in {"ready", "needs_arguments", "decision_issued"}
           => view.tool \in owner.allowed
        /\ view.candidates \subseteq owner.allowed

\* Nothing is granted, authored or received before prepare.
NothingBefore == view = None => grants = {} /\ authors = {} /\ receipt = None

\* The window of the stored decision, which later grants inherit.
DecisionWindow ==
    view # None /\ view.decision # None
    => /\ view.decision.issued <= clock
       /\ view.decision.issued + MinLife <= view.decision.notAfter
       /\ view.decision.notAfter <= view.decision.issued + DecisionLife
       /\ view.decision.notAfter <= expires

\* Receipts need a decision.
ReceiptInv == receipt # None => view # None /\ view.decision # None

\* The inductive invariant of an operation.
IInv == /\ TypeOK
        /\ ViewInv
        /\ NothingBefore
        /\ DecisionWindow
        /\ ReceiptInv
        /\ GrantsAreValid
        /\ DecisionIsAuthorised
=============================================================================
