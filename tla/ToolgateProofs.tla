---------------------------- MODULE ToolgateProofs ----------------------------
(***************************************************************************)
(* Proofs about Operation, for any tools, arguments, actors and lifetimes, *)
(* and about Toolgate, which extends it: the composed system implements    *)
(* the core (Operation) and the ledger (Ledger), so that their theorems    *)
(* hold of it, and with its own invariant they give the two end-to-end     *)
(* properties, for any validators and attempts too.                        *)
(***************************************************************************)
EXTENDS Toolgate, TLAPS

(* The core: Operation *)

\* Views that handlers build are views.
LEMMA ReadyIsView ==
    ASSUME NEW revision \in Nat, NEW tool \in Tools, NEW args \in Args
    PROVE  Ready(revision, tool, args) \in View
  BY DEF Ready, View, Statuses

LEMMA BareIsView ==
    ASSUME NEW status \in Statuses, NEW revision \in Nat,
           NEW candidates \in SUBSET Tools
    PROVE  Bare(status, revision, candidates) \in View
  BY DEF Bare, View

LEMMA Initially == Init => IInv
  BY OperationAssumption
  DEF Init, IInv, TypeOK, ViewInv, NothingBefore, DecisionWindow, ReceiptInv,
      GrantsAreValid,
      DecisionIsAuthorised

\* An answer with the stored decision, of the handler inside its window or
\* replayed, keeps the invariant.
LEMMA GrantAdded ==
    ASSUME IInv, NEW actor \in Actor, NEW replayed \in BOOLEAN,
           view # None, view.decision # None, view.decision \in Decision,
           view.decision.tool \in actor.allowed,
           actor.principal = owner.principal, actor.revision = owner.revision,
           clock < expires, ~replayed => clock < view.decision.notAfter,
           grants' = grants \cup {[decision |-> view.decision, actor |-> actor, at |-> clock,
                                  replayed |-> replayed]},
           UNCHANGED <<clock, view, owner, expires, receipt, authors>>
    PROVE  IInv'
<1> DEFINE g == [decision |-> view.decision, actor |-> actor, at |-> clock, replayed |-> replayed]
<1>1. clock \in Nat /\ view.decision.issued <= clock
  BY DEF IInv, TypeOK, DecisionWindow
<1>2. g \in Grant
  BY <1>1 DEF Grant
<1>3. TypeOK'
  BY <1>2 DEF IInv, TypeOK
<1>4. GrantsAreValid'
  BY <1>1 DEF IInv, GrantsAreValid, DecisionWindow
<1>5. ViewInv' /\ NothingBefore' /\ DecisionWindow' /\ ReceiptInv' /\ DecisionIsAuthorised'
  BY DEF IInv, ViewInv, NothingBefore, DecisionWindow, ReceiptInv, DecisionIsAuthorised
<1> QED
  BY <1>3, <1>4, <1>5 DEF IInv

\* Every handler keeps the invariant.
LEMMA Inductive == IInv /\ [Next]_vars => IInv'
<1> USE OperationAssumption
<1> SUFFICES ASSUME IInv, [Next]_vars
             PROVE  IInv'
  OBVIOUS
<1> USE DEF IInv, TypeOK, ViewInv, NothingBefore, DecisionWindow, ReceiptInv,
      GrantsAreValid,
            DecisionIsAuthorised
<1>1. ASSUME NEW actor \in Actor, NEW known \in Args, Prepare(actor, known)
      PROVE  IInv'
  <2>0. /\ grants' = {} /\ authors' = {actor} /\ receipt' = None
        /\ owner' = actor /\ expires' \in Nat /\ clock' \in Nat
        /\ actor.allowed \in SUBSET Tools
    BY <1>1 DEF Prepare, Stores, Actor
  <2>1. ASSUME NEW v \in View, view' = v, v.decision = None,
               v.status # "decision_issued",
               v.status \in {"ready", "needs_arguments"}
               => v.tool \in actor.allowed,
               v.candidates \subseteq actor.allowed
        PROVE  IInv'
    BY <2>0, <2>1
  <2>2. CASE view' = Bare("no_match", 1, {})
    <3>1. Bare("no_match", 1, {}) \in View
      BY BareIsView DEF Statuses
    <3> QED
      BY <2>1, <2>2, <3>1 DEF Bare
  <2>3. ASSUME NEW tool \in actor.allowed, view' = Ready(1, tool, known)
        PROVE  IInv'
    <3>1. Ready(1, tool, known) \in View
      BY <2>0, ReadyIsView
    <3> QED
      BY <2>1, <2>3, <3>1 DEF Ready
  <2>4. ASSUME NEW choices \in (SUBSET actor.allowed) \ {{}},
               view' = Bare("needs_choice", 1, choices)
        PROVE  IInv'
    <3>1. Bare("needs_choice", 1, choices) \in View
      BY <2>0, BareIsView DEF Statuses
    <3> QED
      BY <2>1, <2>4, <3>1 DEF Bare
  <2> QED
    BY <1>1, <2>2, <2>3, <2>4 DEF Prepare, Stores
<1>2. ASSUME NEW actor \in Actor, NEW expected \in 1..MaxRevision,
             NEW choice \in Tools, NEW args \in Args,
             Resolve(actor, expected, choice, args)
      PROVE  IInv'
  <2>1. view.revision + 1 \in Nat
    BY <1>2 DEF Resolve, MayChange, Owns, View
  <2>2. Ready(view.revision + 1, choice, args) \in View
    BY <2>1, ReadyIsView
  <2> QED
    BY <1>2, <2>2 DEF Resolve, Stores, Ready, MayChange, Owns, View, Actor
<1>3. ASSUME NEW actor \in Actor, NEW expected \in 1..MaxRevision,
             NEW args \in Args, NeedArguments(actor, expected, args)
      PROVE  IInv'
  <2>1. view.tool \in Tools /\ view.revision + 1 \in Nat
    BY <1>3 DEF NeedArguments, Decidable, MayChange, Owns, Actor, View
  <2>2. Ready(view.revision + 1, view.tool, args) \in View
    BY <2>1, ReadyIsView
  <2> QED
    BY <1>3, <2>1, <2>2
    DEF NeedArguments, Decidable, Stores, Ready, MayChange, Owns, View, Actor
<1>4. ASSUME NEW actor \in Actor, NEW expected \in 1..MaxRevision,
             NEW args \in Args, Decide(actor, expected, args)
      PROVE  IInv'
  <2> DEFINE d == [revision |-> view.revision + 1, tool |-> view.tool,
                   args |-> args, issued |-> clock, notAfter |-> Expiry]
             v == [status |-> "decision_issued",
                   revision |-> view.revision + 1, tool |-> view.tool,
                   candidates |-> {}, digest |-> None, decision |-> d]
  <2>1. view.tool \in Tools /\ view.revision \in Nat /\ view # None
    BY <1>4 DEF Decide, Decidable, MayChange, Owns, Actor, View
  <2>2. /\ Expiry \in Nat
        /\ Expiry <= expires
        /\ Expiry <= clock + DecisionLife
        /\ clock + MinLife <= Expiry
    BY <1>4 DEF Expiry, Decide
  <2>3. d \in Decision
    BY <2>1, <2>2 DEF Decision
  <2>4. v \in View
    BY <2>1, <2>3 DEF View, Statuses
  <2>5. /\ view' = v
        /\ grants' = grants \cup {[decision |-> d, actor |-> actor, at |-> clock, replayed |-> FALSE]}
        /\ authors' = authors \cup {actor}
        /\ UNCHANGED <<clock, owner, expires, receipt>>
    BY <1>4 DEF Decide, Stores, Grants
  <2>6. /\ actor.principal = owner.principal
        /\ actor.revision = owner.revision
        /\ view.tool \in actor.allowed
        /\ view.tool \in owner.allowed
        /\ <<view.tool, args>> \in Valid
        /\ view.decision = None
    BY <1>4, <2>1 DEF Decide, Decidable, MayChange, Owns
  <2>7. d # None /\ v # None
    BY <2>3, <2>4
  <2>8. TypeOK'
    <3>1. [decision |-> d, actor |-> actor, at |-> clock, replayed |-> FALSE] \in Grant
      BY <2>3 DEF Grant
    <3> HIDE DEF d, v
    <3> QED
      BY <3>1, <2>4, <2>5, <2>1
  <2>9. GrantsAreValid'
    <3>1. grants = {}
      BY <2>1, <2>6 DEF Grant
    <3>2. clock < expires /\ clock \in Nat
      BY <1>4 DEF Decide, Decidable, MayChange, Live
    <3>3. clock < Expiry
      BY <3>2, <2>2
    <3> QED
      BY <3>1, <3>2, <3>3, <2>2, <2>5, <2>6, <2>7
  <2>10. ViewInv' /\ NothingBefore' /\ ReceiptInv' /\ DecisionIsAuthorised'
    BY <2>5, <2>6, <2>7
  <2>11. DecisionWindow'
    BY <2>1, <2>2, <2>5, <2>7
  <2> QED
    BY <2>8, <2>9, <2>10, <2>11
<1>5. ASSUME NEW actor \in Actor, NEW args \in Args, DecideAgain(actor, args)
      PROVE  IInv'
  <2>1. /\ view \in View /\ view # None
        /\ view.decision \in Decision /\ view.decision # None
        /\ clock < view.decision.notAfter /\ clock < expires
        /\ actor.principal = owner.principal /\ actor.revision = owner.revision
        /\ view.tool \in actor.allowed /\ view.tool = view.decision.tool
        /\ UNCHANGED <<clock, view, owner, expires, receipt, authors>>
    BY <1>5 DEF DecideAgain, MayChange, Owns, Live, View, Decision
  <2>2. grants' = grants \cup {[decision |-> view.decision, actor |-> actor, at |-> clock,
                               replayed |-> FALSE]}
    BY <1>5 DEF DecideAgain, Grants
  <2> QED
    BY <2>1, <2>2, GrantAdded
<1>10. ASSUME NEW actor \in Actor, Replay(actor)
       PROVE  IInv'
  <2>1. PICK g \in grants : g.actor = actor /\ Grants(actor, g.decision, TRUE)
    BY <1>10 DEF Replay
  <2>2. /\ g.decision = view.decision /\ view # None
        /\ g.decision.tool \in actor.allowed /\ g.decision \in Decision
    BY <2>1 DEF Grant
  <2>3. /\ view \in View /\ view.decision # None
        /\ clock < expires
        /\ actor.principal = owner.principal /\ actor.revision = owner.revision
        /\ UNCHANGED <<clock, view, owner, expires, receipt, authors>>
    BY <1>10, <2>2 DEF Replay, MayChange, Owns, Live
  <2>4. grants' = grants \cup {[decision |-> view.decision, actor |-> actor, at |-> clock,
                               replayed |-> TRUE]}
    BY <2>1, <2>2 DEF Grants
  <2> QED
    BY <2>2, <2>3, <2>4, GrantAdded
<1>6. ASSUME NEW actor \in Actor, NEW expected \in 1..MaxRevision,
             Cancel(actor, expected)
      PROVE  IInv'
  <2>1. view.revision + 1 \in Nat
    BY <1>6 DEF Cancel, MayChange, Owns, View
  <2>2. Bare("cancelled", view.revision + 1, {}) \in View
    BY <2>1, BareIsView DEF Statuses
  <2> QED
    BY <1>6, <2>2 DEF Cancel, Stores, Bare, MayChange, Owns
<1>7. ASSUME NEW actor \in Actor, NEW outcome \in Outcomes, view # None,
             Receipt(actor, view.decision, outcome)
      PROVE  IInv'
  BY <1>7 DEF Receipt
<1>8. CASE Tick
  <2>1. /\ clock' = clock + 1 /\ clock \in Nat /\ clock' \in Nat
        /\ UNCHANGED <<view, owner, expires, receipt, grants, authors>>
    BY <1>8 DEF Tick
  <2>2. DecisionWindow'
    <3> SUFFICES ASSUME view # None, view.decision # None
                 PROVE  DecisionWindow'
      BY <2>1
    <3>1. view.decision.issued \in Nat /\ view.decision.issued <= clock
      BY DEF View, Decision
    <3> QED
      BY <2>1, <3>1
  <2> QED
    BY <2>1, <2>2
<1>9. CASE UNCHANGED vars
  BY <1>9 DEF vars
<1> QED
  BY <1>1, <1>2, <1>3, <1>4, <1>5, <1>6, <1>7, <1>8, <1>9, <1>10 DEF Next

\* The inductive invariant holds in every reachable state.
THEOREM Invariance == Spec => []IInv
  BY Initially, Inductive, PTL DEF Spec

\* The row, its receipt and the grants keep their types.
THEOREM Typing == Spec => []TypeOK
  BY Invariance, PTL DEF IInv

\* Whatever decision is answered with, also out of the idempotency store, is the
\* stored one, given to an owner while the operation lives; only a replay may come
\* after the decision's window (app.go 349-373, 658-671, 695-717).
THEOREM OnlyValidGrants == Spec => []GrantsAreValid
  BY Invariance, PTL DEF IInv

\* A decided tool was allowed to the owner, its arguments validate, and only
\* the owner brought the operation there (store.go 189-219, app.go 672-694).
THEOREM DecisionsAreAuthorised == Spec => []DecisionIsAuthorised
  BY Invariance, PTL DEF IInv

\* No step leaves 'no_match', 'cancelled' or 'decision_issued'.
LEMMA SettledStep ==
    IInv /\ [Next]_vars
    => [view # None /\ view.status \in {"no_match", "cancelled", "decision_issued"}
        => view' = view]_vars
  BY DEF Next, vars, Prepare, Resolve, NeedArguments, Decide, Decidable,
         DecideAgain, Replay, Cancel, Receipt, Tick

\* Nothing leads out of a settled status (app.go 602-613, 658-680).
THEOREM SettledStaysSettled == Spec => SettledForever
  BY Invariance, SettledStep, PTL DEF Spec, SettledForever

\* A step that changes the view counts its revision up by one.
LEMMA RevisionStep ==
    IInv /\ [Next]_vars
    => [view # None /\ view' # view => view'.revision = view.revision + 1]_vars
<1> SUFFICES ASSUME [Next]_vars, view # None, view' # view
             PROVE  view'.revision = view.revision + 1
  OBVIOUS
<1>1. ASSUME NEW actor \in Actor, NEW expected \in 1..MaxRevision,
             NEW choice \in Tools, NEW args \in Args,
             Resolve(actor, expected, choice, args)
      PROVE  view'.revision = view.revision + 1
  BY <1>1 DEF Resolve, Stores, Ready
<1>2. ASSUME NEW actor \in Actor, NEW expected \in 1..MaxRevision,
             NEW args \in Args, NeedArguments(actor, expected, args)
      PROVE  view'.revision = view.revision + 1
  BY <1>2 DEF NeedArguments, Stores, Ready
<1>3. ASSUME NEW actor \in Actor, NEW expected \in 1..MaxRevision,
             NEW args \in Args, Decide(actor, expected, args)
      PROVE  view'.revision = view.revision + 1
  BY <1>3 DEF Decide, Stores
<1>4. ASSUME NEW actor \in Actor, NEW expected \in 1..MaxRevision,
             Cancel(actor, expected)
      PROVE  view'.revision = view.revision + 1
  BY <1>4 DEF Cancel, Stores, Bare
<1> QED
  BY <1>1, <1>2, <1>3, <1>4
  DEF Next, vars, Prepare, DecideAgain, Replay, Receipt, Tick

\* A revision names one content of the view (app.go 721-729).
THEOREM RevisionsNameViews == Spec => RevisionNamesView
  BY Invariance, RevisionStep, PTL DEF Spec, RevisionNamesView

\* A receipt is written once, under a decision.
LEMMA ReceiptStep ==
    IInv /\ [Next]_vars
    => [/\ receipt # None => receipt' = receipt
        /\ receipt' # None => view # None /\ view.decision # None]_vars
<1> SUFFICES ASSUME IInv, [Next]_vars
             PROVE  /\ receipt # None => receipt' = receipt
                    /\ receipt' # None => view # None /\ view.decision # None
  OBVIOUS
<1>1. CASE UNCHANGED receipt
  BY <1>1 DEF IInv, ReceiptInv
<1>2. ASSUME NEW actor \in Actor, NEW outcome \in Outcomes,
             Receipt(actor, view.decision, outcome)
      PROVE  /\ receipt # None => receipt' = receipt
             /\ receipt' # None => view # None /\ view.decision # None
  BY <1>2 DEF Receipt, Owns
<1>3. ASSUME NEW actor \in Actor, NEW known \in Args, Prepare(actor, known)
      PROVE  UNCHANGED receipt
  BY <1>3 DEF Prepare
<1> QED
  BY <1>1, <1>2, <1>3
  DEF Next, vars, Resolve, NeedArguments, Decide, DecideAgain, Replay, Cancel, Tick

\* A decided operation's receipt is never rewritten (app.go 566-601).
THEOREM ReceiptsAreFinal == Spec => ReceiptIsFinal
  BY Invariance, ReceiptStep, PTL DEF Spec, ReceiptIsFinal
-----------------------------------------------------------------------------
(* The composed system: Toolgate *)

\* The theorems about the ledger, of the ledger as composed here.
LedP == INSTANCE LedgerProofs
        WITH issued <- Decided(snap),
             notAfter <- IF Decided(view) THEN view.decision.notAfter ELSE None

\* v is a view the core had: the one it has, or an earlier one that no
\* decision was made in.
Follows(v) ==
    /\ v \in View
    /\ view # None
    /\ v.revision <= view.revision
    /\ v.revision = view.revision \/ Decided(v) => v = view

\* The decided view is nothing but its decision.
ShapeInv == Decided(view) =>
    view = [status |-> "decision_issued", revision |-> view.decision.revision,
            tool |-> view.decision.tool, candidates |-> {}, digest |-> None,
            decision |-> view.decision]

\* Whatever the SDK has of the core follows it; no answer in flight is a decided
\* view, which the SDK makes itself.
CopiesInv ==
    /\ \A v \in mail : Follows(v) /\ ~Decided(v)
    /\ snap # None => Follows(snap)
    /\ \A a \in Attempts : read[a] # None => Follows(read[a])

\* An attempt is at work with a snapshot that it has read; where it goes after
\* reading depends on the decision being in it.
ReadInv ==
    \A a \in Attempts :
        /\ pc[a] \notin {"idle", "done", "crashed"} => read[a] # None
        /\ pc[a] \in {"reenter", "replay"} => Decided(read[a])

\* Only a decided operation has answered a decision request.
AnsweredInv == cached # {} \/ answered # {} => Decided(view)

\* The decision is one for the tool and the arguments of a.
Fitted(a) ==
    /\ Decided(view)
    /\ read[a].tool = view.decision.tool
    /\ input[a] = view.decision.args

\* Attempts past their decision, that ran or that gave a result.
Committed(a) ==
    \/ pc[a] \in {"put", "fresh", "permit"} \cup Led!Claiming \cup Led!Owning
    \/ runs[a] > 0
    \/ code[a] = "result"

\* They were given the decision of what they asked for.
FittedInv == \A a \in Attempts : Committed(a) => Fitted(a)

JoinTypes ==
    /\ input \in [Attempts -> Args]
    /\ DOMAIN read = Attempts
    /\ view # None => view.revision >= 1

JoinInv == JoinTypes /\ ShapeInv /\ CopiesInv /\ ReadInv /\ AnsweredInv /\ FittedInv

\* The inductive invariant: the components' own, and what joins them.
Whole == IInv /\ Led!IInv /\ JoinInv
-----------------------------------------------------------------------------
(* The components' invariants in the composed system *)

\* LedP speaks of the same ledger as Led.
LEMMA SameLedger ==
    /\ LedP!LedgerAssumption
    /\ Led!Init <=> LedP!Init
    /\ [Led!Next]_(Led!vars) <=> [LedP!Next]_(LedP!vars)
    /\ Led!IInv <=> LedP!IInv
    /\ Led!IInv' <=> LedP!IInv'
<1>1. LedP!LedgerAssumption
  BY ToolgateAssumption
  DEF Led!LedgerAssumption, LedP!LedgerAssumption, Led!Row, LedP!Row, Led!RowStates,
      LedP!RowStates
<1>2. (Led!Init <=> LedP!Init) /\ ([Led!Next]_(Led!vars) <=> [LedP!Next]_(LedP!vars))
  BY DEF Led!Init, LedP!Init, Led!Next, LedP!Next, Led!vars, LedP!vars,
         Led!Start, LedP!Start, Led!Proceed, LedP!Proceed, Led!Crash, LedP!Crash,
         Led!Issue, LedP!Issue, Led!Revoke, LedP!Revoke, Led!Tick, LedP!Tick,
         Led!Enter, LedP!Enter, Led!Replay, LedP!Replay, Led!Obtain, LedP!Obtain,
         Led!Put, LedP!Put, Led!Fresh, LedP!Fresh, Led!Permit, LedP!Permit,
         Led!Claim, LedP!Claim, Led!ClaimTaken, LedP!ClaimTaken, Led!Repermit, LedP!Repermit,
         Led!CheckClaimed, LedP!CheckClaimed, Led!Withdraw, LedP!Withdraw,
         Led!Dispatch, LedP!Dispatch, Led!Invoke, LedP!Invoke, Led!Return, LedP!Return,
         Led!Record, LedP!Record, Led!GiveUp, LedP!GiveUp, Led!CallFails, LedP!CallFails,
         Led!GoTo, LedP!GoTo, Led!Answer, LedP!Answer, Led!Stored, LedP!Stored,
         Led!Beliefs, LedP!Beliefs, Led!Kept, LedP!Kept, Led!RowRefusal, LedP!RowRefusal,
         Led!BeforePermit, LedP!BeforePermit, Led!Claiming, LedP!Claiming,
         Led!FinalState, LedP!FinalState, Led!Rewrite, LedP!Rewrite,
         Led!Claimable, LedP!Claimable
<1>3. (Led!IInv <=> LedP!IInv) /\ (Led!IInv' <=> LedP!IInv')
  BY DEF Led!IInv, LedP!IInv, Led!TypeOK, LedP!TypeOK, Led!OwnerInv, LedP!OwnerInv,
         Led!ResultInv, LedP!ResultInv, Led!AnswerInv, LedP!AnswerInv,
         Led!StandingInv, LedP!StandingInv, Led!AtMostOneRun, LedP!AtMostOneRun,
         Led!LedgerIsHonest, LedP!LedgerIsHonest, Led!CallersAreWarned, LedP!CallersAreWarned,
         Led!AnswersAreTheRuns, LedP!AnswersAreTheRuns, Led!RevocationHolds,
         LedP!RevocationHolds, Led!Row, LedP!Row, Led!RowStates, LedP!RowStates,
         Led!Places, LedP!Places, Led!Codes, LedP!Codes, Led!BeforePermit, LedP!BeforePermit,
         Led!Claiming, LedP!Claiming, Led!Owning, LedP!Owning
<1> QED
  BY <1>1, <1>2, <1>3

\* The ledger's theorems, brought here.
LEMMA LedgerInductive ==
    /\ Led!Init => Led!IInv
    /\ Led!IInv /\ [Led!Next]_(Led!vars) => Led!IInv'
  BY SameLedger, LedP!Initially, LedP!Inductive

\* What a step of the core does to its view.
LEMMA CoreSteps ==
    ASSUME IInv, [Next]_vars
    PROVE  /\ Decided(view) => view' = view
           /\ view # None /\ view' # view => view'.revision = view.revision + 1
           /\ view # None => view' # None
<1>1. Decided(view) => view' = view
  BY SettledStep DEF vars, Decided
<1>2. view # None /\ view' # view => view'.revision = view.revision + 1
  BY RevisionStep DEF vars
<1>3. view # None => view' # None
  <2>1. view' = view \/ authors' # {}
    BY DEF Next, vars, Prepare, Resolve, NeedArguments, Decide, DecideAgain,
           Replay, Cancel, Receipt, Tick, Stores
  <2>2. view' = None => authors' = {}
    BY Initially, Inductive DEF IInv, NothingBefore
  <2> QED
    BY <2>1, <2>2
<1> QED
  BY <1>1, <1>2, <1>3

-----------------------------------------------------------------------------
(* Every step is a step of the core, or none *)

\* What the invariant says of types.
LEMMA Views ==
    ASSUME Whole
    PROVE  /\ view # None => view \in View /\ view.revision \in Nat
           /\ snap # None => snap \in View
           /\ Caller \in Actor
           /\ None \notin Nat
<1>1. None \notin Nat /\ Caller \in Actor
  BY ToolgateAssumption DEF Led!LedgerAssumption
<1>2. view # None => view \in View
  BY DEF Whole, IInv, TypeOK
<1>3. \A v \in View : v.revision \in Nat
  BY DEF View
<1>4. snap # None => snap \in View
  BY DEF Whole, JoinInv, CopiesInv, Follows
<1> QED
  BY <1>1, <1>2, <1>3, <1>4

\* The revisions of the views that change are those Operation's Next offers.
LEMMA Expected ==
    ASSUME Whole, NEW expected, view # None, view.revision = expected,
           view.revision < MaxRevision
    PROVE  expected \in 1..MaxRevision
<1>1. view.revision \in Nat /\ view.revision >= 1 /\ MaxRevision \in Nat
  BY Views, OperationAssumption DEF Whole, JoinInv, JoinTypes
<1> QED
  BY <1>1

\* Every step of the composition is one of Operation, or leaves it alone.
LEMMA StepOfCore == Whole /\ [SystemNext]_systemVars => [Next]_vars
<1> SUFFICES ASSUME Whole, [SystemNext]_systemVars PROVE [Next]_vars
  OBVIOUS
<1>0. Caller \in Actor /\ \A a \in Attempts : input[a] \in Args
  BY ToolgateAssumption DEF Whole, JoinInv, JoinTypes
<1>1. ASSUME NEW args \in Args, SdkPrepare(args) PROVE Next
  BY <1>0, <1>1 DEF SdkPrepare, Next
<1>2. ASSUME NEW args \in Args, NEW choice \in Tools, SdkResolve(choice, args) PROVE Next
  <2>1. Resolve(Caller, snap.revision, choice, args)
    BY <1>2 DEF SdkResolve
  <2>2. snap.revision \in 1..MaxRevision
    BY <2>1, Expected DEF Resolve, MayChange, Owns
  <2> QED
    BY <1>0, <2>1, <2>2 DEF Next
<1>3. ASSUME NEW expected \in 1..MaxRevision, ClientCancel(expected) PROVE Next
  BY <1>0, <1>3 DEF ClientCancel, Next
<1>4. ASSUME NEW a \in Attempts, CoreDecides(a) PROVE [Next]_vars
  <2>1. CASE Decide(Caller, read[a].revision, input[a])
    <3>1. read[a].revision \in 1..MaxRevision
      BY <2>1, Expected DEF Decide, Decidable, MayChange, Owns
    <3> QED
      BY <1>0, <2>1, <3>1 DEF Next
  <2>2. CASE DecideAgain(Caller, input[a])
    BY <1>0, <2>2 DEF Next
  <2>3. CASE Replay(Caller)
    BY <1>0, <2>3 DEF Next
  <2> QED
    BY <1>4, <2>1, <2>2, <2>3 DEF CoreDecides
<1>5. ASSUME NEW a \in Attempts, CoreNeedsArguments(a) PROVE Next
  <2>1. NeedArguments(Caller, read[a].revision, input[a])
    BY <1>5 DEF CoreNeedsArguments
  <2>2. read[a].revision \in 1..MaxRevision
    BY <2>1, Expected DEF NeedArguments, Decidable, MayChange, Owns
  <2> QED
    BY <1>0, <2>1, <2>2 DEF Next
<1>6. ASSUME UNCHANGED <<clock, coreVars>> PROVE UNCHANGED vars
  BY <1>6 DEF coreVars, vars
<1>7. CASE PutView
  BY <1>6, <1>7 DEF PutView
<1>8. ASSUME NEW a \in Attempts, Start(a) \/ Ask(a) \/ Obtain(a) \/ Put(a)
      PROVE UNCHANGED vars
  BY <1>6, <1>8 DEF Start, Ask, Obtain, Put
<1>9. ASSUME NEW a \in Attempts, Execute(a) PROVE UNCHANGED vars
  <2>1. UNCHANGED coreVars
    BY <1>9 DEF Execute
  <2>2. UNCHANGED clock
    BY <1>9 DEF Execute, Led!Enter, Led!Replay, Led!Fresh, Led!Permit, Led!Claim,
       Led!ClaimTaken, Led!Repermit, Led!CheckClaimed, Led!Withdraw, Led!Dispatch, Led!Invoke,
       Led!Return, Led!Record, Led!GiveUp, Led!CallFails, Led!Crash, Led!Beliefs
  <2> QED
    BY <1>6, <2>1, <2>2
<1>10. CASE Around
  <2>1. CASE Led!Revoke
    BY <1>6, <1>10, <2>1 DEF Around, Led!Revoke
  <2>2. CASE Led!Tick
    <3>1. Tick
      BY <1>10, <2>2 DEF Around, Led!Tick, coreVars, Tick
    <3> QED
      BY <3>1 DEF Next
  <2> QED
    BY <1>10, <2>1, <2>2 DEF Around
<1>11. CASE UNCHANGED systemVars
  BY <1>6, <1>11 DEF systemVars
<1> QED
  BY <1>1, <1>2, <1>3, <1>4, <1>5, <1>7, <1>8, <1>9, <1>10, <1>11 DEF SystemNext
-----------------------------------------------------------------------------
(* Every step is a step of the ledger, or none *)

\* A view that is not decided leaves the ledger where it is.
LEMMA Unnoticed ==
    ASSUME ~Decided(view), ~Decided(view'), Decided(snap)' = Decided(snap),
           UNCHANGED <<clock, ledgerVars>>
    PROVE  UNCHANGED Led!vars
  BY DEF ledgerVars, Led!vars, Decided

\* put() of a view of the core neither brings nor takes the decision, unless the view
\* is decided.
LEMMA PutFollows ==
    ASSUME Whole, NEW v, Follows(v)
    PROVE  /\ PutOver(v) = snap \/ PutOver(v) = v
           /\ Follows(PutOver(v))
           /\ Decided(snap) => PutOver(v) = snap
           /\ Decided(v) => PutOver(v) = v
<1>1. v \in View /\ v.revision \in Nat /\ view.revision \in Nat /\ view # None
  BY Views DEF Follows, View
<1>2. CASE snap = None
  BY <1>1, <1>2 DEF PutOver, Decided
<1>3. CASE snap # None
  <2>1. Follows(snap) /\ snap.revision \in Nat
    BY <1>3, Views DEF Whole, JoinInv, CopiesInv, View
  <2>2. Decided(snap) => snap = view /\ v.revision <= snap.revision
    BY <2>1 DEF Follows
  <2>3. Decided(snap) /\ ~(snap.revision > v.revision) => v = snap
    BY <1>1, <2>1, <2>2 DEF Follows
  <2>4. Decided(v) => v = view /\ snap.revision <= v.revision
    BY <2>1 DEF Follows
  <2> QED
    BY <1>1, <1>3, <2>1, <2>3, <2>4 DEF PutOver
<1> QED
  BY <1>2, <1>3

\* What the SDK makes of the decision is the view the core has.
LEMMA IssuedIsView ==
    ASSUME Whole, NEW a \in Attempts, pc[a] = "put"
    PROVE  IssuedView(a) = view /\ Decided(view) /\ Follows(view)
<1>1. Fitted(a)
  BY DEF Whole, JoinInv, FittedInv, Committed
<1>2. view = [status |-> "decision_issued", revision |-> view.decision.revision,
              tool |-> view.decision.tool, candidates |-> {}, digest |-> None,
              decision |-> view.decision]
  BY <1>1 DEF Fitted, Whole, JoinInv, ShapeInv
<1>3. IssuedView(a) = view
  BY <1>1, <1>2 DEF Fitted, IssuedView
<1>4. view # None /\ view \in View /\ view.revision \in Nat
  BY <1>1, Views DEF Fitted, Decided
<1> QED
  BY <1>1, <1>3, <1>4 DEF Fitted, Follows

\* Only Decide brings a decision, and the one it brings is all there is to the view.
LEMMA Bringing ==
    ASSUME Whole
    PROVE  /\ \A known \in Args : Prepare(Caller, known) => view = None /\ ~Decided(view')
           /\ \A e, choice, args : Resolve(Caller, e, choice, args)
                                   => ~Decided(view) /\ ~Decided(view')
           /\ \A e : Cancel(Caller, e) => ~Decided(view) /\ ~Decided(view')
           /\ \A e, args : NeedArguments(Caller, e, args)
                           => ~Decided(view) /\ ~Decided(view')
<1>1. ASSUME NEW known \in Args, Prepare(Caller, known)
      PROVE view = None /\ ~Decided(view')
  <2>1. \/ \E status \in {"no_match", "needs_choice"} : \E candidates :
              view' = Bare(status, 1, candidates)
        \/ \E tool : view' = Ready(1, tool, known)
    BY <1>1 DEF Prepare, Stores
  <2>2. ~Decided(view')
    <3>1. ASSUME NEW status \in {"no_match", "needs_choice"}, NEW candidates,
                 view' = Bare(status, 1, candidates)
          PROVE  ~Decided(view')
      BY <3>1 DEF Bare, Decided
    <3>2. ASSUME NEW tool, view' = Ready(1, tool, known) PROVE ~Decided(view')
      BY <3>2 DEF Ready, Decided
    <3> QED
      BY <2>1, <3>1, <3>2
  <2> QED
    BY <1>1, <2>2 DEF Prepare
<1>2. ASSUME NEW e, NEW choice, NEW args, Resolve(Caller, e, choice, args)
      PROVE ~Decided(view) /\ ~Decided(view')
  BY <1>2 DEF Resolve, Stores, Ready, Decided
<1>3. ASSUME NEW e, Cancel(Caller, e) PROVE ~Decided(view) /\ ~Decided(view')
  BY <1>3 DEF Cancel, Stores, Bare, Decided
<1>4. ASSUME NEW e, NEW args, NeedArguments(Caller, e, args)
      PROVE ~Decided(view) /\ ~Decided(view')
  BY <1>4 DEF NeedArguments, Decidable, Stores, Ready, Decided
<1> QED
  BY <1>1, <1>2, <1>3, <1>4

\* Decide brings a view that is nothing but its decision, with a future not_after.
LEMMA DecisionShape ==
    ASSUME Whole, NEW e, NEW args, Decide(Caller, e, args)
    PROVE  /\ ~Decided(view) /\ view # None /\ Decided(view')
           /\ view' = [status |-> "decision_issued", revision |-> view'.decision.revision,
                       tool |-> view'.decision.tool, candidates |-> {}, digest |-> None,
                       decision |-> view'.decision]
           /\ \E life \in 1..DecisionLife : view'.decision.notAfter = clock + life
           /\ clock' = clock
<1> DEFINE d == [revision |-> view.revision + 1, tool |-> view.tool,
                 args |-> args, issued |-> clock, notAfter |-> Expiry]
           v == [status |-> "decision_issued", revision |-> view.revision + 1,
                 tool |-> view.tool, candidates |-> {}, digest |-> None, decision |-> d]
<1>1. view' = v /\ clock' = clock /\ view # None /\ view.status # "decision_issued"
      /\ clock + MinLife <= Expiry /\ authors' # {}
  BY DEF Decide, Decidable, MayChange, Owns, Stores
<1>2. view' # None
  <2>1. [Next]_vars
    <3>1. e \in 1..MaxRevision
      BY Expected DEF Decide, Decidable, MayChange, Owns
    <3>2. CASE args \in Args
      BY <3>1, <3>2, Views DEF Next
    <3>3. args \in Args
      BY OperationAssumption DEF Decide
    <3> QED
      BY <3>2, <3>3
  <2> QED
    BY <1>1, <2>1, CoreSteps DEF Whole
<1>3. \E life \in 1..DecisionLife : Expiry = clock + life
  <2>1. clock \in Nat /\ expires \in Nat /\ MinLife \in Nat \ {0} /\ DecisionLife \in Nat
    BY OperationAssumption DEF Whole, IInv, TypeOK
  <2>2. Expiry \in Nat /\ Expiry <= clock + DecisionLife
    BY <2>1 DEF Expiry
  <2>3. Expiry - clock \in 1..DecisionLife /\ Expiry = clock + (Expiry - clock)
    BY <1>1, <2>1, <2>2
  <2> QED
    BY <2>3
<1>4. Decided(v)
  BY <1>1, <1>2 DEF Decided
<1> QED
  BY <1>1, <1>3, <1>4, <1>2 DEF Decided

\* Every step of the composition is one of Ledger, or leaves it alone.
LEMMA StepOfLedger == Whole /\ [SystemNext]_systemVars => [Led!Next]_(Led!vars)
<1> SUFFICES ASSUME Whole, [SystemNext]_systemVars PROVE [Led!Next]_(Led!vars)
  OBVIOUS
<1>a. view = None => snap = None
  BY DEF Whole, JoinInv, CopiesInv, Follows
<1>1. ASSUME NEW args \in Args, SdkPrepare(args) PROVE UNCHANGED Led!vars
  <2>1. ~Decided(view) /\ ~Decided(view')
    BY <1>1, Bringing DEF SdkPrepare, Decided
  <2> QED
    BY <1>1, <2>1, Unnoticed DEF SdkPrepare, Prepare, Decided
<1>2. ASSUME NEW args \in Args, NEW choice \in Tools, SdkResolve(choice, args)
      PROVE UNCHANGED Led!vars
  <2>1. ~Decided(view) /\ ~Decided(view')
    BY <1>2, Bringing DEF SdkResolve
  <2> QED
    BY <1>2, <2>1, Unnoticed DEF SdkResolve, Resolve, Decided
<1>3. ASSUME NEW expected \in 1..MaxRevision, ClientCancel(expected) PROVE UNCHANGED Led!vars
  <2>1. ~Decided(view) /\ ~Decided(view')
    BY <1>3, Bringing DEF ClientCancel
  <2> QED
    BY <1>3, <2>1, Unnoticed DEF ClientCancel, Cancel, Decided, sdkVars
<1>4. CASE PutView
  <2>1. PICK v \in mail : snap' = PutOver(v)
    BY <1>4 DEF PutView
  <2>2. Follows(v) /\ ~Decided(v)
    BY DEF Whole, JoinInv, CopiesInv
  <2>3. Decided(PutOver(v)) = Decided(snap)
    BY <2>2, PutFollows DEF Decided
  <2> QED
    BY <1>4, <2>1, <2>3 DEF PutView, coreVars, ledgerVars, Led!vars, Decided
<1>5. ASSUME NEW a \in Attempts, Start(a) PROVE Led!Next
  <2>1. Led!Start(a)
    BY <1>5 DEF Start, coreVars, Led!Start, Led!Beliefs, Led!GoTo, Decided
  <2> QED
    BY <2>1 DEF Led!Next
<1>6. ASSUME NEW a \in Attempts, Ask(a) PROVE UNCHANGED Led!vars
  BY <1>6 DEF Ask, coreVars, ledgerVars, Led!vars, Decided
<1>7. ASSUME NEW a \in Attempts, CoreDecides(a) PROVE [Led!Next]_(Led!vars)
  <2>0. UNCHANGED <<snap, ledgerVars>>
    BY <1>7 DEF CoreDecides
  <2>1. CASE Decide(Caller, read[a].revision, input[a])
    <3>1. Led!Issue
      BY <2>0, <2>1, DecisionShape DEF Led!Issue, ledgerVars, Decided
    <3> QED
      BY <3>1 DEF Led!Next
  <2>2. CASE UNCHANGED <<clock, view>>
    BY <2>0, <2>2 DEF Led!vars, ledgerVars, Decided
  <2> QED
    BY <1>7, <2>1, <2>2 DEF CoreDecides, DecideAgain, Replay, coreVars
<1>8. ASSUME NEW a \in Attempts, CoreNeedsArguments(a) PROVE UNCHANGED Led!vars
  <2>1. ~Decided(view) /\ ~Decided(view')
    BY <1>8, Bringing DEF CoreNeedsArguments
  <2> QED
    BY <1>8, <2>1, Unnoticed DEF CoreNeedsArguments, NeedArguments, Decided
<1>9. ASSUME NEW a \in Attempts, Obtain(a) PROVE Led!Next
  <2>1. Decided(view) /\ view.decision.notAfter # None
    <3>1. Decided(view)
      BY <1>9 DEF Obtain, Whole, JoinInv, AnsweredInv
    <3>2. view \in View /\ view.decision # None
      BY <3>1, Views DEF Decided, Whole, IInv, ViewInv
    <3>3. view.decision.notAfter \in Nat
      BY <3>2 DEF View, Decision
    <3> QED
      BY <3>1, <3>3, Views
  <2>2. Led!Obtain(a)
    BY <1>9, <2>1 DEF Obtain, coreVars, sdkVars, Led!Obtain, Led!Beliefs, Led!GoTo, Decided
  <2> QED
    BY <2>2 DEF Led!Next, Led!Proceed
<1>10. ASSUME NEW a \in Attempts, Put(a) PROVE Led!Next
  <2>1. snap' = view /\ Decided(view)
    BY <1>10, IssuedIsView, PutFollows DEF Put
  <2>2. Led!Put(a)
    BY <1>10, <2>1 DEF Put, coreVars, Led!Put, Led!Beliefs, Decided
  <2> QED
    BY <2>2 DEF Led!Next, Led!Proceed
<1>11. ASSUME NEW a \in Attempts, Execute(a) PROVE Led!Next
  BY <1>11 DEF Execute, Led!Next, Led!Proceed
<1>12. CASE Around
  BY <1>12 DEF Around, Led!Next
<1>13. CASE UNCHANGED systemVars
  BY <1>13 DEF systemVars, coreVars, ledgerVars, sdkVars, Led!vars, Decided
<1> QED
  BY <1>1, <1>2, <1>3, <1>4, <1>5, <1>6, <1>7, <1>8, <1>9, <1>10, <1>11, <1>12,
       <1>13 DEF SystemNext
-----------------------------------------------------------------------------
(* The invariant is inductive *)

\* The invariant holds at first.
LEMMA WholeInitially == SystemInit => Whole
<1> SUFFICES ASSUME SystemInit PROVE Whole
  OBVIOUS
<1>1. IInv /\ Led!IInv
  BY Initially, Inductive, LedgerInductive DEF SystemInit
<1>2. JoinInv
  BY DEF SystemInit, JoinInv, JoinTypes, ShapeInv, CopiesInv, ReadInv, AnsweredInv, FittedInv,
       Committed,
         Decided, Init, Led!Init, Led!Claiming, Led!Owning
<1> QED
  BY <1>1, <1>2 DEF Whole

\* What follows the core goes on following it.
FollowsNext(v) ==
    /\ v \in View
    /\ view' # None
    /\ v.revision <= view'.revision
    /\ v.revision = view'.revision \/ Decided(v) => v = view'

\* A copy that follows the core still does after a step.
LEMMA StillFollows ==
    ASSUME Whole, [Next]_vars, NEW v, Follows(v)
    PROVE  FollowsNext(v)
<1>1. v \in View /\ v.revision \in Nat /\ view.revision \in Nat /\ view # None
  BY Views DEF Follows, View
<1>2. view' # None
  BY <1>1, CoreSteps DEF Whole
<1>3. CASE view' = view
  BY <1>3 DEF Follows, FollowsNext
<1>4. CASE view' # view
  <2>1. ~Decided(view) /\ view'.revision = view.revision + 1
    BY <1>1, <1>4, CoreSteps DEF Whole
  <2>2. ~Decided(v) /\ v.revision <= view.revision
    BY <2>1 DEF Follows
  <2> QED
    BY <1>1, <1>2, <2>1, <2>2 DEF FollowsNext
<1> QED
  BY <1>3, <1>4

\* Answers in flight, the snapshot and what was read go on following the core.
LEMMA CopiesStep == Whole /\ [SystemNext]_systemVars => CopiesInv'
<1> SUFFICES ASSUME Whole, [SystemNext]_systemVars PROVE CopiesInv'
  OBVIOUS
<1>0. \A v : Follows(v) => FollowsNext(v)
  BY StepOfCore, StillFollows
<1>1. \A v \in mail' : FollowsNext(v) /\ ~Decided(v)
  <2>1. ASSUME ~Decided(view'), view' # None PROVE FollowsNext(view') /\ ~Decided(view')
    <3>1. view' \in View
      BY <2>1, StepOfCore, Initially, Inductive DEF Whole, IInv, TypeOK
    <3>2. view'.revision \in Nat
      BY <3>1 DEF View
    <3> QED
      BY <2>1, <3>1, <3>2 DEF FollowsNext
  <2>2. \/ mail' = mail
        \/ mail' \in {{view'}, mail \cup {view'}} /\ ~Decided(view') /\ view' # None
    <3>1. ASSUME NEW args \in Args, SdkPrepare(args)
          PROVE  mail' = {view'} /\ ~Decided(view') /\ view' # None
      <4>1. authors' # {}
        BY <3>1 DEF SdkPrepare, Prepare, Stores
      <4>2. view' # None
        BY <4>1, StepOfCore, Initially, Inductive DEF Whole, IInv, NothingBefore
      <4> QED
        BY <3>1, <4>2, Bringing DEF SdkPrepare
    <3>2. ASSUME NEW args \in Args, NEW choice \in Tools, SdkResolve(choice, args)
          PROVE  mail' = mail \cup {view'} /\ ~Decided(view') /\ view' # None
      <4>1. view # None
        BY <3>2 DEF SdkResolve, Resolve, MayChange, Owns
      <4>2. view' # None
        BY <4>1, StepOfCore, CoreSteps DEF Whole
      <4> QED
        BY <3>2, <4>2, Bringing DEF SdkResolve
    <3>3. ASSUME NEW a \in Attempts, CoreNeedsArguments(a)
          PROVE  mail' = mail \cup {view'} /\ ~Decided(view') /\ view' # None
      <4>1. view # None
        BY <3>3 DEF CoreNeedsArguments, NeedArguments, Decidable, MayChange, Owns
      <4>2. view' # None
        BY <4>1, StepOfCore, CoreSteps DEF Whole
      <4> QED
        BY <3>3, <4>2, Bringing DEF CoreNeedsArguments
    <3>4. \/ mail' = mail
          \/ \E args \in Args : SdkPrepare(args) \/ \E choice \in Tools : SdkResolve(choice, args)
          \/ \E a \in Attempts : CoreNeedsArguments(a)
      BY DEF SystemNext, systemVars, sdkVars, ClientCancel, PutView, Start, Ask, CoreDecides,
           Obtain, Put, Execute,
         Around
    <3> QED
      BY <3>1, <3>2, <3>3, <3>4
  <2>3. \A v \in mail : FollowsNext(v) /\ ~Decided(v)
    BY <1>0 DEF Whole, JoinInv, CopiesInv
  <2> QED
    BY <2>1, <2>2, <2>3
<1>2. snap' # None => FollowsNext(snap')
  <2>1. snap # None => FollowsNext(snap)
    BY <1>0 DEF Whole, JoinInv, CopiesInv
  <2>2. CASE PutView
    <3>1. PICK v \in mail : snap' = PutOver(v)
      BY <2>2 DEF PutView
    <3>2. Follows(PutOver(v))
      BY PutFollows DEF Whole, JoinInv, CopiesInv
    <3> QED
      BY <1>0, <3>1, <3>2
  <2>3. ASSUME NEW a \in Attempts, Put(a) PROVE FollowsNext(snap')
    <3>1. snap' = view /\ Follows(view)
      BY <2>3, IssuedIsView, PutFollows DEF Put
    <3> QED
      BY <1>0, <3>1
  <2>4. snap' = snap \/ PutView \/ \E a \in Attempts : Put(a)
    BY DEF SystemNext, systemVars, sdkVars, SdkPrepare, SdkResolve, ClientCancel, Start, Ask,
         CoreDecides,
       CoreNeedsArguments, Obtain, Execute, Around
  <2> QED
    BY <2>1, <2>2, <2>3, <2>4
<1>3. \A a \in Attempts : read'[a] # None => FollowsNext(read'[a])
  <2>1. \A a \in Attempts : read[a] # None => FollowsNext(read[a])
    BY <1>0 DEF Whole, JoinInv, CopiesInv
  <2>2. ASSUME NEW a \in Attempts, Start(a)
        PROVE  \A b \in Attempts : read'[b] # None => FollowsNext(read'[b])
    <3>1. read' = [read EXCEPT ![a] = snap] /\ snap # None /\ DOMAIN read = Attempts
      BY <2>2 DEF Start, Whole, JoinInv, JoinTypes
    <3>2. FollowsNext(snap)
      BY <1>0, <3>1 DEF Whole, JoinInv, CopiesInv
    <3> QED
      BY <2>1, <3>1, <3>2
  <2>3. read' = read \/ \E a \in Attempts : Start(a)
    BY DEF SystemNext, systemVars, sdkVars, SdkPrepare, SdkResolve, ClientCancel, PutView, Ask,
         CoreDecides,
       CoreNeedsArguments, Obtain, Put, Execute, Around
  <2> QED
    BY <2>1, <2>2, <2>3
<1> QED
  BY <1>1, <1>2, <1>3 DEF CopiesInv, Follows, FollowsNext

\* The decision comes with the core's Decide, and from nothing else.
LEMMA Brought ==
    ASSUME Whole, [SystemNext]_systemVars, ~Decided(view), Decided(view')
    PROVE  \E a \in Attempts : CoreDecides(a) /\ Decide(Caller, read[a].revision, input[a])
<1>1. ~(\E args \in Args : SdkPrepare(args) \/ \E choice \in Tools : SdkResolve(choice, args))
  BY Bringing DEF SdkPrepare, SdkResolve
<1>2. ~(\E e \in 1..MaxRevision : ClientCancel(e)) /\ ~(\E a \in Attempts : CoreNeedsArguments(a))
  BY Bringing DEF ClientCancel, CoreNeedsArguments
<1>3. view' # view
  BY DEF Decided
<1>4. ~PutView /\ ~UNCHANGED systemVars /\ ~Around
  BY <1>3 DEF PutView, systemVars, Around, coreVars
<1>5. ~(\E a \in Attempts : Start(a) \/ Ask(a) \/ Obtain(a) \/ Put(a) \/ Execute(a))
  BY <1>3 DEF Start, Ask, Obtain, Put, Execute, coreVars
<1>6. PICK a \in Attempts : CoreDecides(a)
  BY <1>1, <1>2, <1>4, <1>5 DEF SystemNext
<1>7. Decide(Caller, read[a].revision, input[a])
  BY <1>3, <1>6 DEF CoreDecides, DecideAgain, Replay, coreVars
<1> QED
  BY <1>6, <1>7

\* Types are kept; prepare starts the revisions at 1.
LEMMA TypeStep == Whole /\ [SystemNext]_systemVars => JoinTypes'
<1> SUFFICES ASSUME Whole, [SystemNext]_systemVars PROVE JoinTypes'
  OBVIOUS
<1>1. input' = input /\ DOMAIN read' = DOMAIN read
  BY DEF SystemNext, systemVars, sdkVars, SdkPrepare, SdkResolve, ClientCancel, PutView, Start,
       Ask, CoreDecides,
       CoreNeedsArguments, Obtain, Put, Execute, Around
<1>2. CASE view # None
  <2>1. view.revision \in Nat /\ view.revision >= 1
    BY <1>2, Views DEF Whole, JoinInv, JoinTypes
  <2>2. view' = view \/ view'.revision = view.revision + 1
    BY <1>2, StepOfCore, CoreSteps DEF Whole
  <2>3. view'.revision >= 1
    BY <2>1, <2>2
  <2> QED
    BY <1>1, <2>3 DEF Whole, JoinInv, JoinTypes
<1>3. CASE view = None /\ view' # None
  <2>1. PICK args \in Args : SdkPrepare(args)
    <3>1. ~(\E args \in Args, choice \in Tools : SdkResolve(choice, args))
      BY <1>3 DEF SdkResolve, Resolve, MayChange, Owns
    <3>2. ~(\E e \in 1..MaxRevision : ClientCancel(e))
      BY <1>3 DEF ClientCancel, Cancel, MayChange, Owns
    <3>3. ~PutView /\ ~Around /\ ~UNCHANGED systemVars
      BY <1>3 DEF PutView, Around, systemVars, coreVars
    <3>4. ~(\E a \in Attempts : Start(a) \/ Ask(a) \/ Obtain(a) \/ Put(a) \/ Execute(a))
      BY <1>3 DEF Start, Ask, Obtain, Put, Execute, coreVars
    <3>5. ~(\E a \in Attempts : CoreDecides(a))
      BY <1>3 DEF CoreDecides, Decide, Decidable, DecideAgain, Replay, MayChange, Owns
    <3>6. ~(\E a \in Attempts : CoreNeedsArguments(a))
      BY <1>3 DEF CoreNeedsArguments, NeedArguments, Decidable, MayChange, Owns
    <3> QED
      BY <3>1, <3>2, <3>3, <3>4, <3>5, <3>6 DEF SystemNext
  <2>2. \/ \E status, candidates : view' = Bare(status, 1, candidates)
        \/ \E tool : view' = Ready(1, tool, args)
    BY <2>1 DEF SdkPrepare, Prepare, Stores
  <2>3. view'.revision = 1
    <3>1. \A status, candidates : Bare(status, 1, candidates).revision = 1
      BY DEF Bare
    <3>2. \A tool : Ready(1, tool, args).revision = 1
      BY DEF Ready
    <3> QED
      BY <2>2, <3>1, <3>2
  <2>4. view'.revision >= 1
    BY <2>3
  <2> QED
    BY <1>1, <2>4 DEF Whole, JoinInv, JoinTypes
<1>4. CASE view' = None
  BY <1>1, <1>4 DEF Whole, JoinInv, JoinTypes
<1> QED
  BY <1>2, <1>3, <1>4

\* A decided view stays nothing but its decision.
LEMMA ShapeStep == Whole /\ [SystemNext]_systemVars => ShapeInv'
<1> SUFFICES ASSUME Whole, [SystemNext]_systemVars, Decided(view') PROVE ShapeInv'
  BY DEF ShapeInv, Decided
<1>1. CASE Decided(view)
  <2>1. view' = view
    BY <1>1, StepOfCore, CoreSteps DEF Whole
  <2> QED
    BY <1>1, <2>1 DEF Whole, JoinInv, ShapeInv
<1>2. CASE ~Decided(view)
  BY <1>2, Brought, DecisionShape DEF ShapeInv
<1> QED
  BY <1>1, <1>2

\* Answers come from a decided core.
LEMMA AnsweredStep == Whole /\ [SystemNext]_systemVars => AnsweredInv'
<1> SUFFICES ASSUME Whole, [SystemNext]_systemVars PROVE AnsweredInv'
  OBVIOUS
<1>1. CASE Decided(view)
  <2>1. view' = view
    BY <1>1, StepOfCore, CoreSteps DEF Whole
  <2> QED
    BY <1>1, <2>1 DEF AnsweredInv, Decided
<1>2. CASE ~Decided(view)
  <2>1. cached = {} /\ answered = {}
    BY <1>2 DEF Whole, JoinInv, AnsweredInv
  <2>2. ASSUME NEW a \in Attempts, CoreDecides(a) PROVE Decided(view')
    <3>1. Decide(Caller, read[a].revision, input[a])
      BY <1>2, <2>1, <2>2, Views DEF CoreDecides, DecideAgain, MayChange, Owns, Decided
    <3> QED
      BY <3>1, DecisionShape
  <2>3. UNCHANGED <<cached, answered>> \/ \E a \in Attempts : CoreDecides(a)
    BY DEF SystemNext, systemVars, sdkVars, SdkPrepare, SdkResolve, ClientCancel, PutView,
         Start, Ask,
       CoreNeedsArguments, Obtain, Put, Execute, Around
  <2> QED
    BY <2>1, <2>2, <2>3 DEF AnsweredInv, Decided
<1> QED
  BY <1>1, <1>2

\* What a step of the ledger alone does to the attempts.
LEMMA Executing ==
    ASSUME Whole, NEW a \in Attempts, Execute(a)
    PROVE  /\ UNCHANGED <<input, read, view>>
           /\ \A b \in Attempts \ {a} :
                 pc'[b] = pc[b] /\ code'[b] = code[b] /\ runs'[b] = runs[b]
           /\ pc'[a] \notin {"idle", "done", "crashed"}
              => pc[a] \notin {"idle", "done", "crashed"}
           /\ pc'[a] \in {"reenter", "replay"} => pc[a] = "reenter"
           /\ Committed(a)' => Committed(a) \/ (pc[a] = "replay" /\ ReplayFits(a))
<1> DEFINE Effect ==
       /\ \A b \in Attempts \ {a} :
             pc'[b] = pc[b] /\ code'[b] = code[b] /\ runs'[b] = runs[b]
       /\ pc'[a] \notin {"idle", "done", "crashed"}
          => pc[a] \notin {"idle", "done", "crashed"}
       /\ pc'[a] \in {"reenter", "replay"} => pc[a] = "reenter"
       /\ Committed(a)' => Committed(a) \/ (pc[a] = "replay" /\ ReplayFits(a))
<1>0. /\ pc \in [Attempts -> Led!Places] /\ code \in [Attempts -> Led!Codes]
      /\ runs \in [Attempts -> Nat]
  BY DEF Whole, Led!IInv, Led!TypeOK
<1> USE DEF Led!GoTo, Led!Answer, Led!Stored, Led!Beliefs, Committed, Led!Claiming, Led!Owning
<1>1. ASSUME Led!Enter(a) PROVE Effect
  BY <1>0, <1>1 DEF Led!Enter
<1>2. ASSUME Led!Replay(a), ReplayFits(a) PROVE Effect
  BY <1>0, <1>2 DEF Led!Replay
<1>3. ASSUME Led!Fresh(a) PROVE Effect
  BY <1>0, <1>3 DEF Led!Fresh
<1>4. ASSUME Led!Permit(a) PROVE Effect
  BY <1>0, <1>4 DEF Led!Permit
<1>5. ASSUME Led!Claim(a) PROVE Effect
  BY <1>0, <1>5 DEF Led!Claim
<1>6. ASSUME Led!ClaimTaken(a) PROVE Effect
  BY <1>0, <1>6 DEF Led!ClaimTaken
<1>7. ASSUME Led!Repermit(a) PROVE Effect
  BY <1>0, <1>7 DEF Led!Repermit
<1>8. ASSUME Led!CheckClaimed(a) PROVE Effect
  BY <1>0, <1>8 DEF Led!CheckClaimed
<1>9. ASSUME Led!Withdraw(a) PROVE Effect
  BY <1>0, <1>9 DEF Led!Withdraw
<1>10. ASSUME Led!Dispatch(a) PROVE Effect
  BY <1>0, <1>10 DEF Led!Dispatch
<1>11. ASSUME Led!Invoke(a) PROVE Effect
  BY <1>0, <1>11 DEF Led!Invoke
<1>12. ASSUME Led!Return(a) PROVE Effect
  BY <1>0, <1>12 DEF Led!Return
<1>13. ASSUME Led!Record(a) PROVE Effect
  BY <1>0, <1>13 DEF Led!Record
<1>14. ASSUME Led!GiveUp(a) PROVE Effect
  BY <1>0, <1>14 DEF Led!GiveUp
<1>15. ASSUME Led!CallFails(a) PROVE Effect
  BY <1>0, <1>15 DEF Led!CallFails
<1>16. ASSUME Led!Crash(a) PROVE Effect
  BY <1>0, <1>16 DEF Led!Crash
<1>17. UNCHANGED <<input, read, view>>
  BY DEF Execute, coreVars, sdkVars
<1> HIDE DEF Effect
<1>18. Effect
  BY <1>1, <1>2, <1>3, <1>4, <1>5, <1>6, <1>7, <1>8, <1>9, <1>10, <1>11, <1>12, <1>13,
     <1>14, <1>15, <1>16 DEF Execute
<1> QED
  BY <1>17, <1>18 DEF Effect

\* The steps in which no attempt is at work.
LEMMA Elsewhere ==
    ASSUME [SystemNext]_systemVars
    PROVE  \/ UNCHANGED <<input, read, pc, code, runs>>
           \/ \E a \in Attempts : Start(a) \/ Obtain(a) \/ Put(a) \/ Execute(a)
  BY DEF SystemNext, systemVars, ledgerVars, sdkVars, SdkPrepare, SdkResolve, ClientCancel,
       PutView, Ask, CoreDecides,
         CoreNeedsArguments, Around, Led!Revoke, Led!Tick

\* Attempts work with what they have read.
LEMMA ReadStep == Whole /\ [SystemNext]_systemVars => ReadInv'
<1> SUFFICES ASSUME Whole, [SystemNext]_systemVars PROVE ReadInv'
  OBVIOUS
<1>0. pc \in [Attempts -> Led!Places] /\ DOMAIN read = Attempts
  BY DEF Whole, Led!IInv, Led!TypeOK, JoinInv, JoinTypes
<1>1. CASE UNCHANGED <<input, read, pc, code, runs>>
  BY <1>1 DEF Whole, JoinInv, ReadInv, Decided
<1>2. ASSUME NEW a \in Attempts, Start(a) PROVE ReadInv'
  BY <1>0, <1>2 DEF Start, Led!GoTo, Whole, JoinInv, ReadInv, Decided
<1>3. ASSUME NEW a \in Attempts, Obtain(a) PROVE ReadInv'
  BY <1>0, <1>3 DEF Obtain, Led!GoTo, sdkVars, Whole, JoinInv, ReadInv, Decided
<1>4. ASSUME NEW a \in Attempts, Put(a) PROVE ReadInv'
  BY <1>0, <1>4 DEF Put, Led!Stored, Led!GoTo, Led!Answer, Whole, JoinInv, ReadInv, Decided
<1>5. ASSUME NEW a \in Attempts, Execute(a) PROVE ReadInv'
  BY <1>5, Executing DEF Whole, JoinInv, ReadInv, Decided
<1> QED
  BY <1>1, <1>2, <1>3, <1>4, <1>5, Elsewhere

\* Whoever is committed was given the decision of what it asked for.
LEMMA FittedStep == Whole /\ [SystemNext]_systemVars => FittedInv'
<1> SUFFICES ASSUME Whole, [SystemNext]_systemVars PROVE FittedInv'
  OBVIOUS
<1>0. /\ pc \in [Attempts -> Led!Places] /\ code \in [Attempts -> Led!Codes]
      /\ runs \in [Attempts -> Nat] /\ DOMAIN read = Attempts
  BY DEF Whole, Led!IInv, Led!TypeOK, JoinInv, JoinTypes
<1>1. ASSUME NEW a \in Attempts, Fitted(a), input'[a] = input[a], read'[a] = read[a]
      PROVE  Fitted(a)'
  <2>1. view' = view
    BY <1>1, StepOfCore, CoreSteps DEF Whole, Fitted
  <2> QED
    BY <1>1, <2>1 DEF Fitted, Decided
<1>2. \A a \in Attempts : Committed(a) => Fitted(a)
  BY DEF Whole, JoinInv, FittedInv
<1>3. CASE UNCHANGED <<input, read, pc, code, runs>>
  BY <1>1, <1>2, <1>3 DEF FittedInv, Committed
<1>4. ASSUME NEW a \in Attempts, Start(a) PROVE FittedInv'
  <2>1. runs[a] = 0 /\ code[a] = "none" /\ pc[a] = "idle"
    BY <1>4 DEF Start, Whole, Led!IInv, Led!OwnerInv, Led!AnswerInv, Led!BeforePermit
  <2>2. /\ pc' = [pc EXCEPT ![a] = IF Decided(snap) THEN "reenter" ELSE "enter"]
        /\ code' = code /\ runs' = runs /\ input' = input
        /\ \A b \in Attempts \ {a} : read'[b] = read[b]
    BY <1>0, <1>4 DEF Start, Led!GoTo
  <2>3. ~Committed(a)'
    BY <1>0, <2>1, <2>2 DEF Committed, Led!Claiming, Led!Owning
  <2>4. ASSUME NEW b \in Attempts \ {a}, Committed(b)' PROVE Fitted(b)'
    <3>1. Committed(b)
      BY <1>0, <2>2, <2>4 DEF Committed
    <3> QED
      BY <1>1, <1>2, <2>2, <3>1
  <2> QED
    BY <2>3, <2>4 DEF FittedInv
<1>5. ASSUME NEW a \in Attempts, Obtain(a) PROVE FittedInv'
  <2>1. /\ pc' = [pc EXCEPT ![a] = "put"] /\ Fits(a) /\ a \in answered
        /\ UNCHANGED <<code, runs, input, read>>
    BY <1>5 DEF Obtain, Led!GoTo, sdkVars
  <2>2. Fitted(a)
    BY <2>1 DEF Fits, Fitted, Whole, JoinInv, AnsweredInv
  <2>3. ASSUME NEW b \in Attempts \ {a}, Committed(b)' PROVE Committed(b)
    BY <1>0, <2>1, <2>3 DEF Committed
  <2> QED
    BY <1>1, <1>2, <2>1, <2>2, <2>3 DEF FittedInv
<1>6. ASSUME NEW a \in Attempts, Put(a) PROVE FittedInv'
  <2>1. /\ pc[a] = "put" /\ UNCHANGED <<runs, input, read>>
        /\ \A b \in Attempts \ {a} : pc'[b] = pc[b] /\ code'[b] = code[b]
    BY <1>0, <1>6 DEF Put, Led!Stored, Led!GoTo, Led!Answer
  <2>2. Committed(a)
    BY <2>1 DEF Committed
  <2>3. ASSUME NEW b \in Attempts \ {a}, Committed(b)' PROVE Committed(b)
    BY <2>1, <2>3 DEF Committed
  <2> QED
    BY <1>1, <1>2, <2>1, <2>2, <2>3 DEF FittedInv
<1>7. ASSUME NEW a \in Attempts, Execute(a) PROVE FittedInv'
  <2>1. UNCHANGED <<input, read, view>>
    BY <1>7, Executing
  <2>2. CASE pc[a] = "replay" /\ ReplayFits(a)
    <3>1. Decided(read[a]) /\ read[a] = view
      BY <2>2 DEF Whole, JoinInv, ReadInv, CopiesInv, Follows, Decided
    <3>2. view.tool = view.decision.tool
      BY <3>1 DEF Whole, JoinInv, ShapeInv
    <3> QED
      BY <1>1, <1>2, <1>7, <2>1, <2>2, <3>1, <3>2, Executing
         DEF FittedInv, Fitted, ReplayFits, Committed
  <2>3. CASE ~(pc[a] = "replay" /\ ReplayFits(a))
    <3>1. \A b \in Attempts : Committed(b)' => Committed(b)
      BY <1>7, <2>3, Executing DEF Committed
    <3> QED
      BY <1>1, <1>2, <2>1, <3>1 DEF FittedInv
  <2> QED
    BY <2>2, <2>3
<1> QED
  BY <1>3, <1>4, <1>5, <1>6, <1>7, Elsewhere

\* Every step keeps the whole invariant.
LEMMA WholeInductive == Whole /\ [SystemNext]_systemVars => Whole'
<1> SUFFICES ASSUME Whole, [SystemNext]_systemVars PROVE Whole'
  OBVIOUS
<1>1. IInv'
  BY StepOfCore, Initially, Inductive DEF Whole
<1>2. Led!IInv'
  BY StepOfLedger, LedgerInductive DEF Whole
<1>3. JoinInv'
  BY TypeStep, ShapeStep, CopiesStep, ReadStep, AnsweredStep, FittedStep DEF JoinInv
<1> QED
  BY <1>1, <1>2, <1>3 DEF Whole

-----------------------------------------------------------------------------
\* The invariants of the core, of the ledger and of what joins them hold in every
\* reachable state.
THEOREM WholeInvariance == SystemSpec => []Whole
<1>1. Whole /\ [SystemNext]_systemVars => Whole'
  BY WholeInductive
<1> QED
  BY WholeInitially, <1>1, PTL DEF SystemSpec

\* The composed system implements Operation: what the SDK sends, late, twice or for a
\* caller that gave up, is nothing the core's own specification does not allow.
THEOREM ImplementsCore == SystemSpec => Spec
<1>1. SystemInit => Init
  BY DEF SystemInit
<1>2. Whole /\ [SystemNext]_systemVars => [Next]_vars
  BY StepOfCore
<1> QED
  BY <1>1, <1>2, WholeInvariance, PTL DEF SystemSpec, Spec

\* It implements Ledger: the decision is issued once, reaches an attempt only then, and
\* the snapshot that has it stays.
THEOREM LedgerRefined == SystemSpec => ImplementsLedger
<1>1. SystemInit => Led!Init
  BY DEF SystemInit
<1>2. Whole /\ [SystemNext]_systemVars => [Led!Next]_(Led!vars)
  BY StepOfLedger
<1> QED
  BY <1>1, <1>2, WholeInvariance, PTL DEF SystemSpec, Led!Spec, ImplementsLedger

\* So the promises of both hold end to end: decisions are vouched for in their window and
\* for their owner only; the ledger is honest, callers are warned and told what the run
\* produced, and a revocation is respected.
THEOREM PromisesHold ==
    SystemSpec =>
        [](/\ GrantsAreValid /\ DecisionIsAuthorised
           /\ Led!AtMostOneRun /\ Led!LedgerIsHonest /\ Led!CallersAreWarned
           /\ Led!AnswersAreTheRuns /\ Led!RevocationHolds)
<1>1. Whole => /\ GrantsAreValid /\ DecisionIsAuthorised
               /\ Led!AtMostOneRun /\ Led!LedgerIsHonest /\ Led!CallersAreWarned
               /\ Led!AnswersAreTheRuns /\ Led!RevocationHolds
  BY DEF Whole, IInv, Led!IInv
<1> QED
  BY <1>1, WholeInvariance, PTL

\* The snapshot is a view the core had, never ahead of it.
THEOREM SnapshotsFollow == SystemSpec => []SnapshotFollowsCore
<1>1. Whole => SnapshotFollowsCore
  BY DEF Whole, JoinInv, CopiesInv, Follows, SnapshotFollowsCore
<1> QED
  BY <1>1, WholeInvariance, PTL

\* End to end: what runs, or is answered with a result, is what the core decided, and one
\* attempt runs once.
THEOREM OnlyDecided == SystemSpec => []OnlyTheDecidedRuns
<1>1. Whole => OnlyTheDecidedRuns
  <2> SUFFICES ASSUME Whole, NEW a \in Attempts, runs[a] > 0 \/ code[a] = "result"
               PROVE  /\ Decided(view)
                      /\ input[a] = view.decision.args
                      /\ read[a].tool = view.decision.tool
                      /\ \A b \in Attempts : runs[a] > 0 /\ runs[b] > 0 => runs[a] = 1 /\ a = b
    BY DEF OnlyTheDecidedRuns
  <2>1. Fitted(a)
    BY DEF Whole, JoinInv, FittedInv, Committed
  <2>2. ASSUME NEW b \in Attempts, runs[a] > 0, runs[b] > 0 PROVE runs[a] = 1 /\ a = b
    <3>1. runs[a] \in Nat /\ runs[a] <= 1 /\ a = b
      BY <2>2 DEF Whole, Led!IInv, Led!TypeOK, Led!AtMostOneRun
    <3> QED
      BY <2>2, <3>1
  <2> QED
    BY <2>1, <2>2 DEF Fitted
<1> QED
  BY <1>1, WholeInvariance, PTL
=============================================================================
