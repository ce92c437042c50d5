------------------------------- MODULE Toolgate -------------------------------
(***************************************************************************)
(* One operation from end to end: the core's row and its handlers, which   *)
(* are Operation's, the calls of the SDK that move it, the snapshot the    *)
(* SDK keeps in sdk.preparations and the attempts to execute it with their *)
(* ledger row (Ledger).                                                    *)
(*                                                                         *)
(* The network loses, delays and repeats: a request is processed by the    *)
(* core at any time after it was sent, also when its caller has given up   *)
(* or is retried under its key, and what the core answered reaches the     *)
(* SDK late, twice or never.  The core's idempotency store is the one that *)
(* Reservation describes: a key is answered with what it was answered.     *)
(***************************************************************************)
EXTENDS Operation

CONSTANTS Attempts, Results, ErrorResults, ResultLife,
          LocallyValid,  \* <<tool, args>> pairs that pass the SDK's validator
          Caller         \* the actor of every call

VARIABLES row, revoked, pc, held, code, runs, standing,     \* of Ledger
          input,     \* the arguments of each attempt
          mail,      \* views the core has answered with
          snap,      \* the snapshot in sdk.preparations
          read,      \* the snapshot each attempt has read
          asked,     \* attempts whose decision request was sent
          cached,    \* idempotency keys that were answered with the decision
          answered   \* attempts whose request was answered with the decision

coreVars == <<view, owner, expires, receipt, grants, authors>>
ledgerVars == <<row, revoked, pc, held, code, runs, standing>>
sdkVars == <<input, mail, snap, read, asked, cached, answered>>
systemVars == <<clock, coreVars, ledgerVars, sdkVars>>

\* The decision of a view or a snapshot.
Decided(v) == v # None /\ v.status = "decision_issued"

Led == INSTANCE Ledger
       WITH issued <- Decided(snap),
            notAfter <- IF Decided(view) THEN view.decision.notAfter ELSE None

ASSUME ToolgateAssumption ==
    /\ Led!LedgerAssumption
    /\ LocallyValid \subseteq Tools \X Args
    /\ Caller \in Actor

SystemInit ==
    /\ snap = None
    /\ Init
    /\ Led!Init
    /\ input \in [Attempts -> Args]
    /\ mail = {}
    /\ read = [a \in Attempts |-> None]
    /\ asked = {}
    /\ cached = {}
    /\ answered = {}

-----------------------------------------------------------------------------
\* Seeded fault: the last put wins.
PutLast(v) == v

\* put(): a snapshot never gives way to one of an earlier revision.
PutOver(v) ==
    IF snap # None /\ snap.revision > v.revision THEN snap ELSE v

\* The core prepares the operation.
SdkPrepare(known) ==
    /\ Prepare(Caller, known)
    /\ mail' = {view'}
    /\ UNCHANGED <<ledgerVars, input, snap, read, asked, cached, answered>>

\* resolve() of a choice that the snapshot offers.  A request the core handles
\* late is no different: it needs the core's revision to be the snapshot's
\* still, and the snapshot never passes the core.
SdkResolve(choice, args) ==
    /\ snap # None
    /\ snap.status = "needs_choice"
    /\ choice \in snap.candidates
    /\ Resolve(Caller, snap.revision, choice, args)
    /\ mail' = mail \cup {view'}
    /\ UNCHANGED <<ledgerVars, input, snap, read, asked, cached, answered>>

\* The client cancels; the SDK keeps its snapshot.
ClientCancel(expected) ==
    /\ Cancel(Caller, expected)
    /\ UNCHANGED <<ledgerVars, sdkVars>>

\* A view the core answered with arrives and is put, by the call that was
\* answered or by a repetition of it.
PutView ==
    /\ \E v \in mail : snap' = PutOver(v)
    /\ UNCHANGED <<clock, coreVars, ledgerVars, input, mail, read, asked, cached,
                   answered>>

-----------------------------------------------------------------------------
\* execute() reads the snapshot of an operation that has a tool.
Start(a) ==
    /\ pc[a] = "idle"
    /\ snap # None
    /\ snap.status \in {"ready", "needs_arguments", "decision_issued"}
    /\ snap.tool \in Caller.allowed
    /\ read' = [read EXCEPT ![a] = snap]
    /\ Led!GoTo(a, IF Decided(snap) THEN "reenter" ELSE "enter")
    /\ UNCHANGED <<clock, coreVars, row, revoked, held, runs, standing, input,
                   mail, snap, asked, cached, answered>>

\* The SDK's validator accepts the arguments of a.
Validates(a) == <<read[a].tool, input[a]>> \in LocallyValid

\* Seeded fault: the arguments are not compared with the decision's.
ReplayFitsTool(a) == Validates(a) /\ read[a].tool = read[a].decision.tool

\* decision(): the snapshot's decision is one for these arguments.
ReplayFits(a) == Validates(a) /\ input[a] = read[a].decision.args

\* The decision request is sent.
Ask(a) ==
    /\ pc[a] = "decide"
    /\ Validates(a)
    /\ clock < expires
    /\ a \notin asked
    /\ asked' = asked \cup {a}
    /\ UNCHANGED <<clock, coreVars, ledgerVars, input, mail, snap, read, cached,
                   answered>>

\* The idempotency key of a's request.
Key(a) == <<read[a].revision, input[a]>>

\* The core handles the request of a, for the first time or again.
CoreDecides(a) ==
    /\ a \in asked
    /\ \/ /\ Key(a) \notin cached
          /\ \/ Decide(Caller, read[a].revision, input[a])
             \/ DecideAgain(Caller, input[a])
       \/ /\ Key(a) \in cached
          /\ Replay(Caller)
    /\ cached' = cached \cup {Key(a)}
    /\ answered' = answered \cup {a}
    /\ UNCHANGED <<ledgerVars, input, mail, snap, read, asked>>

\* The core finds the arguments wanting, which the SDK's validator did not.
CoreNeedsArguments(a) ==
    /\ a \in asked
    /\ NeedArguments(Caller, read[a].revision, input[a])
    /\ mail' = mail \cup {view'}
    /\ UNCHANGED <<ledgerVars, input, snap, read, asked, cached, answered>>

\* decision(): the decision belongs to the snapshot that was read.
Fits(a) ==
    /\ view.decision.tool = read[a].tool
    /\ view.decision.args = input[a]
    /\ view.decision.revision = IF Decided(read[a]) THEN read[a].revision
                                ELSE read[a].revision + 1

\* The decision arrives.
Obtain(a) ==
    /\ pc[a] = "decide"
    /\ a \in answered
    /\ Fits(a)
    /\ Led!GoTo(a, "put")
    /\ UNCHANGED <<clock, coreVars, row, revoked, held, runs, standing, sdkVars>>

\* Seeded fault: what the snapshot says of its arguments is kept.
IssuedOverSnapshot(a) ==
    [status |-> "decision_issued", revision |-> view.decision.revision,
     tool |-> read[a].tool, candidates |-> {}, digest |-> read[a].digest,
     decision |-> view.decision]
\* What the SDK makes of the snapshot it read and the decision.
IssuedView(a) ==
    [status |-> "decision_issued", revision |-> view.decision.revision,
     tool |-> read[a].tool, candidates |-> {}, digest |-> None,
     decision |-> view.decision]

Put(a) ==
    /\ pc[a] = "put"
    /\ snap' = PutOver(IssuedView(a))
    /\ Led!Stored(a, "fresh")
    /\ UNCHANGED <<clock, coreVars, row, revoked, held, runs, standing, input,
                   mail, read, asked, cached, answered>>

\* The steps of an attempt that concern nothing but the ledger.
Execute(a) ==
    /\ UNCHANGED <<coreVars, sdkVars>>
    /\ \/ Led!Enter(a)
       \/ pc[a] = "replay" /\ ReplayFits(a) /\ Led!Replay(a)
       \/ Led!Fresh(a) \/ Led!Permit(a) \/ Led!Claim(a) \/ Led!ClaimTaken(a)
       \/ Led!Repermit(a) \/ Led!CheckClaimed(a) \/ Led!Withdraw(a)
       \/ Led!Dispatch(a) \/ Led!Invoke(a) \/ Led!Return(a) \/ Led!Record(a)
       \/ Led!GiveUp(a) \/ Led!CallFails(a) \/ Led!Crash(a)

Around ==
    /\ UNCHANGED <<coreVars, sdkVars>>
    /\ Led!Revoke \/ Led!Tick

SystemNext ==
    \/ \E args \in Args :
         SdkPrepare(args) \/ \E choice \in Tools : SdkResolve(choice, args)
    \/ \E expected \in 1..MaxRevision : ClientCancel(expected)
    \/ PutView
    \/ \E a \in Attempts :
         \/ Start(a) \/ Ask(a) \/ CoreDecides(a) \/ CoreNeedsArguments(a)
         \/ Obtain(a) \/ Put(a) \/ Execute(a)
    \/ Around

SystemSpec == SystemInit /\ [][SystemNext]_systemVars

-----------------------------------------------------------------------------
\* The snapshot is a view the core had: never ahead of the core, and at the
\* core's revision equal to its view, although the SDK builds the decided one
\* itself (provider.ts 530-540).
SnapshotFollowsCore ==
    snap # None => /\ view # None
                   /\ snap.revision <= view.revision
                   /\ snap.revision = view.revision => snap = view

\* End to end: the tool runs at most once, only after the core decided it,
\* with the tool and the arguments that were decided, never for an operation
\* that was cancelled; and nobody is given its result for other arguments.
OnlyTheDecidedRuns ==
    \A a \in Attempts :
        runs[a] > 0 \/ code[a] = "result"
        => /\ Decided(view)
           /\ input[a] = view.decision.args
           /\ read[a].tool = view.decision.tool
           /\ \A b \in Attempts : runs[a] > 0 /\ runs[b] > 0 => runs[a] = 1 /\ a = b

\* The attempts see the core and the snapshots as Ledger assumes: the decision
\* is issued once, reaches an attempt only then, and its snapshot stays.
ImplementsLedger == Led!Spec
=============================================================================
