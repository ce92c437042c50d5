-------------------------------- MODULE Runner --------------------------------
(***************************************************************************)
(* The benchmark runners of v2, v3 and v3 part 2: a session walks through  *)
(* the planned cells, keeps a report in memory and on disk, and drives one *)
(* model conversation per cell against the provider process, which may go  *)
(* on with a call the runner has given up.  Sessions end by completion, a  *)
(* limit, the operator, an error or a crash, and are resumed.              *)
(***************************************************************************)
EXTENDS Integers, Sequences, FiniteSets, SequencesExt

CONSTANTS Cases, Repetitions,
          Modes,          \* the modes of each version, in their order
          Turns,          \* maxTurns
          CallLists,      \* what the model may call in a turn: sequences of "read", "write"
          MaxModelCalls,
          MaxConcurrent,  \* 4
          MaxSessions,    \* bounds of the model: sessions, and stray handlers when a
          MaxStray,       \* single call is given up
          None

Versions == {"v2", "v3", "v3p2"}

\* What a cell names, and what a report holds.
Cell == [case : Nat, mode : STRING, repeat : Nat]
Report == [records : Seq([cell : Cell, made : Nat]), active : Cell \cup {None}, complete : BOOLEAN]

ASSUME RunnerAssumption ==
    /\ {Cases, Repetitions, Turns, MaxModelCalls, MaxConcurrent, MaxSessions, MaxStray} \subseteq Nat \ {0}
    /\ \A v \in Versions : Modes[v] \in Seq(STRING) \ {<<>>}
    /\ CallLists \subseteq Seq({"read", "write"})
    /\ None \notin Cell \cup Report

VARIABLES version,    \* one of Versions
          disk,       \* the report as saved, or None
          report,     \* [records, active, complete] of the session that runs, or None
          files,      \* the cells whose file exists (v3p2)
          pc, cell,   \* the step and the cell of the session; see Planned
          talk,       \* its conversation: [turn, calls, next, awaited, made, stop, expired]
          host,       \* the provider's record and its running handlers
          past        \* ghost: model calls, sessions, cells begun, given up, stray handlers

vars == <<version, disk, report, files, pc, cell, talk, host, past>>

\* Blocks of one case and repetition; the cases rotate by seven, the modes by one.
RepeatedSchedule ==
    LET modes == Modes["v3p2"]
        per == Len(modes)
    IN
    [n \in 1..Repetitions * Cases * per |->
        LET repeat == (n - 1) \div (Cases * per)
            block == ((n - 1) \div per) % Cases
            case == (block + repeat * 7) % Cases
        IN [case |-> case, repeat |-> repeat,
            mode |-> modes[((case + repeat + ((n - 1) % per)) % per) + 1]]]
\* v2 and v3: every case once, in blocks of its modes.
Schedule ==
    LET modes == Modes[version]
        per == Len(modes)
    IN
    [n \in 1..Cases * per |->
        LET case == (n - 1) \div per IN
        [case |-> case, repeat |-> 0, mode |-> modes[((case + ((n - 1) % per)) % per) + 1]]]
Plan == IF version = "v3p2" THEN RepeatedSchedule ELSE Schedule
Gated(n) == Plan[n].mode # "direct"

NoTalk == [turn |-> 0, calls |-> <<>>, next |-> 1, awaited |-> {}, made |-> 0,
           stop |-> FALSE, expired |-> FALSE]

Init == /\ version \in Versions
        /\ disk = None /\ report = None /\ files = {}
        /\ pc = "down" /\ cell = 0 /\ talk = NoTalk
        /\ host = [uncertain |-> FALSE, running |-> {}]
        /\ past = [spent |-> 0, sessions |-> 0, given |-> 0, stray |-> {},
                   begun |-> [n \in DOMAIN Plan |-> 0]]

Recorded(r) == {r.records[i].cell : i \in DOMAIN r.records}
Spent(r) == LET upTo[n \in 0..Len(r.records)] ==
                    IF n = 0 THEN 0 ELSE upTo[n - 1] + r.records[n].made
            IN upTo[Len(r.records)]

\* A session ends; what its cell had begun is not awaited any more.
Down(givenUp) ==
    /\ pc' = "down" /\ report' = None /\ talk' = NoTalk /\ cell' = 0
    /\ past' = [past EXCEPT !.given = @ + IF givenUp THEN 1 ELSE 0, !.stray = @ \cup host.running]
-----------------------------------------------------------------------------
(* The session *)

Fresh ==
    /\ pc = "down" /\ past.sessions < MaxSessions
    /\ disk = None
    /\ report' = [records |-> <<>>, active |-> None, complete |-> FALSE]
    /\ pc' = "boundary" /\ cell' = 1
    /\ past' = [past EXCEPT !.sessions = @ + 1]
    /\ UNCHANGED <<version, disk, files, talk, host>>

\* Seeded fault: an interrupted cell does not stop a resume.
ResumeAnyway ==
    /\ pc = "down" /\ past.sessions < MaxSessions
    /\ disk # None /\ ~disk.complete
    /\ report' = disk
    /\ pc' = "boundary" /\ cell' = 1
    /\ past' = [past EXCEPT !.sessions = @ + 1]
    /\ UNCHANGED <<version, disk, files, talk, host>>
\* A session goes on with a report that is neither complete nor, in part 2,
\* interrupted within a cell.
Resume ==
    /\ pc = "down" /\ past.sessions < MaxSessions
    /\ disk # None /\ ~disk.complete /\ disk.active = None
    /\ report' = disk
    /\ pc' = "boundary" /\ cell' = 1
    /\ past' = [past EXCEPT !.sessions = @ + 1]
    /\ UNCHANGED <<version, disk, files, talk, host>>

\* Seeded fault: the spending is looked at when a session starts.
NoLimitLeft(r) == cell > 1 \/ Spent(r) < MaxModelCalls
WithinLimit(r) == Spent(r) < MaxModelCalls

Planned == pc = "boundary" /\ cell <= Len(Plan)
Skip == /\ Planned /\ Plan[cell] \in Recorded(report)
        /\ cell' = cell + 1
        /\ UNCHANGED <<version, disk, report, files, pc, talk, host, past>>

\* A limit is reached, an artifact changed, or the operator said STOP.
Halt == /\ Planned /\ Plan[cell] \notin Recorded(report)
        /\ Down(FALSE)
        /\ UNCHANGED <<version, disk, files, host>>

\* The cell begins; part 2 saves which it is.
Begin ==
    /\ Planned /\ Plan[cell] \notin Recorded(report)
    /\ WithinLimit(report)
    /\ report' = IF version = "v3p2" THEN [report EXCEPT !.active = Plan[cell]] ELSE report
    /\ disk' = IF version = "v3p2" THEN report' ELSE disk
    /\ pc' = "reset"
    /\ UNCHANGED <<version, files, cell, talk, host, past>>

Complete ==
    /\ pc = "boundary" /\ cell > Len(Plan)
    /\ disk' = [report EXCEPT !.complete = TRUE]
    /\ Down(FALSE)
    /\ UNCHANGED <<version, files, host>>

\* reset(mode): the provider starts a new record, whatever still runs.
Reset ==
    /\ pc = "reset"
    /\ host' = [host EXCEPT !.uncertain = FALSE]
    /\ pc' = "connect"
    /\ past' = [past EXCEPT !.begun[cell] = @ + 1]
    /\ UNCHANGED <<version, disk, report, files, cell, talk>>

\* The modes in which the host prepares before the model is asked.
PreparesV2(mode) == mode \in {"design-2", "design-3"}
PreparesV3(mode) == mode \in {"design-2", "design-3"}
PreparesV3P2(mode) == mode # "direct"
Prepares == CASE version = "v2" -> PreparesV2(Plan[cell].mode)
              [] version = "v3" -> PreparesV3(Plan[cell].mode)
              [] OTHER -> PreparesV3P2(Plan[cell].mode)

\* A new connection has listed the tools of the mode; the conversation begins.
Connect ==
    /\ pc = "connect"
    /\ talk' = [NoTalk EXCEPT !.calls = IF Prepares THEN <<"write">> ELSE <<>>]
    /\ pc' = "calls"
    /\ UNCHANGED <<version, disk, report, files, cell, host, past>>

\* The business host or the tool list fails outside the guarded part.
Break == /\ pc \in {"reset", "connect", "report"}
         /\ Down(TRUE)
         /\ UNCHANGED <<version, disk, files, host>>

Crash == /\ pc # "down"
         /\ Down(pc # "boundary")
         /\ UNCHANGED <<version, disk, files, host>>
-----------------------------------------------------------------------------
(* The conversation *)

\* One attempt, counted before it is made.
Ask ==
    /\ pc = "model"
    /\ talk' = [talk EXCEPT !.made = @ + 1]
    /\ past' = [past EXCEPT !.spent = @ + 1]
    /\ pc' = "asked"
    /\ UNCHANGED <<version, disk, report, files, cell, host>>

ModelCalls ==
    /\ pc = "asked" /\ ~talk.expired
    /\ \E list \in CallLists :
          talk' = [talk EXCEPT !.calls = list, !.next = 1, !.turn = @ + 1]
    /\ pc' = "calls"
    /\ UNCHANGED <<version, disk, report, files, cell, host, past>>

\* A final answer, or one that is not complete, ends the conversation.
FinalAnswer ==
    /\ pc = "asked" /\ ~talk.expired
    /\ pc' = "report"
    /\ UNCHANGED <<version, disk, report, files, cell, talk, host, past>>

\* A failed request is fatal: the session ends after this cell's record.
ModelFails ==
    /\ pc = "asked"
    /\ talk' = [talk EXCEPT !.stop = TRUE]
    /\ pc' = "report"
    /\ UNCHANGED <<version, disk, report, files, cell, host, past>>

\* Seeded fault: a batch takes whatever comes next.
BatchOfAny(from) ==
    LET n == Len(talk.calls)
        last == IF from + MaxConcurrent - 1 < n THEN from + MaxConcurrent - 1 ELSE n
    IN from..last
\* The calls that start together: one, or some reads in a row; v2 makes one at a time.
Reads(from) ==
    {from} \cup
    {i \in from + 1..from + MaxConcurrent - 1 :
        /\ i <= Len(talk.calls)
        /\ \A j \in from..i : talk.calls[j] = "read"}
OneByOne(from) == {from}
Batch(from) == IF version = "v2" THEN OneByOne(from) ELSE Reads(from)

\* The preparation of v2 is the one call made without the case's signal.
Unsignalled == version = "v2" /\ talk.turn = 0

\* dispatch() refuses what follows an uncertain effect.
Dispatched == ~host.uncertain

\* The awaited calls have ended and the next ones start.  Once the case's time is over
\* they fail before they reach the provider.
Call ==
    /\ pc = "calls" /\ talk.awaited = {}
    /\ talk.next <= Len(talk.calls)
    /\ LET batch == Batch(talk.next)
           reached == (talk.expired => Unsignalled) /\ Dispatched
           started == IF reached
                      THEN {[cell |-> cell, session |-> past.sessions, turn |-> talk.turn, call |-> i]
                              : i \in batch}
                      ELSE {}
       IN /\ host' = [host EXCEPT !.running = @ \cup started]
          /\ talk' = [talk EXCEPT !.next = @ + Cardinality(batch), !.awaited = started]
    /\ UNCHANGED <<version, disk, report, files, pc, cell, past>>

\* v2 parses the arguments of a call again, outside the guarded part, to record it.
Unparsable ==
    /\ pc = "calls" /\ talk.awaited = {}
    /\ version = "v2" /\ talk.turn > 0 /\ talk.next <= Len(talk.calls)
    /\ pc' = "report"
    /\ UNCHANGED <<version, disk, report, files, cell, talk, host, past>>

EndTurn ==
    /\ pc = "calls" /\ talk.awaited = {}
    /\ talk.next > Len(talk.calls)
    /\ pc' = IF talk.turn < Turns THEN "model" ELSE "report"
    /\ UNCHANGED <<version, disk, report, files, cell, talk, host, past>>

\* A handler ends, awaited or not; an uncertain effect is noted in the record that
\* is the provider's by then.
HandlerEnds ==
    \E h \in host.running, uncertain \in BOOLEAN :
        /\ uncertain => Gated(h.cell) /\ h.turn > 0
        /\ host' = [running |-> host.running \ {h}, uncertain |-> host.uncertain \/ uncertain]
        /\ talk' = [talk EXCEPT !.awaited = @ \ {h}]
        /\ past' = [past EXCEPT !.stray = @ \ {h}]
        /\ UNCHANGED <<version, disk, report, files, pc, cell>>

\* The client gives one call up: its own limit, or the connection is lost.
LoseCall ==
    /\ Cardinality(past.stray) < MaxStray
    /\ \E h \in talk.awaited :
          /\ talk' = [talk EXCEPT !.awaited = @ \ {h}]
          /\ past' = [past EXCEPT !.stray = @ \cup {h}]
          /\ UNCHANGED <<version, disk, report, files, pc, cell, host>>

\* AbortSignal.timeout: the client's calls are rejected, the handlers are not told.
Expire ==
    /\ pc \in {"calls", "model", "asked"} /\ ~talk.expired
    /\ talk' = [talk EXCEPT !.expired = TRUE, !.awaited = IF Unsignalled THEN @ ELSE {}]
    /\ past' = [past EXCEPT !.stray = @ \cup (talk.awaited \ talk'.awaited)]
    /\ UNCHANGED <<version, disk, report, files, pc, cell, host>>
-----------------------------------------------------------------------------
(* The record *)

\* What the provider has recorded is taken.
Collect ==
    /\ pc = "report" /\ version # "v3p2"
    /\ talk' = [talk EXCEPT !.stop = @ \/ host.uncertain]
    /\ pc' = "save"
    /\ UNCHANGED <<version, disk, report, files, cell, host, past>>

\* Part 2 writes the cell's file with the flag "wx": one that exists ends the session.
CollectFile ==
    /\ pc = "report" /\ version = "v3p2"
    /\ IF Plan[cell] \in files
       THEN Down(TRUE) /\ UNCHANGED files
       ELSE /\ files' = files \cup {Plan[cell]}
            /\ talk' = [talk EXCEPT !.stop = @ \/ host.uncertain]
            /\ pc' = "save"
            /\ UNCHANGED <<report, cell, past>>
    /\ UNCHANGED <<version, disk, host>>

\* The session ends after an uncertain effect or a failed request, or goes on.
After(saved) ==
    IF talk.stop THEN Down(FALSE)
    ELSE /\ report' = saved
         /\ pc' = "boundary" /\ cell' = cell + 1 /\ talk' = NoTalk
         /\ UNCHANGED past

\* The record joins the report, which replaces the one on disk.
Recording == [report EXCEPT !.records = Append(@, [cell |-> Plan[cell], made |-> talk.made])]
Save == /\ pc = "save" /\ version # "v3p2"
        /\ disk' = Recording
        /\ After(Recording)
        /\ UNCHANGED <<version, files, host>>

\* Part 2 drops its mark with the same write.
SaveCell ==
    LET saved == [Recording EXCEPT !.active = None] IN
    /\ pc = "save" /\ version = "v3p2"
    /\ disk' = saved
    /\ After(saved)
    /\ UNCHANGED <<version, files, host>>

Session == Fresh \/ Resume \/ Skip \/ Halt \/ Begin \/ Complete \/ Reset \/ Connect \/ Break \/ Crash
Conversation == \/ Ask \/ ModelCalls \/ FinalAnswer \/ ModelFails
                \/ Call \/ Unparsable \/ EndTurn \/ HandlerEnds \/ LoseCall \/ Expire
Next == Session \/ Conversation \/ Collect \/ CollectFile \/ Save \/ SaveCell

Spec == Init /\ [][Next]_vars
-----------------------------------------------------------------------------
(* Properties *)

\* However often a run is interrupted and resumed: a recorded cell is never run again
\* and recorded once, a complete report covers every case, mode and repetition, and
\* part 2 runs no cell twice and has the file of every recorded one.
EveryCellOnce ==
    /\ pc \notin {"down", "boundary"} /\ disk # None =>
          Plan[cell] \notin Recorded(disk)
    /\ disk # None =>
          /\ Cardinality(Recorded(disk)) = Len(disk.records)
          /\ disk.complete => Recorded(disk) = [case : 0..Cases - 1, mode : ToSet(Modes[version]),
                 repeat : 0..(IF version = "v3p2" THEN Repetitions - 1 ELSE 0)]
    /\ version = "v3p2" =>
          /\ \A n \in DOMAIN past.begun : past.begun[n] <= 1
          /\ disk # None => Recorded(disk) \subseteq files

\* All model calls ever made, those of lost records too, exceed the limit by less
\* than one cell's turns; before part 2, by those of a cell for each that was given up.
SpendingIsBounded ==
    past.spent < MaxModelCalls + Turns * (1 + IF version = "v3p2" THEN 0 ELSE past.given)

\* Calls overlap only if they are neighbouring reads of one turn, and at most four of
\* them; of those the client waits for, none is running when the model is asked again or
\* the record is taken.  What it gave up may run, see JoinedBeforeTheNextCase.
CallsKeepTheirOrder ==
    LET live == host.running \ past.stray IN
    /\ live # {} => pc = "calls"
    /\ \A g, h \in live :
          /\ g.cell = cell /\ g.turn = h.turn
          /\ g # h => /\ version # "v2"
                      /\ talk.calls[g.call] = "read" /\ talk.calls[h.call] = "read"
                      /\ h.call - g.call < MaxConcurrent
                      /\ \A i \in g.call..h.call : talk.calls[i] = "read"

\* "All admitted work is joined before the next case", and calls.mjs joins "all admitted
\* work before [...] resetting state": at the reset of a cell no handler is running that
\* this session began.  It fails: calls.mjs joins what the client waits for, and a call
\* that the client gives up, at its own limit or the cell's, runs on in the provider.
JoinedBeforeTheNextCase ==
    version # "v2" /\ pc = "reset" => \A h \in host.running : h.session # past.sessions
=============================================================================
