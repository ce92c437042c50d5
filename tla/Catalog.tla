------------------------------- MODULE Catalog -------------------------------
(***************************************************************************)
(* The versions of one catalog: a provider builds its registry, negotiates *)
(* and uploads (bootstrap), others upload a body of their own or read a    *)
(* version (GET, and every preparation), against processes of either core  *)
(* that share tg.catalogs and keep the schemas they compiled.  The SDK's   *)
(* Ajv, Go's and Rust's compiler do not take the same schemas: Rust reads  *)
(* each as Draft 2020-12, Go by its $schema, and Go resolves its $id.      *)
(* Creation times are told apart by the request that took them.            *)
(***************************************************************************)
EXTENDS Sorting, Sequences

CONSTANTS Callers, Processes,
          Wants,          \* what may be asked: see Arrive
          Digest(_),      \* the version of a sequence of tools
          Schemas,
          Language,       \* the core each process runs: "go" or "rust"
          Compiles,       \* what the SDK, Go and Rust compile
          Clashes,        \* pairs of one $id, which one Ajv does not compile both
          MaxSchemas,     \* most cached schemas: 256
          MaxCrashes,     \* bound of the model
          Absent

\* An output schema is optional; of the info of a row, only created differs.
Descriptor == [id : Int, effect : {"read", "write"}, input : Schemas, output : Schemas \cup {Absent}]
Row == [tools : Seq(Descriptor), created : Callers]

ASSUME CatalogAssumption ==
    /\ Language \in [Processes -> {"go", "rust"}]
    /\ Compiles \in [{"sdk", "go", "rust"} -> SUBSET Schemas]
    /\ \A w \in Wants : /\ w.kind \in {"bootstrap", "put", "get", "prepare"}
                        /\ w.tools \in Seq(Descriptor)
    /\ Absent \notin Schemas \cup Callers \cup Row /\ Absent # "SCHEMA_UNSUPPORTED"
    /\ MaxSchemas \in Nat \ {0} /\ MaxCrashes \in Nat

VARIABLES req,       \* [pc, want, at, version, tools, i, row, known] of each request
          answer,    \* what it was answered: [status, info] or Absent
          table,     \* committed rows of tg.catalogs: version -> [tools, created]
          writer,    \* version -> the request that inserted it and has not committed
          cache,     \* App.schemas of each process
          crashes

catalogVars == <<req, answer, table, writer, cache, crashes>>

\* The tools by their ids; equal ids keep their order.
Sorted(tools) ==
    LET order == Arranged(DOMAIN tools, [k \in DOMAIN tools |-> tools[k].id], [k \in DOMAIN tools |-> k])
    IN [n \in DOMAIN tools |-> tools[order[n]]]

\* The version a provider or a caller means, and the body it sends.
Body(w) == IF w.kind = "bootstrap" THEN Sorted(w.tools) ELSE w.tools
Version(w) == IF w.kind = "bootstrap" THEN Digest(Body(w)) ELSE w.version
Versions == {Version(w) : w \in Wants}

CatalogInit ==
    /\ req = [r \in Callers |-> [pc |-> "new", want |-> Absent, at |-> Absent, version |-> Absent,
                                 tools |-> <<>>, i |-> 1, row |-> Absent, known |-> Absent]]
    /\ answer = [r \in Callers |-> Absent]
    /\ table = [v \in Versions |-> Absent]
    /\ writer = [v \in Versions |-> Absent]
    /\ cache = [p \in Processes |-> {}]
    /\ crashes = 0

Go(r, pc) == req' = [req EXCEPT ![r].pc = pc]
\* The answer; an open transaction is rolled back.
Leave(r, status, info) ==
    /\ Go(r, "done")
    /\ answer' = [answer EXCEPT ![r] = [status |-> status, info |-> info]]
    /\ writer' = [v \in Versions |-> IF writer[v] = r THEN Absent ELSE writer[v]]

\* What the core of a process compiles.
Takes(p) == Compiles[Language[p]]

\* The info some request was answered with for a version.
Told(v) == LET told == {r \in Callers : answer[r] # Absent /\ req[r].version = v /\ answer[r].status = 200}
           IN IF told = {} THEN Absent ELSE answer[CHOOSE r \in told : TRUE].info
-----------------------------------------------------------------------------
(* The provider *)

\* The constructor of ToolRegistry takes the tools; only inputs are profiled.
Registers(w) ==
    /\ w.tools # <<>>
    /\ \A k \in DOMAIN w.tools : /\ w.tools[k].effect = "read" \/ w.mutations
                                 /\ w.tools[k].input \in Compiles["sdk"]
    /\ \A k, l \in DOMAIN w.tools :
          k # l => /\ w.tools[k].id # w.tools[l].id
                   /\ <<w.tools[k].input, w.tools[l].input>> \notin Clashes

\* A request q on its way to a process.
Begun(q, w, p) ==
    [q EXCEPT !.pc = CASE w.kind = "bootstrap" -> "negotiate" [] w.kind = "put" -> "check"
                       [] OTHER -> "read",
              !.want = w, !.at = p, !.version = Version(w), !.tools = Body(w),
              !.known = Told(Version(w))]

\* A request sets out: bootstrap() with the registry's sorted tools and their
\* digest, an upload of any body to any version, a read or a preparation.
Arrive(r) ==
    /\ req[r].pc = "new"
    /\ \E w \in Wants, p \in Processes :
          IF w.kind = "bootstrap" /\ ~Registers(w)
          THEN /\ Go(r, "done")
               /\ answer' = [answer EXCEPT ![r] = [status |-> 0, info |-> Absent]]
          ELSE req' = [req EXCEPT ![r] = Begun(@, w, p)] /\ UNCHANGED answer
    /\ UNCHANGED <<table, writer, cache, crashes>>

\* getCapabilities(), which a core answers out of its schema.
Negotiate(r) ==
    /\ req[r].pc = "negotiate"
    /\ Go(r, "check")
    /\ UNCHANGED <<answer, table, writer, cache, crashes>>
-----------------------------------------------------------------------------
(* A core: the checks of a PUT *)

Check(r) ==
    /\ req[r].pc = "check"
    /\ IF req[r].tools = <<>> THEN Leave(r, 422, "CATALOG_INVALID")
       ELSE IF Digest(req[r].tools) # req[r].version THEN Leave(r, 422, "HASH_MISMATCH")
       ELSE Go(r, "tool") /\ UNCHANGED <<answer, writer>>
    /\ UNCHANGED <<table, cache, crashes>>

Tool(r) == req[r].tools[req[r].i]
\* The tools in their order; a.schema() looks under its lock.
NextTool(r) ==
    /\ req[r].pc = "tool"
    /\ IF req[r].i > Len(req[r].tools) THEN Go(r, "insert") /\ UNCHANGED <<answer, writer>>
       ELSE IF req[r].i > 1 /\ Tool(r).id <= req[r].tools[req[r].i - 1].id
       THEN Leave(r, 422, "CATALOG_INVALID")
       ELSE Go(r, IF Tool(r).input \in cache[req[r].at] THEN "output" ELSE "compile")
            /\ UNCHANGED <<answer, writer>>
    /\ UNCHANGED <<table, cache, crashes>>

\* Seeded fault: one schema too many.
Unbounded(held, s) == IF Cardinality(held) > MaxSchemas THEN {s} ELSE held \cup {s}
\* Under the lock again: a full cache is cleared.
Insert(held, s) == IF Cardinality(held) >= MaxSchemas THEN {s} ELSE held \cup {s}

\* Compiled outside the lock.
Compile(r) ==
    /\ req[r].pc = "compile"
    /\ IF Tool(r).input \notin Takes(req[r].at)
       THEN Leave(r, 422, "SCHEMA_UNSUPPORTED") /\ UNCHANGED cache
       ELSE /\ cache' = [cache EXCEPT ![req[r].at] = Insert(@, Tool(r).input)]
            /\ Go(r, "output") /\ UNCHANGED <<answer, writer>>
    /\ UNCHANGED <<table, crashes>>

\* An output schema is compiled every time and never kept.
Output(r) ==
    /\ req[r].pc = "output"
    /\ IF Tool(r).output \in Takes(req[r].at) \cup {Absent}
       THEN /\ req' = [req EXCEPT ![r].pc = "tool", ![r].i = @ + 1]
            /\ UNCHANGED <<answer, writer>>
       ELSE Leave(r, 422, "SCHEMA_UNSUPPORTED")
    /\ UNCHANGED <<table, cache, crashes>>
-----------------------------------------------------------------------------
(* Its transaction, at READ COMMITTED *)

\* Seeded fault: ON CONFLICT DO UPDATE.
StoreReplacing(r) ==
    LET v == req[r].version IN
    /\ req[r].pc = "insert" /\ writer[v] = Absent
    /\ writer' = [writer EXCEPT ![v] = r]
    /\ Go(r, "select")
    /\ UNCHANGED <<answer, table, cache, crashes>>
\* INSERT ... ON CONFLICT DO NOTHING waits for a transaction that inserted the same key.
Store(r) ==
    LET v == req[r].version IN
    /\ req[r].pc = "insert" /\ writer[v] = Absent
    /\ writer' = [writer EXCEPT ![v] = IF table[v] = Absent THEN r ELSE @]
    /\ Go(r, "select")
    /\ UNCHANGED <<answer, table, cache, crashes>>

\* The SELECT sees what was committed when it starts, or the own row.
Compare(r) ==
    LET v == req[r].version
        row == IF writer[v] = r THEN [tools |-> req[r].tools, created |-> r] ELSE table[v]
    IN /\ req[r].pc = "select"
       /\ IF row.tools # req[r].tools THEN Leave(r, 409, "CATALOG_IMMUTABLE")
          ELSE req' = [req EXCEPT ![r].pc = "commit", ![r].row = row] /\ UNCHANGED <<answer, writer>>
       /\ UNCHANGED <<table, cache, crashes>>

\* The commit takes effect, also if it is reported as failed.
Commit(r) ==
    LET v == req[r].version IN
    /\ req[r].pc = "commit"
    /\ table' = [table EXCEPT ![v] = IF writer[v] = r THEN req[r].row ELSE @]
    /\ Leave(r, 200, req[r].row.created) \/ Leave(r, 500, Absent)
    /\ UNCHANGED <<cache, crashes>>

\* No connection, a failed statement or commit, the deadline, or no selector.
Fail(r) ==
    /\ req[r].pc \in {"negotiate", "insert", "select", "commit", "read", "lookup"}
    /\ Leave(r, 500, Absent)
    /\ UNCHANGED <<table, cache, crashes>>

\* catalog(): GET answers with the version; a preparation goes on with the tool that
\* was selected, unless none was.
Read(r) ==
    LET row == table[req[r].version] IN
    /\ req[r].pc = "read"
    /\ \/ row = Absent /\ Leave(r, 404, "CATALOG_NOT_FOUND")
       \/ row # Absent /\ Leave(r, 200, row.created)
       \/ /\ row # Absent /\ req[r].want.kind = "prepare"
          /\ \E k \in DOMAIN row.tools :
                req' = [req EXCEPT ![r].pc = "lookup", ![r].row = row, ![r].i = k]
          /\ UNCHANGED <<answer, writer>>
    /\ UNCHANGED <<table, cache, crashes>>

Picked(r) == req[r].row.tools[req[r].i]
\* ready(): the schema of the selected tool out of the cache.
Lookup(r) ==
    /\ req[r].pc = "lookup"
    /\ IF Picked(r).input \in cache[req[r].at] THEN Leave(r, 200, req[r].row.created)
       ELSE Go(r, "build") /\ UNCHANGED <<answer, writer>>
    /\ UNCHANGED <<table, cache, crashes>>

\* Or compiled.  Of a refusal Rust gives the reason and Go only a 500.
Build(r) ==
    LET p == req[r].at IN
    /\ req[r].pc = "build"
    /\ IF Picked(r).input \in Takes(p)
       THEN /\ cache' = [cache EXCEPT ![p] = Insert(@, Picked(r).input)]
            /\ Leave(r, 200, req[r].row.created)
       ELSE /\ Leave(r, IF Language[p] = "go" THEN 500 ELSE 422, "SCHEMA_UNSUPPORTED")
            /\ UNCHANGED cache
    /\ UNCHANGED <<table, crashes>>

\* A process dies with its cache and the transactions of its requests.
Crash(p) ==
    LET lost == {r \in Callers : req[r].at = p /\ req[r].pc # "done"} IN
    /\ crashes < MaxCrashes
    /\ crashes' = crashes + 1
    /\ cache' = [cache EXCEPT ![p] = {}]
    /\ writer' = [v \in Versions |-> IF writer[v] \in lost THEN Absent ELSE writer[v]]
    /\ req' = [r \in Callers |-> IF r \in lost THEN [req[r] EXCEPT !.pc = "done"] ELSE req[r]]
    /\ UNCHANGED <<answer, table>>

CatalogNext ==
    \/ \E r \in Callers :
          \/ Arrive(r) \/ Negotiate(r) \/ Check(r) \/ NextTool(r) \/ Compile(r) \/ Output(r)
          \/ Store(r) \/ Compare(r) \/ Commit(r) \/ Fail(r) \/ Read(r)
          \/ Lookup(r) \/ Build(r)
    \/ \E p \in Processes : Crash(p)

CatalogSpec == CatalogInit /\ [][CatalogNext]_catalogVars
-----------------------------------------------------------------------------
(* Properties *)

\* Of the requests, those that bring a body.
Uploads(r) == req[r].want.kind \in {"bootstrap", "put"}
Answered(r, status) == answer[r] # Absent /\ answer[r].status = status

\* A version is one body with one creation time for ever: all who upload or read it
\* are given the same time, an upload is confirmed only if the stored body is its
\* own, and once anybody was given a version nobody who asks later misses it.
VersionsAreImmutable ==
    \A r \in Callers :
        /\ Answered(r, 200) =>
              LET v == req[r].version IN
              /\ table[v] # Absent /\ table[v].created = answer[r].info
              /\ Uploads(r) => table[v].tools = req[r].tools
        /\ Answered(r, 404) => req[r].known = Absent
        /\ Answered(r, 409) => table[req[r].version].tools # req[r].tools

\* What a core keeps was checked by the core that keeps it: a stored body is of its
\* version, in order and takes the compiler of the process that stored it.  A body
\* that a registry built is refused for no other reason than one schema, input or
\* output, this core's compiler does not take, and a selected tool only by the other
\* kind of core than the one that stored it.  However many compile at once, a cache
\* holds what its core takes and no more than its limit.
OnlyTheCheckedIsKept ==
    /\ \A v \in Versions : table[v] # Absent =>
          LET tools == table[v].tools
              keeper == req[table[v].created].at
          IN /\ Digest(tools) = v
             /\ \A k \in DOMAIN tools :
                   /\ {tools[k].input, tools[k].output} \subseteq Takes(keeper) \cup {Absent}
                   /\ \A l \in DOMAIN tools : k < l => tools[k].id < tools[l].id
    /\ \A r \in Callers : req[r].want # Absent /\ answer[r] # Absent =>
          /\ req[r].want.kind = "bootstrap" /\ answer[r].status = 422 =>
                /\ answer[r].info = "SCHEMA_UNSUPPORTED"
                /\ ~ {Tool(r).input, Tool(r).output} \subseteq Takes(req[r].at) \cup {Absent}
          /\ req[r].want.kind = "prepare" /\ answer[r].status # 200
             /\ answer[r].info = "SCHEMA_UNSUPPORTED" =>
                Language[req[r].at] # Language[req[table[req[r].version].created].at]
    /\ \A p \in Processes : cache[p] \subseteq Takes(p) /\ Cardinality(cache[p]) <= MaxSchemas
-----------------------------------------------------------------------------
(* The inductive invariant *)

Checking == {"tool", "compile", "output"}
Storing == {"insert", "select", "commit"}
Preparing == {"lookup", "build"}
Places == {"new", "negotiate", "check", "read", "done"} \cup Preparing \cup Checking \cup Storing

Request == [pc : Places, want : Wants \cup {Absent}, at : Processes \cup {Absent},
            version : Versions \cup {Absent}, tools : Seq(Descriptor), i : Nat \ {0},
            row : Row \cup {Absent}, known : Callers \cup {Absent}]

\* Every variable keeps its type, and caches are finite and bounded.
CatalogTypeOK ==
    /\ req \in [Callers -> Request]
    /\ DOMAIN answer = Callers
    /\ table \in [Versions -> Row \cup {Absent}]
    /\ writer \in [Versions -> Callers \cup {Absent}]
    /\ cache \in [Processes -> SUBSET Schemas]
    /\ \A p \in Processes : cache[p] \subseteq Takes(p) /\ IsFiniteSet(cache[p]) /\ Cardinality(cache[p]) <= MaxSchemas

\* The first n tools of a body have ascending ids, or have schemas that p compiles.
Ascending(tools, n) == \A k, l \in 1..n : k < l => tools[k].id < tools[l].id
Compiled(p, tools, n) == \A k \in 1..n : /\ tools[k].input \in Takes(p)
                                         /\ tools[k].output \in Takes(p) \cup {Absent}

\* How far the checks of a body have come at each place, and that the body of a
\* registry can fail none but those of its schemas; what a preparation has found.
BodyInv(r) == LET q == req[r] IN
    /\ q.pc \in {"negotiate", "check"} \cup Checking \cup Storing =>
          /\ q.version \in Versions /\ Uploads(r)
          /\ q.want.kind = "bootstrap" =>
                /\ q.tools # <<>> /\ Ascending(q.tools, Len(q.tools))
                /\ Digest(q.tools) = q.version
    /\ q.pc \in {"new", "negotiate", "check"} => q.i = 1
    /\ q.pc \notin {"new", "done"} => q.at \in Processes
    /\ q.pc = "read" => q.version \in Versions /\ ~Uploads(r)
    /\ q.pc \in Preparing => /\ q.version \in Versions /\ q.want.kind = "prepare"
                             /\ q.row # Absent /\ q.row = table[q.version]
                             /\ q.i \in DOMAIN q.row.tools
    /\ q.pc \in Checking \cup Storing => Digest(q.tools) = q.version
    /\ q.pc \in Checking => /\ q.i <= Len(q.tools) + 1 /\ Compiled(q.at, q.tools, q.i - 1)
                            /\ Ascending(q.tools, q.i - 1)
    /\ q.pc \in {"compile", "output"} => q.i <= Len(q.tools) /\ Ascending(q.tools, q.i)
    /\ q.pc = "output" => q.tools[q.i].input \in Takes(q.at)
    /\ q.pc \in Storing => Compiled(q.at, q.tools, Len(q.tools)) /\ Ascending(q.tools, Len(q.tools))

\* Behind the INSERT there is a row to find, the own one or a committed one, and the
\* one that was found stays; so does what a request was known to find.
FoundInv(r) == LET q == req[r] IN
    /\ q.pc \in {"select", "commit"} => writer[q.version] = r \/ table[q.version] # Absent
    /\ q.pc = "commit" => /\ q.row \in Row /\ q.row.tools = q.tools
                          /\ table[q.version] # Absent => q.row = table[q.version]
                          /\ table[q.version] = Absent => q.row.created = r
    /\ q.known # Absent => q.version \in Versions /\ table[q.version] # Absent

\* Answers are final, and what they say of the table and of the body stays true.
AnswerInv(r) == LET q == req[r] IN
    /\ answer[r] # Absent => q.pc = "done"
    /\ Answered(r, 200) =>
          /\ q.version \in Versions /\ table[q.version] # Absent
          /\ table[q.version].created = answer[r].info
          /\ Uploads(r) => table[q.version].tools = q.tools
    /\ Answered(r, 404) => q.known = Absent
    /\ Answered(r, 409) => /\ q.version \in Versions /\ table[q.version] # Absent
                           /\ table[q.version].tools # q.tools
    /\ q.want # Absent /\ Answered(r, 422) /\ q.want.kind = "bootstrap" =>
          /\ answer[r].info = "SCHEMA_UNSUPPORTED"
          /\ ~ {Tool(r).input, Tool(r).output} \subseteq Takes(q.at) \cup {Absent}
    /\ /\ q.want # Absent /\ answer[r] # Absent /\ q.want.kind = "prepare"
       /\ answer[r].status # 200 /\ answer[r].info = "SCHEMA_UNSUPPORTED"
       => /\ q.at \in Processes /\ q.version \in Versions /\ table[q.version] # Absent
          /\ Language[q.at] # Language[req[table[q.version].created].at]

\* A stored row is of its version and was checked; an uncommitted one is the only one.
RowInv ==
    \A v \in Versions :
        /\ table[v] # Absent =>
              LET tools == table[v].tools
                  keeper == table[v].created
              IN /\ Digest(tools) = v /\ Ascending(tools, Len(tools))
                 /\ req[keeper].pc = "done" /\ req[keeper].at \in Processes
                 /\ Compiled(req[keeper].at, tools, Len(tools))
        /\ \A r \in Callers : writer[v] = r =>
              table[v] = Absent /\ req[r].version = v /\ req[r].pc \in {"select", "commit"}

CatalogInv == CatalogTypeOK /\ RowInv /\ \A r \in Callers : BodyInv(r) /\ FoundInv(r) /\ AnswerInv(r)
=============================================================================
