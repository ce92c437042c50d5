------------------------------ MODULE MCService ------------------------------
(***************************************************************************)
(* Small instances of Operation and Catalog.  The two share nothing but    *)
(* immutable rows, so a behaviour moves either the operation or the        *)
(* catalog.                                                                *)
(*                                                                         *)
(* The operation: two tools, two arguments, one of which fails the schema  *)
(* of one tool, an owner and a stranger.  The catalog: three requests to a *)
(* Go and a Rust process; a registry that sorts its tools, one with a      *)
(* duplicate and one with clashing schemas, schemas that only some         *)
(* compilers take, bodies that are out of order, that do not match their   *)
(* version or collide with another, and preparations, which read before    *)
(* anything else, like a GET.                                              *)
(***************************************************************************)
EXTENDS Operation, Catalog, TLC

CONSTANTS t1, t2, a1, a2

MCTools == {t1, t2}
MCArgs == {a1, a2}
MCValid == {<<t1, a1>>, <<t2, a1>>, <<t2, a2>>}

Tool1 == [id |-> 1, effect |-> "read", input |-> "all", output |-> Absent]
Tool2 == [id |-> 2, effect |-> "write", input |-> "id", output |-> "all"]
Tool3 == [id |-> 3, effect |-> "read", input |-> "draft", output |-> Absent]
Tool4 == [id |-> 4, effect |-> "read", input |-> "all", output |-> "draft"]
Tool5 == [id |-> 5, effect |-> "read", input |-> "other", output |-> Absent]

MCSchemas == {"all", "id", "draft", "other"}
MCKinds == [p \in Processes |-> IF p = "p1" THEN "go" ELSE "rust"]
MCAccepts == [sdk |-> {"all", "id", "other"}, go |-> {"all", "draft", "other"},
              rust |-> {"all", "id", "other"}]
MCClashes == {<<"id", "other">>, <<"other", "id">>}
\* <<Tool1>> stands for another body with the digest of the first registry.
MCDigest(tools) == IF tools = <<Tool1>> THEN <<1, 2>> ELSE [k \in DOMAIN tools |-> tools[k].id]

Want(kind, tools, version) == [kind |-> kind, tools |-> tools, version |-> version, mutations |-> TRUE]
MCWants ==
    {Want("bootstrap", t, Absent) : t \in {<<Tool2, Tool1>>, <<Tool1, Tool1>>, <<Tool5, Tool2>>,
                                           <<Tool3>>, <<Tool4>>}}
    \cup {[Want("bootstrap", <<Tool2>>, Absent) EXCEPT !.mutations = FALSE],
          Want("put", <<Tool1>>, <<1, 2>>), Want("put", <<Tool2, Tool1>>, <<2, 1>>),
          Want("put", <<Tool3>>, <<3>>), Want("put", <<Tool3>>, <<1, 2>>),
          Want("prepare", <<>>, <<1, 2>>), Want("prepare", <<>>, <<3>>)}

ServiceInit == Init /\ CatalogInit
ServiceNext ==
    \/ CatalogInit /\ Next /\ UNCHANGED catalogVars
    \/ Init /\ CatalogNext /\ UNCHANGED vars
ServiceSpec == ServiceInit /\ [][ServiceNext]_<<vars, catalogVars>>

Symmetric == Permutations(Callers) \cup Permutations(Principals) \cup Permutations(AuthRevs)
=============================================================================
