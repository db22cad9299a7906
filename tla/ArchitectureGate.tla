--------------------------- MODULE ArchitectureGate ---------------------------
(***************************************************************************)
(* The import checks of scripts/: the guard that fails a build             *)
(* (guards/architecture-engine.ts), the policy guard next to it (a script  *)
(* of greps), the graph engine (architecture/engine, graph.builder), the   *)
(* rule tables and rule files kept beside them, and the import edges of the*)
(* parser handed to the cycle detector.                                    *)
(*                                                                         *)
(* A file has the directories below src and a name. A specifier is relative*)
(* or begins with an alias of import_map.json, and goes on with the tail of*)
(* the target's path from some directory on.                               *)
(***************************************************************************)
EXTENDS CycleDetector

CONSTANTS
  Dirs,       \* [Nodes -> sequence of directory names below src]
  Name,       \* [Nodes -> a file's name, as far as a check looks for it: the
              \* layer it has in it, "connection" or "plain"]
  Programs    \* sets of imports [from, to, form, via, tail]: a one-line
              \* `import .. from`, one over several lines, a re-export, or
              \* a bare import for its side effects

VARIABLES
  imports,    \* the program under check
  stage,      \* which of the tools runs next
  violations, \* reported by the guard
  matches,    \* reported by the policy guard
  graph       \* edges of GraphBuilder

gate == <<imports, stage, violations, matches, graph>>

Layers == {"domain", "application", "interfaces", "infrastructure"}
DirsOf(f) == {Dirs[f][k] : k \in DOMAIN Dirs[f]}

Shared(f, g) == {k \in DOMAIN Dirs[f] \cap DOMAIN Dirs[g] :
                   \A j \in 1 .. k : Dirs[f][j] = Dirs[g][j]}

ASSUME FilesAssumption == \A f \in Nodes : Dirs[f] \in Seq(STRING)

\* import_map.json: the directory each alias stands for, below src.
Aliases == {"@app/", "@domain/", "@core/", "@infra/", "@app-services/", "@app-ports/"}
import_map ==
  [a \in Aliases |->
     CASE a = "@app/" -> <<>> [] a = "@domain/" -> <<"domain">> [] a = "@core/" -> <<"core">>
       [] a = "@infra/" -> <<"infrastructure">> [] a = "@app-services/" -> <<"application", "services">>
       [] a = "@app-ports/" -> <<"application", "ports">>]

\* Where the path spelled out in a specifier may begin: a relative one spells out
\* at least what its two files do not share, an alias leaves its directory out.
Tails(f, g, via) ==
  IF via = "relative" THEN {1} \cup {k + 1 : k \in Shared(f, g)}
  ELSE {k \in {Len(import_map[via]) + 1} : IsPrefix(import_map[via], Dirs[g])}

ASSUME ProgramAssumption ==
  \A P \in Programs : \A i \in P :
    /\ {i.from, i.to} \subseteq Nodes /\ i.form \in {"import", "wrapped", "reexport", "bare"}
    /\ i.via \in Aliases \cup {"relative"} /\ i.tail \in Tails(i.from, i.to, i.via)

\* What a specifier has in its text: a layer as its alias, the directories from
\* `tail` on, and the name.
Spelled(i) == {Dirs[i.to][k] : k \in i.tail .. Len(Dirs[i.to])}
Named(i) ==
  (IF i.via = "@domain/" THEN {"domain"} ELSE {}) \cup Spelled(i) \cup {Name[i.to]}

-----------------------------------------------------------------------------
\* The rule tables, as what each layer must not import.
Table(d, a, n) ==
  [l \in Layers |-> CASE l = "domain" -> d [] l = "application" -> a
                      [] l = "interfaces" -> n [] OTHER -> {}]

Loose == Table({"infrastructure", "application"}, {"infrastructure"},
               {"infrastructure"})                                  \* mutant
RULES ==
  Table({"infrastructure", "interfaces", "application"}, {"infrastructure"},
        {"infrastructure"})
KERNEL_RULES ==
  Table({"application", "interfaces", "infrastructure"}, {"infrastructure"},
        {"infrastructure"})
ARCHITECTURE_RULES ==
  Table({"infrastructure", "interfaces", "application"}, {"infrastructure"},
        {"infrastructure"})
GUARD_RULES ==
  Table({"infrastructure", "interfaces", "application"}, {"infrastructure"},
        {"infrastructure"})
ArchitectureRules ==
  Table({"infrastructure", "interfaces", "application"}, {"infrastructure"},
        {"infrastructure"})
ARCHITECTURE_RULES_V1 ==
  Table({"application", "interfaces", "infrastructure"}, {"infrastructure"},
        {"infrastructure"})
ARCH_RULES_V1 ==   \* its cannotImport lists
  Table({"application", "infrastructure", "interfaces"}, {"infrastructure"},
        {"infrastructure"})
Tables == {RULES, KERNEL_RULES, ARCHITECTURE_RULES, GUARD_RULES,
           ArchitectureRules, ARCHITECTURE_RULES_V1, ARCH_RULES_V1}

\* The two rule files, which no script reads: architecture.policy.json, and
\* architecture.rules.json, which lists what a layer may import.
forbiddenCrossImports == Table({"infrastructure", "interfaces"}, {"interfaces"}, {})
canDependOn ==
  [l \in Layers |-> CASE l = "domain" -> {} [] l = "interfaces" -> {"application", "domain"}
                      [] OTHER -> {"domain"}]

-----------------------------------------------------------------------------
\* guards/architecture-engine.ts. Its regular expression reads every `from`.
getLayer(f) == IF Dirs[f] = <<>> THEN "" ELSE Dirs[f][1]
extractImports(f) == {i \in imports : i.from = f /\ i.form # "bare"}

Priority == <<"infrastructure", "application", "interfaces", "domain">>
DomainFirst(names) ==                                               \* mutant
  IF "domain" \in names THEN "domain"
  ELSE LET hits == {k \in 1 .. 3 : Priority[k] \in names} IN
       IF hits = {} THEN "external"
       ELSE Priority[CHOOSE k \in hits : \A j \in hits : k <= j]
resolveLayer(names) ==
  LET hits == {k \in 1 .. 4 : Priority[k] \in names} IN
  IF hits = {} THEN "external" ELSE Priority[CHOOSE k \in hits : \A j \in hits : k <= j]

check ==
  {i \in UNION {extractImports(f) : f \in Nodes} :
     getLayer(i.from) \in DOMAIN RULES /\ resolveLayer(Named(i)) \in RULES[getLayer(i.from)]}

\* guards/architecture-guard.sh greps for four texts, whatever they stand in.
Into(i) == IF i.tail <= Len(Dirs[i.to]) THEN Dirs[i.to][i.tail] ELSE Name[i.to]
Climbs(i) == IF i.via = "relative" THEN Len(Dirs[i.from]) + 1 - i.tail ELSE 0
grep(i) ==
  \/ \E k \in i.tail .. Len(Dirs[i.to]) - 1 :              \* infrastructure/db
       Dirs[i.to][k] = "infrastructure" /\ Dirs[i.to][k + 1] = "db"
  \/ Climbs(i) >= 2 /\ Into(i) = "database"                \* ../../database
  \/ i.via = "@infra/" /\ Into(i) = "database"             \* @infra/database
  \/ /\ i.tail <= Len(Dirs[i.to]) /\ Last(Dirs[i.to]) = "db"
     /\ Name[i.to] = "connection"                          \* db/connection

grepped == {i \in imports : grep(i)}

\* graph/graph.builder.ts: one-line imports only, relative targets resolved and
\* aliases left as they are, the layer looked for among the directories.
detectType(dirs) ==
  IF "domain" \in dirs THEN "domain"
  ELSE IF "application" \in dirs THEN "application"
  ELSE IF "interfaces" \in dirs THEN "interfaces" ELSE "infrastructure"
matched == {i \in imports : i.form = "import"}
Target(i) == IF i.via = "relative" THEN DirsOf(i.to) ELSE Spelled(i)
build ==
  {[import |-> i, fromType |-> detectType(DirsOf(i.from)), toType |-> detectType(Target(i))] :
     i \in matched}
validateEdges(es) == \A e \in es : {e.import.from, e.import.to} \subseteq Nodes

\* analysis/ast.parser.ts: import declarations, re-exports not among them. The
\* parser's tsconfig knows no alias: such an import resolves to no source file.
getImportEdges ==
  {<<i.from, i.to>> : i \in {j \in imports : j.form # "reexport" /\ j.via = "relative"}}

-----------------------------------------------------------------------------
GateInit ==
  /\ imports \in Programs /\ stage = "guard"
  /\ violations = {} /\ matches = {} /\ graph = {}
  /\ Begin({})

\* run of the guard: it exits with 1 when there are violations. The tools belong
\* to workflows of their own, so the others run all the same.
RunGuard ==
  /\ stage = "guard"
  /\ violations' = check
  /\ stage' = "policy"
  /\ UNCHANGED <<imports, matches, graph, search>>

\* The policy guard exits with 1 when a grep finds anything.
RunPolicyGuard ==
  /\ stage = "policy"
  /\ matches' = grepped
  /\ stage' = "graph"
  /\ UNCHANGED <<imports, violations, graph, search>>

\* runArchitectureEngine: whatever the layers of the edges, it is clean.
RunEngine ==
  /\ stage = "graph"
  /\ graph' = build
  /\ stage' = IF validateEdges(build) THEN "parse" ELSE "invalid"
  /\ UNCHANGED <<imports, violations, matches, search>>

\* detectCycles on the edges of the parser.
Detect ==
  /\ stage = "parse"
  /\ stage' = "search"
  /\ edges' = getImportEdges /\ roots' = From(getImportEdges)
  /\ todo' = [n \in Nodes |-> Successors(getImportEdges, n)]
  /\ UNCHANGED <<imports, violations, matches, graph, path, visited, stack, cycles>>

Search == stage = "search" /\ Next /\ UNCHANGED gate

GateNext == RunGuard \/ RunPolicyGuard \/ RunEngine \/ Detect \/ Search
GateSpec == GateInit /\ [][GateNext]_<<gate, search>>

-----------------------------------------------------------------------------
\* An import across a layer that the guard's table denies, written with `from`.
\* All specifiers but three aliases name the layer their target lies in.
Denied(i) ==
  /\ i.form # "bare"
  /\ getLayer(i.from) \in Layers /\ getLayer(i.to) \in RULES[getLayer(i.from)]
NamesLayer(i) == i.via \notin {"@infra/", "@app-services/", "@app-ports/"}
Database(f) ==
  \/ IsPrefix(<<"infrastructure", "database">>, Dirs[f])
  \/ Dirs[f] = <<"infrastructure", "db">> /\ Name[f] = "connection"

\* The guard reports a denied import that names its target's layer, whatever other
\* layer names the path carries: resolveLayer looks for the layers in an order
\* that puts those many layers deny first. An alias hides the layer from it, but
\* the policy guard knows the one that leads to the database: no denied import of
\* the database gets past both.
DeniedImportsReported ==
  /\ stage # "guard" => \A i \in imports : Denied(i) /\ NamesLayer(i) => i \in violations
  /\ stage \notin {"guard", "policy"} =>
       \A i \in imports : Denied(i) /\ Database(i.to) => i \in violations \cup matches

\* Where paths and specifiers name no layer but their own, the guard's verdict on
\* an import is the one that any of the seven tables of the scripts gives of its
\* types in the graph. The two rule files allow nothing it reports, but they
\* forbid more: imports between three pairs of layers, which it lets through.
PlainlyNamed(f) == DirsOf(f) \cap Layers = {getLayer(f)} /\ Name[f] \notin Layers
Plain(i) ==
  /\ i.form # "bare" /\ i.via \in {"relative", "@app/"}
  /\ PlainlyNamed(i.from) /\ PlainlyNamed(i.to)
ForbiddenByFile(from, to) ==
  from # to /\ (to \in forbiddenCrossImports[from] \/ to \notin canDependOn[from])
Overlooked ==
  {<<"application", "interfaces">>, <<"infrastructure", "application">>,
   <<"infrastructure", "interfaces">>}
GatesAgree ==
  stage \in {"parse", "search"} =>
    /\ \A e \in graph, T \in Tables : Plain(e.import) =>
         (e.import \in violations <=> e.toType \in T[e.fromType])
    /\ \A i \in imports : Plain(i) =>
         LET pair == <<getLayer(i.from), getLayer(i.to)>> IN
         i \in violations <=> ForbiddenByFile(pair[1], pair[2]) /\ pair \notin Overlooked
=============================================================================
