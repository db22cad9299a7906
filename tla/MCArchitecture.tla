---------------------------- MODULE MCArchitecture ----------------------------
EXTENDS ArchitectureGate, TLC

CONSTANTS dom, app, use, ifc, inf, con, leg, cor

\* Files of every layer, some in directories named after other layers, one below
\* an alias of the application, the database at both of its places, one outside
\* the layers.
MCDirs ==
  (dom :> <<"domain">>) @@ (app :> <<"application", "domain">>) @@
  (use :> <<"application", "services">>) @@ (ifc :> <<"interfaces", "http">>) @@
  (inf :> <<"infrastructure", "application">>) @@ (con :> <<"infrastructure", "database">>) @@
  (leg :> <<"infrastructure", "db">>) @@ (cor :> <<"core">>)
MCName ==
  [f \in Nodes |-> IF f = use THEN "interfaces"
                   ELSE IF f \in {con, leg} THEN "connection" ELSE "plain"]

Forms == {"import", "wrapped", "reexport", "bare"}
Imports ==
  {i \in [from : Nodes, to : Nodes, form : Forms, via : Aliases \cup {"relative"}, tail : 1 .. 3] :
     i.tail \in Tails(i.from, i.to, i.via)}
Whole == {i \in Imports : /\ i.form = "import" /\ i.via = "relative" /\ i.tail = 1
                          /\ {i.from, i.to} \subseteq {dom, app, ifc, inf}}

\* Every single import, and every graph of up to MaxEdges imports of four files.
CONSTANT MaxEdges
MCPrograms == {{i} : i \in Imports} \cup UNION {kSubset(k, Whole) : k \in 0 .. MaxEdges}
=============================================================================
