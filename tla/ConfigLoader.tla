----------------------------- MODULE ConfigLoader -----------------------------
(* load_config (config/loader.py) and the command that is run before a       *)
(* deployment, check-env-example (cli/main.py). Both look for ${VAR}, the    *)
(* loader in the strings that YAML yields and the command in the text of the *)
(* files. A string is a sequence of runs: some dollars, of which the last    *)
(* "plain" ones stand in the text as they are and the others as an escape    *)
(* ("\x24"), and what follows: {VAR}, as the name, or other text.            *)
(* Parsing YAML and Pydantic are external.                                   *)
(***************************************************************************)
EXTENDS Integers, SequencesExt

CONSTANTS Variables,        \* names a string may refer to
          Leaves,           \* the strings and numbers of the files
          Lists,            \* the leaves of a list, each with its path in the list
          Keys,             \* the keys at each depth of a file, the innermost first
          Schema            \* the keys the Pydantic model requires

ASSUME ConfigAssumption ==
  /\ \A leaf \in Leaves : leaf.type \notin {"map", "list"}
  /\ \A items \in Lists : items \subseteq Seq(STRING) \X Leaves
  /\ Keys \in Seq(SUBSET STRING) /\ Keys # <<>>

VARIABLES deployment        \* the files, the environment and what came of them

IsMap(node) == node.type = "map"
Map(entries) == [type |-> "map", entries |-> entries]
NoEntries == [key \in {} |-> key]

\* The mappings that YAML can yield, by their depth. Recursion over them is by
\* depth, too: the functions for one depth are made of those for the depth below.
Items == [type : {"list"}, items : Lists]
Mappings[n \in 0 .. Len(Keys)] ==
  IF n = 0 THEN {NoEntries}
  ELSE UNION {[keys -> Leaves \cup Items \cup [type : {"map"}, entries : Mappings[n - 1]]] :
                keys \in SUBSET Keys[n]}

\* ${VAR} after the escapes: an odd dollar is left over for it.
Refers(run) == run.text \in Variables /\ run.dollars % 2 = 1

\* Every leaf of a mapping with its path; a list is one, and so is {}.
HasEntries(node) == IsMap(node) /\ node.entries # NoEntries

LeavesIn[n \in 0 .. Len(Keys)] ==
  [entries \in Mappings[n] |->
     UNION {IF HasEntries(entries[k]) THEN {<<<<k>> \o l[1], l[2]>> : l \in LeavesIn[n - 1][entries[k].entries]}
            ELSE {<<<<k>>, entries[k]>>} : k \in DOMAIN entries}]
LeavesOf(entries) == LeavesIn[Len(Keys)][entries]

Strings(node) == IF node.type = "list" THEN {item[2] : item \in node.items} ELSE {node}
RunsIn(leaf) == IF leaf.type = "string" THEN ToSet(leaf.runs) ELSE {}
Runs(entries) == UNION {RunsIn(s) : s \in UNION {Strings(l[2]) : l \in LeavesOf(entries)}}
References(entries) == {run.text : run \in {r \in Runs(entries) : Refers(r)}}

----------------------------------------------------------------------------
(* load_config *)

Merges[n \in 0 .. Len(Keys)] ==
  [base \in Mappings[n] |-> [overlay \in Mappings[n] |->
     [k \in DOMAIN base \cup DOMAIN overlay |->
        CASE k \notin DOMAIN overlay -> base[k]
          [] k \in DOMAIN base \cap DOMAIN overlay /\ IsMap(base[k]) /\ IsMap(overlay[k]) ->
               Map(Merges[n - 1][base[k].entries][overlay[k].entries])
          [] OTHER -> overlay[k]]]]
DeepMerge(base, overlay) == Merges[Len(Keys)][base][overlay]

\* A file is missing, malformed, no mapping, or a mapping; an empty one is {}.
Entries(file) == IF file.kind = "mapping" THEN file.entries ELSE NoEntries

\* Slip: the overlay's mappings replace the base's.
MergedAtTheTop(d) ==
  [k \in DOMAIN Entries(d.base) \cup DOMAIN Entries(d.overlay) |->
     IF k \in DOMAIN Entries(d.overlay) THEN Entries(d.overlay)[k] ELSE Entries(d.base)[k]]

Merged(d) == DeepMerge(Entries(d.base), Entries(d.overlay))

\* "$$" gives "$"; ${VAR} gives the value, or stays when it is not set.
SubstituteRun(run, environ) ==
  IF Refers(run) /\ run.text \in environ THEN [value |-> run.text, dollars |-> run.dollars \div 2]
  ELSE [literal |-> run.text, dollars |-> (run.dollars + 1) \div 2]

SubstituteString(leaf, environ) ==
  IF leaf.type = "string"
  THEN [leaf EXCEPT !.runs = [i \in DOMAIN @ |-> SubstituteRun(@[i], environ)]]
  ELSE leaf

SubstituteLeaf(node, environ) ==
  IF node.type = "list"
  THEN [node EXCEPT !.items = {<<item[1], SubstituteString(item[2], environ)>> : item \in @}]
  ELSE SubstituteString(node, environ)

\* The checks in their order, each with all its errors; the first that has
\* some raises ConfigError with them.
Checks(d) ==
  LET Is(file, kind) == IF d[file].kind = kind THEN {file} ELSE {}
  IN <<[phase |-> "environment", errors |-> IF d.named THEN {} ELSE {"ENVIRONMENT"}],
       [phase |-> "parse", errors |-> Is("base", "missing")],
       [phase |-> "parse", errors |-> Is("base", "malformed") \cup Is("overlay", "malformed")],
       [phase |-> "parse", errors |-> Is("base", "scalar")],
       [phase |-> "parse", errors |-> Is("overlay", "scalar")],
       [phase |-> "substitute", errors |-> References(Merged(d)) \ d.environ],
       [phase |-> "validate", errors |-> Schema \ DOMAIN Merged(d)]>>

Loaded(d) ==
  LET checks == Checks(d)
      failed == {i \in DOMAIN checks : checks[i].errors # {}}
  IN IF failed # {} THEN checks[Min(failed)]
     ELSE [phase |-> "loaded", errors |-> {},
           leaves |-> {<<l[1], SubstituteLeaf(l[2], d.environ)>> : l \in LeavesOf(Merged(d))}]

----------------------------------------------------------------------------
(* check-env-example *)

\* What the text shows once every "$$" is deleted from it: the runs with an odd
\* plain dollar, and what no string of the two files has: in comments, in keys, in
\* the overlays of other environments.
FileRuns(d) == Runs(Entries(d.base)) \cup Runs(Entries(d.overlay))
ScanYamlVars(d) ==
  d.remarks \cup {run.text : run \in {r \in FileRuns(d) : r.text \in Variables /\ r.plain % 2 = 1}}

Checked(d) == IF ScanYamlVars(d) \subseteq d.documented THEN "OK" ELSE "FAIL"

----------------------------------------------------------------------------
Files == {[kind |-> kind] : kind \in {"missing", "malformed", "scalar"}}
  \cup {[kind |-> "mapping", entries |-> e] : e \in Mappings[Len(Keys)]}

ConfigInit == deployment = [pc |-> "none"]

Deploy ==
  /\ deployment.pc = "none"
  /\ \E base, overlay \in Files, remarks, documented, environ \in SUBSET Variables, named \in BOOLEAN :
       deployment' = [pc |-> "deployed", base |-> base, overlay |-> overlay, remarks |-> remarks,
                      named |-> named, documented |-> documented, environ |-> environ,
                      check |-> "none", result |-> [phase |-> "none", errors |-> {}]]

CheckEnvExample ==
  /\ deployment.pc = "deployed"
  /\ deployment' = [deployment EXCEPT !.pc = "checked", !.check = Checked(deployment)]

LoadConfig ==
  /\ deployment.pc = "checked"
  /\ deployment' = [deployment EXCEPT !.pc = "loaded", !.result = Loaded(deployment)]

ConfigNext == Deploy \/ CheckEnvExample \/ LoadConfig

ConfigSpec == ConfigInit /\ [][ConfigNext]_deployment

\* The merge by its leaves: those of the overlay, but for a {} where the base
\* has entries, and those of the base that none of these replaces, buries under
\* a leaf or turns into a mapping.
Yields(o, b) == IsMap(o[2]) /\ IsStrictPrefix(o[1], b[1])
Overrides(o, b) == (IsPrefix(o[1], b[1]) \/ IsPrefix(b[1], o[1])) /\ ~Yields(o, b)
MergedLeaves(base, overlay) ==
  {o \in overlay : \A b \in base : ~Yields(o, b)}
    \cup {b \in base : \A o \in overlay : ~Overrides(o, b)}

\* References that the text shows differently: some dollar is an escape there.
EscapedReferences(d) ==
  {run.text : run \in {r \in FileRuns(d) : Refers(r) /\ r.plain # r.dollars}}

\* A deployment that check-env-example accepts, in an environment that sets
\* every documented variable, never fails for a variable, unless YAML escapes
\* hide the reference from the command; and what is loaded is leaf by leaf the
\* overlay's or else the base's, with no reference left
\* (config/loader.py:104-113, 138-175; cli/main.py:87-152).
CheckedConfigLoads ==
  deployment.pc = "loaded" =>
    LET d == deployment
        leaves == MergedLeaves(LeavesOf(Entries(d.base)), LeavesOf(Entries(d.overlay)))
    IN /\ (d.check = "OK" /\ d.documented \subseteq d.environ /\ d.result.phase = "substitute") =>
            d.result.errors \subseteq EscapedReferences(d)
       /\ d.result.phase = "loaded" =>
            d.result.leaves = {<<l[1], SubstituteLeaf(l[2], Variables)>> : l \in leaves}
=============================================================================
