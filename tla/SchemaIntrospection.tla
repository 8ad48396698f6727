------------------------- MODULE SchemaIntrospection -------------------------
(* introspect_schema (schema_introspection.py): four queries of the catalog *)
(* and a probe per enum-like column, on one connection and in no common     *)
(* transaction, while others commit changes to the schema and the data.     *)
(* A table stands for a qualified name, what the operator's text says       *)
(* (comments, semantics) for the fact that there is one; the order of rows  *)
(* and of the lines of the prompt is left out. The database is external.    *)
(***************************************************************************)
EXTENDS Naturals, FiniteSets

CONSTANTS Databases,        \* the contents the database may have
          EnumNames,        \* columns whose name and type look like an enum
          EnumThreshold,    \* ENUM_CARDINALITY_THRESHOLD
          Relationships,    \* the YAML files that may be there
          Commits           \* bound: commits during an introspection

\* A primary key is made of columns of its table.
ASSUME DatabasesAssumption ==
  /\ Databases # {}
  /\ \A db \in Databases : \A t \in DOMAIN db.tables :
       /\ db.tables[t].key \subseteq DOMAIN db.tables[t].columns
       /\ \A c \in DOMAIN db.tables[t].columns : db.tables[t].columns[c] \in Nat

VARIABLES database,         \* the committed contents
          introspection,    \* the run of introspect_schema
          held,             \* history: facts true ever since it started
          seen              \* history: facts true at some time since

schemaVars == <<database, introspection, held, seen>>

(* A database: its tables, each with a comment or not, its columns (and how *)
(* many distinct values each has), its primary key; and its foreign keys.   *)
Columns(db, t) == DOMAIN db.tables[t].columns
Distinct(db, t, c) == db.tables[t].columns[c]

LooksLikeEnumCandidate(column) == column \in EnumNames

\* What a database says of a table, and what of itself, that an introspection
\* is to report.
FactsOf(db, t) ==
       {<<"column", t, c>> : c \in Columns(db, t)}
  \cup {<<"enum", t, c, Distinct(db, t, c)>> :
          c \in {d \in Columns(db, t) \cap EnumNames : Distinct(db, t, d) \in 1 .. EnumThreshold}}
  \cup (IF Columns(db, t) # {} THEN {<<"table", t>>} ELSE {})
  \cup (IF db.tables[t].comment THEN {<<"comment", t>>} ELSE {})
  \cup (IF db.tables[t].key # {} THEN {<<"key", t, db.tables[t].key>>} ELSE {})

Facts(db) ==
  (UNION {FactsOf(db, t) : t \in DOMAIN db.tables})
  \cup {<<"foreign", fk>> : fk \in {f \in db.foreign : Cardinality(f.columns) = 1}}

----------------------------------------------------------------------------
(* The catalog queries *)

FetchTables(db) == {t \in DOMAIN db.tables : db.tables[t].comment}
FetchColumns(db) == UNION {{t} \X Columns(db, t) : t \in DOMAIN db.tables}
FetchPrimaryKeys(db) == {<<t, db.tables[t].key>> : t \in {u \in DOMAIN db.tables : db.tables[u].key # {}}}
FetchForeignKeys(db) == {fk \in db.foreign : Cardinality(fk.columns) = 1}

\* Slip: LIMIT is the threshold, and a list cut short looks like an enum.
SampleLimited(db, t, c) ==
  IF t \in DOMAIN db.tables /\ c \in Columns(db, t)
  THEN {<<t, c, IF Distinct(db, t, c) <= EnumThreshold THEN Distinct(db, t, c) ELSE EnumThreshold>>}
  ELSE {}

\* At most LIMIT + 1 rows are fetched; more than the limit is no enum, and a
\* probe that fails, for a lost table or for any other reason, is none either.
SampleEnumValues(db, t, c) ==
  IF t \in DOMAIN db.tables /\ c \in Columns(db, t) /\ Distinct(db, t, c) <= EnumThreshold
  THEN {<<t, c, Distinct(db, t, c)>>} ELSE {}

NotRunning(pc) ==
  [pc |-> pc, sample |-> FALSE, commits |-> 0, tables |-> {}, columns |-> {}, keys |-> {},
   foreign |-> {}, probes |-> {}, failed |-> {}, enums |-> {}, prompt |-> {}]
Running == introspection.pc \in {"tables", "columns", "keys", "foreign", "sampling"}

Starts(sampleEnums) ==
  /\ ~Running
  /\ introspection' = [NotRunning("tables") EXCEPT !.sample = sampleEnums]
  /\ held' = Facts(database) /\ seen' = Facts(database)
  /\ UNCHANGED database

ReadsTables ==
  /\ introspection.pc = "tables"
  /\ introspection' = [introspection EXCEPT !.pc = "columns", !.tables = FetchTables(database)]
  /\ UNCHANGED <<database, held, seen>>

ReadsColumns ==
  /\ introspection.pc = "columns"
  /\ introspection' = [introspection EXCEPT !.pc = "keys", !.columns = FetchColumns(database)]
  /\ UNCHANGED <<database, held, seen>>

ReadsPrimaryKeys ==
  /\ introspection.pc = "keys"
  /\ introspection' = [introspection EXCEPT !.pc = "foreign", !.keys = FetchPrimaryKeys(database)]
  /\ UNCHANGED <<database, held, seen>>

ReadsForeignKeys ==
  /\ introspection.pc = "foreign"
  /\ introspection' =
       [introspection EXCEPT !.pc = "sampling", !.foreign = FetchForeignKeys(database),
          !.probes = {tc \in introspection.columns :
                        introspection.sample /\ LooksLikeEnumCandidate(tc[2])}]
  /\ UNCHANGED <<database, held, seen>>

Samples(tc, fails) ==
  /\ introspection.pc = "sampling" /\ tc \in introspection.probes
  /\ introspection' =
       [introspection EXCEPT !.probes = @ \ {tc},
          !.failed = IF fails THEN @ \cup {tc} ELSE @,
          !.enums = IF fails THEN @ ELSE @ \cup SampleEnumValues(database, tc[1], tc[2])]
  /\ UNCHANGED <<database, held, seen>>

\* Acquiring the connection or a catalog query raises.
QueryFails ==
  /\ introspection.pc \in {"tables", "columns", "keys", "foreign"}
  /\ introspection' = NotRunning("raised")
  /\ UNCHANGED <<database, held, seen>>

----------------------------------------------------------------------------
(* The relationships file and the SchemaContext *)

\* 'schema.table.column': an identifier is the number of its parts here.
SplitQualified(ident) == ident = 3

\* A missing path, file or section is empty; a join that does not split raises.
LoadRelationshipsYaml(file) ==
  IF file = {} THEN [raises |-> FALSE, joins |-> 0, perspectives |-> 0, glossary |-> 0]
  ELSE LET raw == CHOOSE r \in file : TRUE
       IN [raises |-> \E join \in raw.joins : ~SplitQualified(join.from) \/ ~SplitQualified(join.to),
           joins |-> Cardinality(raw.joins), perspectives |-> raw.perspectives,
           glossary |-> raw.glossary]

\* A table is known by its columns; its comment and its key are looked up.
SchemaContext(run, relationships) ==
  LET tables == {tc[1] : tc \in run.columns}
  IN [columns |-> run.columns, enums |-> run.enums, foreign_keys |-> run.foreign,
      descriptions |-> tables \cap run.tables,
      primary_keys |-> {key \in run.keys : key[1] \in tables},
      relationships |-> relationships]

\* The lines of the prompt: what they state, in sections that may be missing.
FormatForPrompt(ctx) ==
       {<<"glossary", n>> : n \in 1 .. ctx.relationships.glossary}
  \cup {<<"perspective", n>> : n \in 1 .. ctx.relationships.perspectives}
  \cup {<<"table", tc[1]>> : tc \in ctx.columns}
  \cup {<<"comment", t>> : t \in ctx.descriptions}
  \cup {<<"key", key[1], key[2]>> : key \in ctx.primary_keys}
  \cup {<<"column", tc[1], tc[2]>> : tc \in ctx.columns}
  \cup {<<"enum", e[1], e[2], e[3]>> : e \in {f \in ctx.enums : f[3] > 0}}
  \cup {<<"foreign", fk>> : fk \in ctx.foreign_keys}
  \cup {<<"join", n>> : n \in 1 .. ctx.relationships.joins}

Returns(file) ==
  /\ introspection.pc = "sampling" /\ introspection.probes = {}
  /\ introspection' =
       LET relationships == LoadRelationshipsYaml(file)
       IN IF relationships.raises THEN NotRunning("raised")
          ELSE [introspection EXCEPT !.pc = "done",
                  !.prompt = FormatForPrompt(SchemaContext(introspection, relationships))]
  /\ UNCHANGED <<database, held, seen>>

\* Another session commits a change while the introspection runs, or between two.
Commit(db) ==
  /\ db # database
  /\ IF Running
     THEN /\ introspection.commits < Commits
          /\ introspection' = [introspection EXCEPT !.commits = @ + 1]
          /\ held' = held \cap Facts(db) /\ seen' = seen \cup Facts(db)
     ELSE /\ introspection' = NotRunning("idle")
          /\ held' = {} /\ seen' = {}
  /\ database' = db

SchemaInit ==
  /\ database = CHOOSE db \in Databases : TRUE
  /\ introspection = NotRunning("idle") /\ held = {} /\ seen = {}

SchemaNext ==
  \/ \E sampleEnums \in BOOLEAN : Starts(sampleEnums)
  \/ ReadsTables \/ ReadsColumns \/ ReadsPrimaryKeys \/ ReadsForeignKeys
  \/ \E tc \in introspection.probes, fails \in BOOLEAN : Samples(tc, fails)
  \/ QueryFails
  \/ \E file \in Relationships : Returns(file)
  \/ \E db \in Databases : Commit(db)

SchemaSpec == SchemaInit /\ [][SchemaNext]_schemaVars

\* However many changes are committed between its queries, the prompt states
\* of the database nothing that was not true at some time of the run, and
\* everything that was true all along -- the comment of a table unless it had
\* no column at some time, the values of a column unless they were not asked
\* for or their probe failed (schema_introspection.py:260-282,
\* 367-403, 469-500).
PromptIsHonest ==
  introspection.pc = "done" =>
    LET stated == {line \in introspection.prompt : line[1] \notin {"glossary", "perspective", "join"}}
        expected == {fact \in held :
                       /\ fact[1] = "comment" => <<"table", fact[2]>> \in held
                       /\ fact[1] = "enum" => /\ introspection.sample
                                              /\ <<fact[2], fact[3]>> \notin introspection.failed}
    IN stated \subseteq seen /\ expected \subseteq stated
=============================================================================
