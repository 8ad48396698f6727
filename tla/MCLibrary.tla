------------------------------ MODULE MCLibrary ------------------------------
(***************************************************************************)
(* The components of the library that share nothing with one another, one  *)
(* of them at a time: the first state chooses which.                       *)
(***************************************************************************)
EXTENDS Identity, Prompts, Compaction, SchemaIntrospection, ConfigLoader

CONSTANTS t1, t2, p1, v1, fallback, a1, a2

VARIABLE machine

vars == <<machine, idVars, promptVars, chat, schemaVars, deployment>>

\* Claims as an identity provider issues them: complete, sparse, of no known role.
MCClaims == {[role |-> "manager", assigned_account_ids |-> {}, compliance_clearance |-> {"compliance_full"}],
             [assigned_account_ids |-> {a1}, compliance_clearance |-> {}, user_role |-> "intern"],
             [role |-> "readonly", compliance_clearance |-> {"aml_view"}, user_role |-> "analyst"]}

\* Two tables: with and without comments, keys of one and of two columns,
\* enums below and above the threshold, an empty column, no column, no table.
Table(comment, columns, key) == [comment |-> comment, columns |-> columns, key |-> key]
ForeignKey(columns) == [table |-> "payments", columns |-> columns, to |-> "accounts"]
MCDatabases ==
  LET accounts == Table(TRUE, "region" :> 2 @@ "id" :> 3, {"id"})
      wide == Table(FALSE, "region" :> 3 @@ "id" :> 3, {"id", "region"})
      payments == Table(FALSE, "status" :> 1 @@ "id" :> 3 @@ "region" :> 0, {})
  IN {[tables |-> "accounts" :> accounts @@ "payments" :> payments, foreign |-> {ForeignKey({"id"})}],
      [tables |-> "accounts" :> wide @@ "payments" :> payments, foreign |-> {ForeignKey({"id", "region"})}],
      [tables |-> "payments" :> Table(TRUE, "status" :> 1, {}), foreign |-> {}],
      [tables |-> "accounts" :> accounts @@ "payments" :> Table(TRUE, <<>>, {}), foreign |-> {}]}

\* No file, a good one, and one with an identifier of two parts.
MCRelationships ==
  {{}, {[joins |-> {[from |-> 3, to |-> 3]}, perspectives |-> 1, glossary |-> 1]},
       {[joins |-> {[from |-> 3, to |-> 2]}, perspectives |-> 0, glossary |-> 0]}}

\* ${V}, \x24{V}, $${V}, and $$${V} with \x24${V} after it.
Run(dollars, plain) == [dollars |-> dollars, plain |-> plain, text |-> "V"]
MCLeaves == [type : {"string"}, runs : {<<Run(1, 1)>>, <<Run(1, 0)>>, <<Run(2, 2)>>, <<Run(3, 3), Run(2, 1)>>}]

\* A list of a string and a mapping.
MCLists == {{<<<<"1">>, [type |-> "string", runs |-> <<Run(2, 2)>>]>>,
             <<<<"2", "x">>, [type |-> "string", runs |-> <<Run(1, 1)>>]>>}}
MCKeys == <<{"y", "z"}, {"x"}>>

Init ==
  /\ machine \in {"identity", "prompts", "compaction", "schema", "config"}
  /\ IdInit /\ PromptInit /\ CompactionInit /\ SchemaInit /\ ConfigInit

Next ==
  /\ UNCHANGED machine
  /\ \/ machine = "identity" /\ IdNext
        /\ UNCHANGED <<promptVars, chat, schemaVars, deployment>>
     \/ machine = "prompts" /\ PromptNext
        /\ UNCHANGED <<idVars, chat, schemaVars, deployment>>
     \/ machine = "compaction" /\ CompactionNext
        /\ UNCHANGED <<idVars, promptVars, schemaVars, deployment>>
     \/ machine = "schema" /\ SchemaNext
        /\ UNCHANGED <<idVars, promptVars, chat, deployment>>
     \/ machine = "config" /\ ConfigNext
        /\ UNCHANGED <<idVars, promptVars, chat, schemaVars>>

Spec == Init /\ [][Next]_vars

=============================================================================
