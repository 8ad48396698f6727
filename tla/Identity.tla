------------------------------ MODULE Identity ------------------------------
(* The identity a request carries, from the user's JWT to the rows and the  *)
(* columns an MCP server shows (auth.py, mcp_auth.py), while the operator   *)
(* rotates the signing secrets.  The UI signs a token, the agent turns it   *)
(* into a context and signs that as a header, once, for all the requests of *)
(* a bridge (mcp_bridge.py:382); the MCP server verifies the header.        *)
(* A secret is <<family, generation>>; a signature is the secret it needs.  *)
(***************************************************************************)
EXTENDS Naturals, FiniteSets

CONSTANTS Accounts,         \* account identifiers
          Claims,           \* the claims users log in with
          Generations       \* bound: how often the secrets are rotated

\* The identifier that stands for "no row" is no account's.
ASSUME AccountsAssumption == "__DENY_ALL__" \notin Accounts

VARIABLES configured,       \* the secrets the operator sets, {} before Launch
          generation,       \* service -> the generation it was deployed with
          retired,          \* the services whose *_PREVIOUS are unset
          token,            \* the user's JWT
          session,          \* the agent's context, and the claims behind it
          header,           \* the signed context of the agent's bridge
          request,          \* the context the MCP server acts on
          disorderly        \* history: a redeployment out of order

idVars == <<configured, generation, retired, token, session, header, request, disorderly>>

Services == {"ui", "agent", "server"}
Nothing == [kind |-> "nothing"]

----------------------------------------------------------------------------
(* AgentContext and what it permits *)

Get(claims, field, default) ==
  IF field \in DOMAIN claims THEN claims[field] ELSE default

\* The constructor's normalisation of an empty clearance and of an unknown role.
AgentContext(claims, defaultRole) ==
  LET clearance == Get(claims, "compliance_clearance", {"standard"})
      userRole == Get(claims, "user_role", "")
  IN [role |-> Get(claims, "role", defaultRole),
      assigned_account_ids |-> Get(claims, "assigned_account_ids", {}),
      compliance_clearance |-> IF clearance = {} THEN {"standard"} ELSE clearance,
      user_role |-> IF userRole \in {"admin", "analyst", "viewer"} THEN userRole ELSE ""]

Anonymous == [role |-> "readonly", assigned_account_ids |-> {},
              compliance_clearance |-> {"standard"}, user_role |-> ""]

SeesAll(ctx) == ctx.role \in {"manager", "compliance_officer", "senior_rm"}
CanAccessAccount(ctx, a) == SeesAll(ctx) \/ a \in ctx.assigned_account_ids

\* A filter of {} restricts nothing; one of "__DENY_ALL__", which is what a context
\* without accounts gets, leaves no row.
RowFiltersCrm(ctx) ==
  IF SeesAll(ctx) THEN {}
  ELSE IF ctx.assigned_account_ids # {} THEN ctx.assigned_account_ids
  ELSE {"__DENY_ALL__"}

\* The two families of columns that may be NULLed out.
ColMask(ctx) ==
  {family \in {"compliance", "aml"} :
     IF family = "compliance" THEN "compliance_full" \notin ctx.compliance_clearance
     ELSE "aml_view" \notin ctx.compliance_clearance}

\* What a query of an MCP server returns of the CRM for this context.
Shown(ctx) ==
  [rows |-> {a \in Accounts : RowFiltersCrm(ctx) = {} \/ a \in RowFiltersCrm(ctx)},
   columns |-> {"compliance", "aml"} \ ColMask(ctx)]

----------------------------------------------------------------------------
(* Secrets *)

\* A setting of service s: a secret, or {} when the variable is unset.
Setting(s, family) == IF family \in configured THEN {<<family, generation[s]>>} ELSE {}
Previous(s, family) ==
  IF family \in configured /\ generation[s] > 0 /\ s \notin retired
  THEN {<<family, generation[s] - 1>>} ELSE {}

JwtSecret(s) == IF Setting(s, "jwt") # {} THEN Setting(s, "jwt") ELSE {<<"default", 0>>}
HmacSecret(s) == IF Setting(s, "hmac") # {} THEN Setting(s, "hmac") ELSE JwtSecret(s)

AcceptedForJwt(s) == JwtSecret(s) \cup Previous(s, "jwt")
\* Slip: the previous secret is not tried.
CurrentOnlyForHeader(s) == HmacSecret(s)

AcceptedForHeader(s) == HmacSecret(s) \cup Previous(s, "hmac")

----------------------------------------------------------------------------
(* The operator: who signs what another service verifies *)

Signer(s) == CASE s = "agent" -> "ui" [] s = "server" -> "agent" [] OTHER -> "none"
Verifier(s) == CASE s = "ui" -> "agent" [] s = "agent" -> "server" [] OTHER -> "none"
Artefact(s) == CASE s = "agent" -> token [] s = "server" -> header [] OTHER -> Nothing

\* Something s still has to verify was, or will be, signed a generation ago.
Behind(s) ==
  \/ Signer(s) # "none" /\ generation[Signer(s)] < generation[s]
  \/ Artefact(s) # Nothing /\ Artefact(s).generation < generation[s]

\* assert_secrets_configured(): only a dev environment runs on the default.
Launch(families, environment) ==
  /\ generation = [s \in Services |-> 0] /\ configured = {"not launched"}
  /\ environment = "dev" \/ "jwt" \in families
  /\ configured' = families
  /\ UNCHANGED <<generation, retired, token, session, header, request, disorderly>>

Up == configured # {"not launched"}

\* s is redeployed with the next secrets and the present ones as *_PREVIOUS;
\* a rotation starts when the last one is complete.
Rotate(s) ==
  /\ Up /\ generation[s] < Generations
  /\ \A t \in Services : generation[t] >= generation[s]
  /\ generation' = [generation EXCEPT ![s] = @ + 1]
  /\ retired' = retired \ {s}
  /\ disorderly' = \/ disorderly
                   \/ Behind(s)
                   \/ Verifier(s) # "none" /\ generation[Verifier(s)] <= generation[s]
  /\ UNCHANGED <<configured, token, session, header, request>>

\* "After rotation completes, unset the *_PREVIOUS vars" (README.md:440).
Retire(s) ==
  /\ Up /\ generation[s] > 0 /\ s \notin retired
  /\ retired' = retired \cup {s}
  /\ disorderly' = (disorderly \/ Behind(s))
  /\ UNCHANGED <<configured, generation, token, session, header, request>>

----------------------------------------------------------------------------
(* The request path *)

Login(claims) ==
  /\ Up
  /\ \E secret \in JwtSecret("ui") :
       token' = [kind |-> "token", claims |-> claims, secret |-> secret,
                 generation |-> generation["ui"]]
  /\ UNCHANGED <<configured, generation, retired, session, header, request, disorderly>>

\* AgentContext.from_jwt; it raises when neither secret fits.
FromJwt ==
  /\ token # Nothing
  /\ session' = IF token.secret \in AcceptedForJwt("agent")
                THEN [kind |-> "context", ctx |-> AgentContext(token.claims, "rm"),
                      claims |-> token.claims]
                ELSE [kind |-> "refused"]
  /\ UNCHANGED <<configured, generation, retired, token, header, request, disorderly>>

\* MCPToolBridge encodes its context when its loop starts, and only then.
ToHeader ==
  /\ session.kind = "context"
  /\ \E secret \in HmacSecret("agent") :
       header' = [kind |-> "header", payload |-> session.ctx, claims |-> session.claims,
                  secret |-> secret, generation |-> generation["agent"]]
  /\ UNCHANGED <<configured, generation, retired, token, session, request, disorderly>>

FromHeader(raw) == AgentContext(raw.payload, "readonly")
\* verify_auth_context() falls back to anonymous(); the middleware to no context.
Receive(fallback) ==
  /\ header # Nothing
  /\ request' = IF header.secret \in AcceptedForHeader("server")
                THEN [kind |-> "verified", ctx |-> FromHeader(header), claims |-> header.claims]
                ELSE [kind |-> "fallback", ctx |-> fallback,
                      older |-> header.generation < generation["server"]]
  /\ UNCHANGED <<configured, generation, retired, token, session, header, disorderly>>

----------------------------------------------------------------------------
IdInit ==
  /\ configured = {"not launched"} /\ generation = [s \in Services |-> 0]
  /\ retired = {} /\ disorderly = FALSE
  /\ token = Nothing /\ session = Nothing /\ header = Nothing /\ request = Nothing

IdNext ==
  \/ \E families \in SUBSET {"jwt", "hmac"}, environment \in {"dev", "prod"} :
       Launch(families, environment)
  \/ \E s \in Services : Rotate(s)
  \/ \E s \in Services : Retire(s)
  \/ \E claims \in Claims : Login(claims)
  \/ FromJwt
  \/ ToHeader
  \/ \E fallback \in {Anonymous, Nothing} : Receive(fallback)

IdSpec == IdInit /\ [][IdNext]_idVars

\* What the claims of a user permit: the accounts of can_access_account(), and the
\* columns of the families whose level is among the clearances.
Permitted(claims) ==
  LET cleared == Get(claims, "compliance_clearance", {"standard"})
  IN [rows |-> {a \in Accounts : CanAccessAccount(AgentContext(claims, "rm"), a)},
      columns |-> {family \in {"compliance", "aml"} :
                     (CASE family = "compliance" -> "compliance_full"
                        [] family = "aml" -> "aml_view") \in cleared}]

\* A header signed with JWT_SECRET before the server got its next one: there is
\* no JWT_SECRET_PREVIOUS for headers.
NoPrevious == "jwt" \in configured /\ "hmac" \notin configured /\ request.older

\* A header that is verified, however old it is and whatever was rotated since,
\* shows the rows and the columns that the claims of the user's token permit; and
\* a token or a header is refused only if a signer was redeployed before its
\* verifier, a secret retired while something signed with it was left, or the
\* header has no secret of its own (auth.py:59-67, 99-131, 210-264, 297-343).
RotationKeepsIdentity ==
  /\ request.kind = "verified" => Shown(request.ctx) = Permitted(request.claims)
  /\ session.kind = "refused" => disorderly
  /\ request.kind = "fallback" => disorderly \/ NoPrevious
=============================================================================
