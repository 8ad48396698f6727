------------------------------ MODULE Compaction ------------------------------
(* What reaches the model when an agent's history is long (compaction.py,  *)
(* and the modifier services/agent_builder.py wraps around it): messages    *)
(* are counted, trimmed from the front to the token limit, and guarded so   *)
(* that something is left. A message is the role it plays and its tokens;   *)
(* its text is left out. trim_messages is langchain's.                      *)
(***************************************************************************)
EXTENDS Integers, SequencesExt

CONSTANTS MessageTokens,    \* the sizes of messages
          MaxMessages,      \* bound: messages in a history
          TokenLimits       \* the values of context_token_limit tried

ASSUME CompactionAssumption == MessageTokens \subseteq Nat /\ TokenLimits \subseteq Int

VARIABLES chat              \* the turn: its history, and what the model got

\* Both counters add up the messages; the heuristic one gives each at least 1.
Tokens(messages) ==
  LET sum[n \in 0 .. Len(messages)] == IF n = 0 THEN 0 ELSE sum[n - 1] + messages[n].tokens
  IN sum[Len(messages)]

\* The classes of messages, and those that are not system messages: the user's,
\* the model's answers and calls of tools, the results of these.
System == {"system"}
Spoken == {"human", "ai", "tool"}

\* [m for m in messages if isinstance(m, SystemMessage)], or if not: a function
\* of the prefixes, as Tokens is, for the provers know neither SelectSeq nor FoldSeq.
Only(roles, messages) ==
  LET kept[n \in 0 .. Len(messages)] ==
        IF n = 0 THEN <<>>
        ELSE IF messages[n].role \in roles THEN Append(kept[n - 1], messages[n]) ELSE kept[n - 1]
  IN kept[Len(messages)]

IsSystem(m) == m.role \in System

----------------------------------------------------------------------------
(* langchain_core.messages.trim_messages(strategy="last", include_system=True, *)
(* allow_partial=False): the longest suffix that fits beside a leading system  *)
(* message, which stays even when it alone is too long.                        *)
TrimMessages(messages, limit) ==
  LET leads == messages # <<>> /\ IsSystem(messages[1])
      head == IF leads THEN <<messages[1]>> ELSE <<>>
      rest == IF leads THEN Tail(messages) ELSE messages
      room == IF limit > Tokens(head) THEN limit - Tokens(head) ELSE 0
      first == CHOOSE i \in 1 .. Len(rest) + 1 :
                 /\ Tokens(SubSeq(rest, i, Len(rest))) <= room
                 /\ \A j \in 1 .. i - 1 : Tokens(SubSeq(rest, j, Len(rest))) > room
  IN head \o SubSeq(rest, first, Len(rest))

\* The system messages and the last of the others, whoever sent it: in the loop
\* of a ReAct agent that is the result of a tool more often than the user's message.
SystemAndLast(messages) ==
  LET spoken == Only(Spoken, messages)
  IN Only(System, messages)
       \o (IF spoken = <<>> THEN <<>> ELSE <<spoken[Len(spoken)]>>)

\* Slip: the guard only looks for an empty list.
TooFewIfEmpty(trimmed, messages) == trimmed = <<>> /\ Len(messages) >= 2

\* The min-message guard.
TooFew(trimmed, messages) == Len(trimmed) < 2 /\ Len(messages) >= 2

\* TokenAwareCompactionModifier.apply, and the _modifier of the factory.
Apply(messages, limit) ==
  LET trimmed == TrimMessages(messages, limit)
  IN IF Tokens(messages) <= limit THEN messages
     ELSE IF TooFew(trimmed, messages) THEN SystemAndLast(messages)
     ELSE trimmed

\* make_compaction_modifier: enable_compaction = False passes everything on.
CompactionModifier(config, messages) ==
  IF config.enable_compaction THEN Apply(messages, config.context_token_limit) ELSE messages

WithPrompt(prompt, messages) ==
  IF prompt # <<>> /\ (messages = <<>> \/ ~IsSystem(messages[1]))
  THEN prompt \o messages ELSE messages

\* The state modifier of AgentBuilder.build: the prompt is added after it.
AgentBuilderModifier(config, prompt, messages) ==
  WithPrompt(prompt, CompactionModifier(config, messages))

----------------------------------------------------------------------------
Prompts == {<<>>} \cup {<<[role |-> "system", tokens |-> n]>> : n \in MessageTokens}

CompactionInit == chat = [pc |-> "unbuilt"]

\* AgentBuilder.build().
Build(enabled, limit, prompt) ==
  /\ chat.pc = "unbuilt"
  /\ chat' = [pc |-> "turn", prompt |-> prompt, history |-> <<>>, sent |-> <<>>,
              config |-> [enable_compaction |-> enabled, context_token_limit |-> limit]]

\* A message enters the graph's state, which compaction never shortens: system
\* messages come first, the model answers when it was asked, and tools answer it.
Say(message) ==
  LET before == chat.history
  IN /\ chat.pc \in {"turn", "asked"} /\ Len(before) < MaxMessages
     /\ IsSystem(message) => \A i \in DOMAIN before : IsSystem(before[i])
     /\ message.role = "ai" => chat.pc = "asked"
     /\ message.role = "tool" => before # <<>> /\ before[Len(before)].role \in {"ai", "tool"}
     /\ chat' = [chat EXCEPT !.pc = "turn", !.history = Append(@, message)]

\* LangGraph calls the modifier before each call of the model, at the start of
\* a turn and after the tools.
AskModel ==
  /\ chat.pc = "turn"
  /\ chat.history # <<>> => chat.history[Len(chat.history)].role # "ai"
  /\ chat' = [chat EXCEPT !.pc = "asked",
                          !.sent = AgentBuilderModifier(chat.config, chat.prompt, chat.history)]

CompactionNext ==
  \/ \E enabled \in BOOLEAN, limit \in TokenLimits, prompt \in Prompts : Build(enabled, limit, prompt)
  \/ \E message \in [role : System \cup Spoken, tokens : MessageTokens] : Say(message)
  \/ AskModel

CompactionSpec == CompactionInit /\ [][CompactionNext]_chat

\* What compaction makes of a conversation: its end, some of it when there are
\* two messages or more; the leading system message; and no more tokens than
\* the limit, or only the last message and ones that weigh nothing.
KeepsTheEnd(sent, messages, limit) ==
  LET said == Only(Spoken, messages)
      kept == Only(Spoken, sent)
  IN /\ IsSuffix(kept, said)
     /\ said # <<>> /\ Len(messages) >= 2 => kept # <<>>
     /\ messages # <<>> /\ IsSystem(messages[1]) => Only(System, sent)[1] = messages[1]
     /\ Tokens(sent) <= limit \/ Len(kept) <= 1 \/ Tokens(kept) = 0

\* What came after a message of the user, itself and the leading system
\* message together fit.
TurnFits(i, messages, limit) ==
  LET said == Only(Spoken, messages)
      lead == IF messages # <<>> /\ IsSystem(messages[1]) THEN messages[1].tokens ELSE 0
  IN lead + Tokens(SubSeq(said, i, Len(said))) <= limit

KeepsRequests(sent, messages, limit) ==
  LET said == Only(Spoken, messages)
      kept == Only(Spoken, sent)
  IN \A i \in DOMAIN said :
       said[i].role = "human" /\ TurnFits(i, messages, limit) => Len(kept) > Len(said) - i

\* Whatever is trimmed, the model is given the end of the conversation, and a
\* request of the user is lost only when the turn it began has outgrown the
\* limit -- then the guard keeps the result of a tool without the request it is
\* for, which compaction.py:249-251 means to rule out. The prompt is added
\* afterwards and does not count (compaction.py:137-188, agent_builder.py:75-80).
RequestReachesModel ==
  chat.pc = "asked" /\ chat.config.enable_compaction =>
    LET limit == chat.config.context_token_limit
    IN /\ KeepsTheEnd(chat.sent, chat.history, limit + Tokens(chat.prompt))
       /\ KeepsRequests(chat.sent, chat.history, limit)
=============================================================================
