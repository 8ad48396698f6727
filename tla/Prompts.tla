------------------------------- MODULE Prompts -------------------------------
(***************************************************************************)
(* PromptManager (prompt_manager.py): prompts of LangFuse in a dictionary  *)
(* with a time to live, a fallback when LangFuse fails -- kept like a      *)
(* prompt -- and invalidation by name.                                     *)
(*                                                                         *)
(* Its methods run in several threads and take no lock: every access to    *)
(* the dictionary is a step.  External: the langfuse client, which has a   *)
(* cache of its own and so may give any version it ever had.               *)
(***************************************************************************)
EXTENDS Naturals

CONSTANTS PromptNames,      \* prompt names; a key is a kind and a name
          PromptValues,     \* what the client may give, and the fallback
          Threads,          \* threads calling the manager
          PromptTtl,        \* ttl_seconds, in ticks
          PromptDelay       \* bound: ticks a call lasts

ASSUME PromptAssumption == PromptTtl \in Nat /\ PromptDelay \in Nat

VARIABLES cachedPrompt,     \* _cache: a function on the keys in it
          given,            \* history: ticks since the client gave a value for a key
          calling           \* thread -> the call under way, or its outcome

promptVars == <<cachedPrompt, given, calling>>

PromptKeys == {"text", "chat"} \X PromptNames
KeysNamed(name) == {"text", "chat"} \X {name}

Ancient == PromptTtl + PromptDelay + 1   \* ages are counted up to here
Later(age) == IF age < Ancient THEN age + 1 ELSE age

NoCall == [pc |-> "none"]
Under(t) == calling[t].pc \in {"looking", "valid", "asked", "deleting"}
Has(key) == key \in DOMAIN cachedPrompt

\* An entry: its value, its age by the time stamp, and (history) the calls of
\* invalidate_cache() that were to drop it.
With(key, value) ==
  [k \in DOMAIN cachedPrompt \cup {key} |->
     IF k = key THEN [value |-> value, age |-> 0, doomed |-> {}] ELSE cachedPrompt[k]]
Without(keys) == [k \in DOMAIN cachedPrompt \ keys |-> cachedPrompt[k]]
Spared(t) == [k \in DOMAIN cachedPrompt |-> [cachedPrompt[k] EXCEPT !.doomed = @ \ {t}]]

Now(t, call) == calling' = [calling EXCEPT ![t] = call]
At(t, pc)    == Now(t, [calling[t] EXCEPT !.pc = pc])

\* What the caller gets, with the age of the answer it stems from.
Served(t, value, lag) ==
  Now(t, [pc |-> "served", waited |-> calling[t].waited, value |-> value, lag |-> lag])

Raises(t) == Now(t, [pc |-> "raised"])

-----------------------------------------------------------------------------
(* get_prompt, get_chat_prompt *)

\* Slip: an entry is never too old.
StillValid(entry) == TRUE

Valid(entry) == entry.age < PromptTtl

\* _is_cached_valid: is there an entry?
GetLooks(t, key) ==
  /\ ~Under(t)
  /\ Now(t, [pc |-> IF Has(key) THEN "looking" ELSE "asked", key |-> key, waited |-> 0])
  /\ UNCHANGED <<cachedPrompt, given>>

\* Is it young enough?  A KeyError if it has gone meanwhile.
GetChecks(t) ==
  LET key == calling[t].key IN
  /\ calling[t].pc = "looking"
  /\ IF ~Has(key) THEN Raises(t)
     ELSE At(t, IF Valid(cachedPrompt[key]) THEN "valid" ELSE "asked")
  /\ UNCHANGED <<cachedPrompt, given>>

\* The entry is read again.
GetReads(t) ==
  LET key == calling[t].key IN
  /\ calling[t].pc = "valid"
  /\ IF ~Has(key) THEN Raises(t)
     ELSE Served(t, cachedPrompt[key].value, given[key][cachedPrompt[key].value])
  /\ UNCHANGED <<cachedPrompt, given>>

\* The client gives a prompt or raises: either way the result is kept.
GetReturns(t, value) ==
  LET key == calling[t].key IN
  /\ calling[t].pc = "asked"
  /\ given' = [given EXCEPT ![key][value] = 0]
  /\ cachedPrompt' = With(key, value)
  /\ Served(t, value, 0)

-----------------------------------------------------------------------------
(* invalidate_cache *)

\* Slip: the chat prompts of the name are forgotten.
TextOf(name) == {<<"text", name>>}

\* The keys that start with the name, as text or as chat.
KeysToRemove(name) == KeysNamed(name)

InvalidateStarts(t, name) ==
  /\ ~Under(t)
  /\ Now(t, [pc |-> "deleting", keys |-> KeysToRemove(name) \cap DOMAIN cachedPrompt])
  /\ cachedPrompt' = [k \in DOMAIN cachedPrompt |->
                        IF k \in KeysNamed(name)
                        THEN [cachedPrompt[k] EXCEPT !.doomed = @ \cup {t}]
                        ELSE cachedPrompt[k]]
  /\ UNCHANGED given

\* The dictionary changed size while its keys were collected.
InvalidateInterrupted(t) ==
  /\ ~Under(t)
  /\ \E u \in Threads \ {t} : calling[u].pc \in {"asked", "deleting"}
  /\ Raises(t)
  /\ UNCHANGED <<cachedPrompt, given>>

\* del: a KeyError if another call has deleted the key.
InvalidateDeletes(t, key) ==
  /\ calling[t].pc = "deleting" /\ key \in calling[t].keys
  /\ IF Has(key)
     THEN /\ cachedPrompt' = Without({key})
          /\ Now(t, [calling[t] EXCEPT !.keys = @ \ {key}])
     ELSE /\ cachedPrompt' = Spared(t)
          /\ Raises(t)
  /\ UNCHANGED given

InvalidateReturns(t) ==
  /\ calling[t].pc = "deleting" /\ calling[t].keys = {}
  /\ Now(t, [pc |-> "invalidated"])
  /\ UNCHANGED <<cachedPrompt, given>>

\* Without a name the dictionary is cleared at once.
ClearCache(t) ==
  /\ ~Under(t)
  /\ cachedPrompt' = Without(PromptKeys)
  /\ Now(t, [pc |-> "invalidated"])
  /\ UNCHANGED given

-----------------------------------------------------------------------------

Getting(t) == calling[t].pc \in {"looking", "valid", "asked"}

PromptTick ==
  /\ \A t \in Threads : Getting(t) => calling[t].waited < PromptDelay
  /\ cachedPrompt' = [k \in DOMAIN cachedPrompt |-> [cachedPrompt[k] EXCEPT !.age = Later(@)]]
  /\ given' = [k \in PromptKeys |-> [v \in PromptValues |-> Later(given[k][v])]]
  /\ calling' = [t \in Threads |->
                   IF Getting(t) THEN [calling[t] EXCEPT !.waited = @ + 1] ELSE calling[t]]

PromptInit ==
  /\ cachedPrompt = [k \in {} |-> NoCall]
  /\ given = [k \in PromptKeys |-> [v \in PromptValues |-> Ancient]]
  /\ calling = [t \in Threads |-> NoCall]

PromptNext ==
  \/ \E t \in Threads, key \in PromptKeys : GetLooks(t, key) \/ InvalidateDeletes(t, key)
  \/ \E t \in Threads : GetChecks(t) \/ GetReads(t)
  \/ \E t \in Threads, value \in PromptValues : GetReturns(t, value)
  \/ \E t \in Threads, name \in PromptNames : InvalidateStarts(t, name)
  \/ \E t \in Threads : InvalidateInterrupted(t) \/ InvalidateReturns(t) \/ ClearCache(t)
  \/ PromptTick

PromptSpec == PromptInit /\ [][PromptNext]_promptVars

\* However the threads interleave, a prompt or a fallback that is served was given
\* by the client for that very key, during the call or less than the time to live
\* before it; and when invalidate_cache() returns, nothing that was kept under the
\* name when it started is left, as text or as chat -- though an answer that was
\* under way may come in later (prompt_manager.py:100-105, 132-164, 227-242).
PromptsAreRecent ==
  \A t \in Threads :
    /\ calling[t].pc = "served" =>
         calling[t].lag = 0 \/ calling[t].lag < PromptTtl + calling[t].waited
    /\ calling[t].pc = "invalidated" =>
         \A key \in DOMAIN cachedPrompt : t \notin cachedPrompt[key].doomed
=============================================================================
