-------------------------------- MODULE Llm --------------------------------
(***************************************************************************)
(* A call to a language model (llm/): the provider asks the service, a      *)
(* retrying wrapper asks again after a transient error, a cache keeps what  *)
(* the primary model answered, and fallback models are tried in order when  *)
(* the primary failed for good.  Several callers, in one or more processes, *)
(* share the database of the cache.                                        *)
(***************************************************************************)
EXTENDS Naturals, Sequences

CONSTANTS
  Callers,      \* calls that run at the same time
  Prompts,      \* a prompt with its system prompt
  Models,       \* the models in the order of the chain: name and provider
  MaxRetries,   \* retries of the primary; a fallback has one less
  Ttl,          \* cache_ttl_days
  MaxCalls,     \* bound: calls in a behaviour
  MaxTime       \* bound: days in a behaviour

ASSUME LlmAssumption == Ttl \in Nat

VARIABLES
  llmCache,     \* llm_cache: the row of a prompt, for the primary model
  today,        \* the clock
  asking,       \* what every call holds
  given,        \* history: answers returned to callers
  calls         \* history: calls that are left

llmVars == <<llmCache, today, asking, given, calls>>

NoCall == [at |-> "idle"]
NoEntry == [text |-> "none"]

LlmInit ==
  /\ llmCache = [q \in Prompts |-> NoEntry]
  /\ today = 0
  /\ asking = [c \in Callers |-> NoCall]
  /\ given = {}
  /\ calls = MaxCalls

Asking(c, what) == asking' = [asking EXCEPT ![c] = what]

\* The call returns an answer that `by' gave on `day'.
Give(c, text, by, day) ==
  /\ given' = given \cup {[prompt |-> asking[c].prompt, text |-> text, by |-> by,
                           chat |-> asking[c].chat, day |-> day, returned |-> today]}
  /\ Asking(c, NoCall)

\* complete or chat.  A chat goes past the cache.
Call(c, prompt, chat) ==
  /\ asking[c] = NoCall /\ calls > 0
  /\ calls' = calls - 1
  /\ Asking(c, [at |-> IF chat THEN "ask" ELSE "look", prompt |-> prompt, chat |-> chat,
                model |-> 1, attempt |-> 0])
  /\ UNCHANGED <<llmCache, today, given>>

Attempt(c, model, attempt) ==
  Asking(c, [at |-> "ask", prompt |-> asking[c].prompt, chat |-> asking[c].chat,
             model |-> model, attempt |-> attempt])

\* FallbackProvider: the next model, or all failed.
NextModel(c) ==
  IF asking[c].model = Len(Models) THEN Asking(c, NoCall)
  ELSE Attempt(c, asking[c].model + 1, 0)

\* CachedLlmProvider::complete: a row that has not expired answers; a cache
\* that cannot be read fails the primary.
LookUp(c, readable) ==
  LET row == llmCache[asking[c].prompt]
  IN /\ asking[c].at = "look"
     /\ IF ~readable THEN NextModel(c) /\ UNCHANGED given
        ELSE IF row # NoEntry /\ row.expires > today
        THEN Give(c, row.text, row.by, row.day)
        ELSE Asking(c, [asking[c] EXCEPT !.at = "ask"]) /\ UNCHANGED given
     /\ UNCHANGED <<llmCache, today, calls>>

Provider(c) == Models[asking[c].model].provider
\* What comes over the wire, and what each provider makes of it.  What an error
\* says decides whether it is tried again: a limit and a broken connection
\* always are; whatever else quotes the service may or may not be, and not every
\* status of a failing server is known.
Wires == {"text", "no text", "garbled", "events", "limit", "refused", "failing",
          "unreachable", "no token"}

Unclear == {"transient", "fatal"}

\* Whoever asks for one document reads no events.
Document(wire) ==
  CASE wire = "text" -> {"whole"}
    [] wire = "no text" -> {"empty"}
    [] wire \in {"garbled", "events"} -> Unclear
    [] wire \in {"refused", "failing"} -> Unclear
    [] OTHER -> {"transient"}

\* OpenAI and what is compatible: a failing server is asked again for a stream,
\* and so is one that cannot be reached or is late; events are read whatever was
\* asked for.
OpenAiReaction(wire) ==
  CASE wire \in {"events", "failing"} -> {"stream"}
    [] wire = "unreachable" -> {"stream", "transient"}
    [] wire = "no token" -> {}
    [] OTHER -> Document(wire)

AnthropicReaction(wire) ==
  CASE wire \in {"events", "failing"} -> {"stream"}
    [] wire = "unreachable" -> {"stream", "transient"}
    [] wire = "no token" -> {}
    [] OTHER -> Document(wire)

\* Gemini: the token may be missing.  A completion looks at the status.
GeminiReaction(wire) == IF wire = "no token" THEN Unclear ELSE Document(wire)

\* A chat does not: an error has no text in it and counts as an empty answer.
GeminiChatReaction(wire) ==
  IF wire \in {"limit", "refused", "failing"} THEN {"empty"} ELSE GeminiReaction(wire)

\* Ollama does not look at the status at all.
OllamaReaction(wire) ==
  CASE wire \in {"limit", "refused", "failing"} -> {"empty"}
    [] wire = "no token" -> {}
    [] OTHER -> Document(wire)

\* Copilot exchanges a token of GitHub for one of its own first.
CopilotReaction(wire) == IF wire = "no token" THEN Unclear ELSE Document(wire)

Reaction(provider, chat, wire) ==
  CASE provider = "openai" -> OpenAiReaction(wire)
    [] provider = "anthropic" -> AnthropicReaction(wire)
    [] provider = "gemini" -> IF chat THEN GeminiChatReaction(wire) ELSE GeminiReaction(wire)
    [] provider = "copilot" -> CopilotReaction(wire)
    [] OTHER -> OllamaReaction(wire)

Retries(model) == IF model = 1 THEN MaxRetries ELSE MaxRetries - 1

\* RetryingProvider: once more, or the error is final and the next model's turn.
Fail(c, error) ==
  IF error = "transient" /\ asking[c].attempt < Retries(asking[c].model)
  THEN Attempt(c, asking[c].model, asking[c].attempt + 1)
  ELSE NextModel(c)

\* Seeded fault: the cache is around the whole chain.
AnswerCachedOutside(c, text, stored) ==
  LET by == Models[asking[c].model].name
  IN /\ llmCache' = IF stored /\ ~asking[c].chat
                    THEN [llmCache EXCEPT ![asking[c].prompt] =
                            [text |-> text, by |-> by, day |-> today, expires |-> today + Ttl]]
                    ELSE llmCache
     /\ Give(c, text, by, today)

\* What the primary answered to a completion is cached, an empty answer and
\* half of a stream too; a cache that cannot be written is ignored.
Answer(c, text, stored) ==
  LET by == Models[asking[c].model].name
  IN /\ llmCache' = IF stored /\ asking[c].model = 1 /\ ~asking[c].chat
                    THEN [llmCache EXCEPT ![asking[c].prompt] =
                            [text |-> text, by |-> by, day |-> today, expires |-> today + Ttl]]
                    ELSE llmCache
     /\ Give(c, text, by, today)

\* One request to the service.
Request(c, wire, stored) ==
  /\ asking[c].at = "ask"
  /\ \E r \in Reaction(Provider(c), asking[c].chat, wire) :
       \/ r \in {"whole", "empty"} /\ Answer(c, r, stored)
       \/ r = "stream" /\ Asking(c, [asking[c] EXCEPT !.at = "stream"])
            /\ UNCHANGED <<llmCache, given>>
       \/ r \in {"transient", "fatal"} /\ Fail(c, r) /\ UNCHANGED <<llmCache, given>>
  /\ UNCHANGED <<today, calls>>

\* The request as a stream.  A stream that ends early is an answer.
Stream(c, text, stored) ==
  /\ asking[c].at = "stream"
  /\ \/ Answer(c, text, stored)
     \/ \E error \in {"transient", "fatal"} : Fail(c, error) /\ UNCHANGED <<llmCache, given>>
  /\ UNCHANGED <<today, calls>>

\* `cache-clear' and prune_expired.
ClearCache ==
  /\ llmCache' = [q \in Prompts |-> NoEntry]
  /\ UNCHANGED <<today, asking, given, calls>>

PruneExpired ==
  /\ llmCache' = [q \in Prompts |->
       IF llmCache[q] # NoEntry /\ llmCache[q].expires <= today THEN NoEntry ELSE llmCache[q]]
  /\ UNCHANGED <<today, asking, given, calls>>

NextDay == today < MaxTime /\ today' = today + 1 /\ UNCHANGED <<llmCache, asking, given, calls>>

LlmNext ==
  \/ \E c \in Callers :
       \/ \E q \in Prompts, chat \in BOOLEAN : Call(c, q, chat)
       \/ \E readable \in BOOLEAN : LookUp(c, readable)
       \/ \E wire \in Wires, stored \in BOOLEAN : Request(c, wire, stored)
       \/ \E text \in {"whole", "partial", "empty"}, stored \in BOOLEAN : Stream(c, text, stored)
  \/ ClearCache \/ PruneExpired \/ NextDay

LlmSpec == LlmInit /\ [][LlmNext]_llmVars

\* An answer from an earlier day is one the primary model itself gave, to a
\* completion, no longer ago than the cache keeps it: the answer of a fallback
\* is never passed off as the primary's, whatever failed and however callers
\* overlap (create_llm_provider_with_config wraps the cache inside the chain).
CachedAnswersArePrimarys ==
  \A a \in given : a.day < a.returned =>
    a.by = Models[1].name /\ ~a.chat /\ a.returned - a.day < Ttl
=============================================================================
