---------------------------- MODULE ProviderCall ----------------------------
(***************************************************************************)
(* One call of one language model provider (llm/callers.py,                *)
(* llm/claude_agent.py): the exchanges it makes, which of their failures   *)
(* it retries itself, and how the failure it ends in is categorised        *)
(* (llm/retry_category.py), which decides whether another provider is      *)
(* tried.  Pure definitions; Failover and ProviderRouter run them.         *)
(***************************************************************************)
EXTENDS Naturals

\* The caller classes: MiniMax with and without streaming, Kimi, DeepSeek,
\* GLM, and the agent SDK that runs a local command line.
Styles == {"stream", "post", "kimi", "deepseek", "glm", "agent"}

\* What one exchange comes to: a text; a 200 without one; status 429; another
\* status of the retryable set; such a status whose body says the plan or the
\* model is wrong for good; any other status; silence; no connection; or a
\* crash of the local process.
Exchanges == {"text", "empty", "throttled", "overloaded", "misfit", "refused",
              "silence", "unreachable", "crash"}

\* The one tell-tale the body of an error may hold for the categoriser.
Words == {"nothing", "limit", "outage", "size", "filter"}

\* The agent's process either crashes or answers; the others speak HTTP.
ExchangesOf(style) ==
    IF style = "agent" THEN {"text", "empty", "crash"}
                       ELSE Exchanges \ {"crash"}

RetryableStatus == {"throttled", "overloaded", "misfit"}

\* A 5xx is an outage whatever its body says, so of the retryable statuses
\* only the 429 is left to another provider.
RetrySameProvider(exchange) == exchange # "throttled"

\* MiniMax, reading a stream: a status other than 200 is raised past the
\* retries; an empty answer and a broken transport are retried once.
StreamRetries(exchange, n) ==
    n = 1 /\ exchange \in {"empty", "silence", "unreachable"}

\* MiniMax, one response: a retryable status as well, unless it is for good.
PostRetries(exchange, n) ==
    \/ StreamRetries(exchange, n)
    \/ n = 1 /\ exchange \in RetryableStatus \ {"misfit"} /\ RetrySameProvider(exchange)

KimiRetries(exchange, n) ==
    /\ n < 3
    /\ \/ exchange \in {"empty", "silence", "unreachable"}
       \/ exchange \in RetryableStatus /\ RetrySameProvider(exchange)

\* DeepSeek takes its second endpoint after any failure of the first.
DeepSeekRetries(exchange, n) == n = 1

\* Whether the caller goes on after its n-th exchange failed.
Retries(style, exchange, n) ==
    CASE style = "stream"   -> StreamRetries(exchange, n)
      [] style = "post"     -> PostRetries(exchange, n)
      [] style = "kimi"     -> KimiRetries(exchange, n)
      [] style = "deepseek" -> DeepSeekRetries(exchange, n)
      [] OTHER              -> FALSE

-----------------------------------------------------------------------------
(* The failure a call ends in is an exception: what the last exchange came *)
(* to, and the words its text holds.                                       *)

\* categorize_retry as FallbackCaller calls it: the exceptions of the callers
\* carry no response, so no status reaches it, and the text decides.
Category(exchange, words) ==
    IF exchange = "silence" THEN "timeout"
    ELSE CASE words = "limit"  -> "external_rate_limit"
           [] words = "outage" -> "provider_outage"
           [] words = "size"   -> "input_too_large"
           [] OTHER            -> "other"

RouteCategories ==
    {"external_rate_limit", "provider_outage", "timeout", "provider_blocked"}

\* Whether the fail-over chain treats the failure as this provider's own.
RoutesPast(exchange, words) ==
    \/ exchange = "crash"
    \/ words = "filter"
    \/ Category(exchange, words) \in RouteCategories
=============================================================================
