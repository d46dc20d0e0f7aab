-------------------------- MODULE ProviderCall --------------------------
(* One call of the language model through the provider adapter             *)
(* (internal/llm/openrouter.go): attempts, retries, backoff, the deadline  *)
(* over all of them, and the usage the caller is told.                     *)
(*                                                                         *)
(* A reply is what the provider puts on the wire.  Usage counts tokens,    *)
(* one for an attempt that reports any.  The provider may bill an attempt  *)
(* whose reply is lost, unreadable or reports nothing.                     *)
EXTENDS Integers

CONSTANTS
    maxAttempts,
    retryBaseDelay, retryMaxDelay,  \* backoff, in ticks
    timeout,                        \* over all attempts
    RetryAfters,                    \* values of the Retry-After header, 0 for none
    MaxClock                        \* bound on the clock

\* What the constructor's defaults and the configuration guarantee.
ProviderAssumption ==
    /\ maxAttempts \in 1..10
    /\ retryBaseDelay \in Nat /\ retryMaxDelay \in Nat /\ retryBaseDelay <= retryMaxDelay
    /\ timeout \in Nat \ {0} /\ timeout <= MaxClock /\ MaxClock \in Nat
    /\ RetryAfters \subseteq Nat

VARIABLES
    pc,             \* "encode", "send", "reply", "judge", "wait", "done"
    clock,
    ctx,            \* "live", "expired" or "cancelled"
    attempt,        \* attempts begun
    result,         \* what completeAttempt returned last
    usage,          \* totalUsage
    incomplete,     \* usageIncomplete
    unknown,        \* unknownAttempts
    until,          \* when the retry timer fires
    answer,         \* "none", "ok" or "error"
    \* history
    unseen,         \* failed attempts that were billed and are not in usage
    refusal,        \* the last reply named a status that no retry can change
    earliest        \* the provider asked for no attempt before this time

vars == <<pc, clock, ctx, attempt, result, usage, incomplete, unknown, until, answer,
          unseen, refusal, earliest>>

Transient == {408, 429, 500, 502, 503, 504}

\* error: where the body puts an error; code: the numeric code inside it, 0 for none.
Replies == [http : {200, 400, 429}, decodes : BOOLEAN, error : {"none", "top", "choice", "finish"},
            code : {0, 400, 503}, message : {"good", "bad", "absent"},
            usage : {0, 1}, retryAfter : RetryAfters]

Failure(kind) == [kind |-> kind, status |-> 0, usage |-> 0, retryAfter |-> 0]

Init ==
    /\ pc = "encode" /\ clock = 0 /\ ctx = "live" /\ attempt = 1
    /\ result = Failure("none")
    /\ usage = 0 /\ incomplete = FALSE /\ unknown = 0
    /\ until = 0 /\ answer = "none"
    /\ unseen = 0 /\ refusal = FALSE /\ earliest = 0

-----------------------------------------------------------------------------
embeddedOpenRouterStatus_None(reply) == reply.http

\* An error code inside a successful response takes the place of its status.
embeddedOpenRouterStatus(reply) ==
    IF reply.http = 200 /\ reply.error \in {"top", "choice"} /\ reply.code # 0
    THEN reply.code ELSE reply.http

newOpenRouterError(reply, reported) ==
    [kind |-> "provider", status |-> embeddedOpenRouterStatus(reply), usage |-> reported,
     retryAfter |-> reply.retryAfter]

\* What the adapter makes of a reply; a good message ends the call.
completeAttempt(reply) ==
    CASE reply.http # 200 ->
            newOpenRouterError(reply, IF reply.decodes THEN reply.usage ELSE 0)
      [] reply.http = 200 /\ ~reply.decodes -> Failure("permanent")
      [] reply.http = 200 /\ reply.decodes /\ reply.error \in {"top", "choice"} ->
            newOpenRouterError(reply, reply.usage)
      [] reply.http = 200 /\ reply.decodes /\ reply.error = "finish" ->
            [kind |-> "provider", status |-> 200, usage |-> reply.usage, retryAfter |-> 0]
      [] reply.http = 200 /\ reply.decodes /\ reply.error = "none" ->
            IF reply.message = "good"
            THEN [kind |-> "none", status |-> 200, usage |-> reply.usage, retryAfter |-> 0]
            ELSE Failure("permanent")

\* The status a reader of the wire would act on.
Refuses(reply) ==
    LET status == IF reply.http = 200 /\ reply.decodes /\ reply.error \in {"top", "choice"}
                     /\ reply.code # 0 THEN reply.code ELSE reply.http
    IN  status # 200 /\ status \notin Transient

addProviderUsage(r) == usage + r.usage

Tally_NotSticky(r) ==
    /\ usage' = addProviderUsage(r)
    /\ incomplete' = (r.kind # "none" /\ r.usage = 0)
    /\ unknown' = IF r.kind # "none" /\ r.usage = 0 THEN 1 ELSE 0

\* The bookkeeping after each attempt.
Tally(r) ==
    /\ usage' = addProviderUsage(r)
    /\ incomplete' = (incomplete \/ (r.kind # "none" /\ r.usage = 0))
    /\ unknown' = IF r.kind # "none" /\ r.usage = 0 THEN unknown + 1 ELSE unknown

Ends(r, billed) ==
    /\ result' = r
    /\ Tally(r)
    /\ unseen' = IF r.kind # "none" /\ billed > r.usage THEN unseen + 1 ELSE unseen
    /\ pc' = "judge"

-----------------------------------------------------------------------------
\* A request with a bad tool choice, message or schema is never sent.
toOpenRouterRequest ==
    /\ pc = "encode"
    /\ \/ pc' = "send" /\ UNCHANGED answer
       \/ pc' = "done" /\ answer' = "error"
    /\ UNCHANGED <<clock, ctx, attempt, result, usage, incomplete, unknown, until,
                   unseen, refusal, earliest>>

\* The request leaves, unless the context has already ended.
Send ==
    /\ pc = "send"
    /\ IF ctx = "live"
       THEN /\ pc' = "reply"
            /\ UNCHANGED <<result, usage, incomplete, unknown, unseen>>
       ELSE Ends(Failure(ctx), 0)
    /\ UNCHANGED <<clock, ctx, attempt, until, answer, refusal, earliest>>

Reply ==
    /\ pc = "reply" /\ ctx = "live"
    /\ \E reply \in Replies : \E billed \in {reply.usage, 1} :
        /\ Ends(completeAttempt(reply), billed)
        /\ refusal' = Refuses(reply)
        /\ earliest' = IF reply.http # 200 THEN clock + reply.retryAfter ELSE clock
    /\ UNCHANGED <<clock, ctx, attempt, until, answer>>

\* The connection breaks, before or after the provider did the work.
Lost ==
    /\ pc = "reply"
    /\ \E kind \in {"transient", "permanent"}, billed \in {0, 1} :
        Ends(Failure(IF ctx = "live" THEN kind ELSE ctx), billed)
    /\ refusal' = FALSE /\ earliest' = clock
    /\ UNCHANGED <<clock, ctx, attempt, until, answer>>

isTransientTransportError(r) == r.kind \in {"transient", "expired"}

shouldRetryOpenRouter(r) ==
    /\ ctx = "live" /\ r.kind # "cancelled"
    /\ \/ r.kind = "provider" /\ r.status \in Transient \cup {200}
       \/ isTransientTransportError(r)

-----------------------------------------------------------------------------
Doubled[n \in Nat] ==
    IF n = 0 THEN retryBaseDelay
    ELSE IF Doubled[n - 1] >= retryMaxDelay THEN Doubled[n - 1]
    ELSE IF Doubled[n - 1] > retryMaxDelay \div 2 THEN retryMaxDelay
    ELSE 2 * Doubled[n - 1]

\* Doubling steps after the first failure, stopped at the cap.
Backoff(failed) == Doubled[failed - 1]

Delay_NoHeader(half, jitter, asked) == half + jitter

\* Half of the backoff is certain, the rest is jitter; a longer Retry-After wins.
Delay(half, jitter, asked) == IF asked > half + jitter THEN asked ELSE half + jitter

retryDelay(failed, asked) ==
    LET half == Backoff(failed) \div 2
    IN  {Delay(half, jitter, asked) : jitter \in 0..(Backoff(failed) - half)}

Complete ==
    /\ pc = "judge"
    /\ \/ /\ result.kind = "none"
          /\ pc' = "done" /\ answer' = "ok" /\ UNCHANGED until
       \/ /\ result.kind # "none"
          /\ attempt = maxAttempts \/ ~shouldRetryOpenRouter(result)
          /\ pc' = "done" /\ answer' = "error" /\ UNCHANGED until
       \/ /\ result.kind # "none"
          /\ attempt < maxAttempts /\ shouldRetryOpenRouter(result)
          /\ \E d \in retryDelay(attempt, result.retryAfter) : until' = clock + d
          /\ pc' = "wait" /\ UNCHANGED answer
    /\ UNCHANGED <<clock, ctx, attempt, result, usage, incomplete, unknown,
                   unseen, refusal, earliest>>

\* When the timer and the context are both ready, select takes either.
waitForRetry ==
    /\ pc = "wait"
    /\ \/ /\ clock >= until
          /\ pc' = "send" /\ attempt' = attempt + 1 /\ UNCHANGED answer
       \/ /\ ctx # "live"
          /\ pc' = "done" /\ answer' = "error" /\ UNCHANGED attempt
    /\ UNCHANGED <<clock, ctx, result, usage, incomplete, unknown, until,
                   unseen, refusal, earliest>>

\* The clock, and the deadline that goes with it.
Tick ==
    /\ pc \notin {"encode", "done"} /\ clock < MaxClock
    /\ clock' = clock + 1
    /\ ctx' = IF ctx = "live" /\ clock + 1 >= timeout THEN "expired" ELSE ctx
    /\ UNCHANGED <<pc, attempt, result, usage, incomplete, unknown, until, answer,
                   unseen, refusal, earliest>>

\* The turn's own context ends.
Cancelled ==
    /\ pc # "done" /\ ctx = "live" /\ ctx' = "cancelled"
    /\ UNCHANGED <<pc, clock, attempt, result, usage, incomplete, unknown, until, answer,
                   unseen, refusal, earliest>>

Step == toOpenRouterRequest \/ Send \/ Lost \/ Complete \/ waitForRetry

Next == Step \/ Reply \/ Tick \/ Cancelled

Spec == Init /\ [][Next]_vars

-----------------------------------------------------------------------------
(* Whatever the caller is told, the usage it is given plus the attempts it *)
(* is told are unknown cover every failed attempt that was billed, over    *)
(* all retries (openrouter.go:297-309).                                    *)
MissingSpendIsAdmitted ==
    pc # "reply" => unseen <= unknown /\ (unknown > 0 <=> incomplete)

(* A status that no retry can change, in the response or inside a          *)
(* successful one, ends the call (openrouter.go:429-450, 653-662).         *)
RefusalsAreFinal == refusal => pc \in {"judge", "done"}

(* After an unsuccessful response with a Retry-After header the next       *)
(* attempt is never made earlier than it asks (openrouter.go:421-425).     *)
RetryAfterIsHonoured == pc = "send" => clock >= earliest
=============================================================================
