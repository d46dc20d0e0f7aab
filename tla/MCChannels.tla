----------------------------- MODULE MCChannels -----------------------------
(***************************************************************************)
(* The connections to the outside: the widget's event stream               *)
(* (EventStream), the Telegram webhook (Telegram) and the language model's *)
(* provider (ProviderCall).  A behaviour is one of one of them, chosen by  *)
(* subject, with the fairness of its module.                               *)
(***************************************************************************)
EXTENDS EventStream

VARIABLES
  subject,
  worker, rows, customers, claimed, handled, turns, acked, failures, cut,
  at, clock, ctx, attempt, result, usage, incomplete, unknown, until, answer,
  unseen, refusal, earliest

telegramVars == <<worker, rows, customers, claimed, handled, turns, acked, failures, cut>>
providerVars == <<at, clock, ctx, attempt, result, usage, incomplete, unknown, until, answer,
                  unseen, refusal, earliest>>
all == <<subject, vars, telegramVars, providerVars>>

\* Two first messages of a chat, delivered by two requests at a time.
Messages == {"u1", "u2"}
Handlers == {"h1", "h2"}

telegram == INSTANCE Telegram WITH
  Updates <- Messages, Chat <- [u \in Messages |-> "c"], Workers <- Handlers, MaxFailures <- 2

\* Three attempts; headers within the backoff's reach, beyond it, and past the
\* deadline.
provider == INSTANCE ProviderCall WITH
  maxAttempts <- 3, retryBaseDelay <- 2, retryMaxDelay <- 3, timeout <- 5,
  RetryAfters <- {0, 3, 7}, MaxClock <- 6, pc <- at

ASSUME ChannelsAssumption == provider!ProviderAssumption

-----------------------------------------------------------------------------
ChannelsInit ==
  subject \in {"stream", "telegram", "provider"} /\ Init /\ telegram!Init /\ provider!Init

Stream(A) == subject = "stream" /\ A /\ UNCHANGED <<subject, telegramVars, providerVars>>
Webhook(A) == subject = "telegram" /\ A /\ UNCHANGED <<subject, vars, providerVars>>
Provider(A) == subject = "provider" /\ A /\ UNCHANGED <<subject, vars, telegramVars>>

ChannelsNext == Stream(Next) \/ Webhook(telegram!Next) \/ Provider(provider!Next)

Fairness ==
  /\ WF_all(Stream(Poll)) /\ WF_all(Stream(WriteFrame))
  /\ WF_all(Stream(CloseDead)) /\ WF_all(Stream(Reconnect))
  /\ \A u \in Messages : SF_all(Webhook(\E h \in Handlers : telegram!Deliver(h, u)))
  /\ \A h \in Handlers : WF_all(Webhook(telegram!Handle(h)))

ChannelsSpec == ChannelsInit /\ [][ChannelsNext]_all /\ Fairness

-----------------------------------------------------------------------------
\* Every update Telegram delivers is taken once: a redelivery runs no second
\* turn, concurrent first messages of a chat share one conversation, and an
\* update that is not delivered again has its turn, unless its worker died
\* between the claim and the turn (Telegram).
UpdatesTakenOnce ==
  /\ telegram!AtMostOneTurn
  /\ telegram!OneConversationPerChat
  /\ telegram!NoUpdateDropped

\* Every update is acknowledged in the end (Telegram).
UpdatesAcknowledged == subject = "telegram" => telegram!UpdatesAcknowledged

\* Through all retries of a model call billed attempts are in the usage or
\* admitted to be unknown, a status that no retry can change ends the call,
\* and no attempt is made earlier than the provider asked (ProviderCall).
RetriesAreSound ==
  /\ provider!MissingSpendIsAdmitted
  /\ provider!RefusalsAreFinal
  /\ provider!RetryAfterIsHonoured
=============================================================================
