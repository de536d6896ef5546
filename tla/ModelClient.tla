----------------------------- MODULE ModelClient -----------------------------
(***************************************************************************)
(* ModelClient of code_operator/client.py: one chat completion with its    *)
(* retries, and what is accepted as an answer.  Time is counted in half    *)
(* seconds.  An answer may get lost after the provider has done its work.  *)
(***************************************************************************)
EXTENDS Integers, Sequences

CONSTANTS
  MaxRetries,    \* MAX_RETRIES
  MaxWait,       \* MAX_RETRY_WAIT_SECONDS, in half seconds
  RetryAfters,   \* bound: Retry-After headers: whether a number, and which
  Jitters,       \* what the jitter callback may return
  Bodies         \* bound: the bodies of answers

ASSUME ClientLimits ==
  /\ {MaxRetries, MaxWait} \subseteq Nat
  /\ RetryAfters \subseteq [number : BOOLEAN, wait : Int]
  /\ Jitters \subseteq Int

ASSUME CallsAreLists ==
  \A body \in Bodies : Len(body.calls) \in Nat /\ (Len(body.calls) = 0 => body.calls = <<>>)

VARIABLES
  post,      \* where complete stands: idle, posting, waiting, or its outcome
  attempt,   \* the attempt of _post_with_retries
  answer,    \* the accepted body, once there is one
  carried,   \* history: requests of this call that the provider worked on
  waited     \* history: the half seconds slept so far

clientVars == <<post, attempt, answer, carried, waited>>

NoBody == [json |-> FALSE]

NoHeader == [number |-> FALSE, wait |-> 0]

Larger(a, b) == IF a > b THEN a ELSE b
Smaller(a, b) == IF a < b THEN a ELSE b

(* Bug: a header is obeyed whatever it says *)
Delay_Unbounded(failed, header, jitter) ==
  (IF header.number THEN Larger(0, header.wait) ELSE 2 ^ failed) + Larger(0, jitter)

(* _wait_before_retry; a header that is no number counts as none, "nan" as 0 *)
Delay(failed, header, jitter) ==
  LET base == IF header.number THEN Larger(0, header.wait) ELSE 2 ^ failed
  IN  Smaller(MaxWait, base + Larger(0, jitter))

-----------------------------------------------------------------------------
(* parse_assistant_turn.  The content and the finish reason of a body stand *)
(* for what they are in it: "bad" is neither a string nor null, and "other" *)
(* a finish reason the program does not know.                               *)

WellFormed(calls, k) ==
  /\ calls[k].object /\ calls[k].type = "function" /\ calls[k].function
  /\ calls[k].id # "" /\ \A j \in 1..k - 1 : calls[j].id # calls[k].id
  /\ calls[k].name # ""
  /\ calls[k].arguments.text

Accepted(body) ==
  /\ body.json
  /\ body.choices = 1 /\ body.role = "assistant"
  /\ body.content \in {"text", "blank", "null"}
  /\ \A k \in DOMAIN body.calls : WellFormed(body.calls, k)
  /\ body.finish # "bad"

-----------------------------------------------------------------------------
ClientInit ==
  post = "idle" /\ attempt = 0 /\ answer = NoBody /\ carried = 0 /\ waited = 0

Complete ==
  /\ post = "idle"
  /\ post' = "posting"
  /\ UNCHANGED <<attempt, answer, carried, waited>>

(* Another attempt after a wait, or the error of the last one *)
RetryOrFail(retryable, header) ==
  IF retryable /\ attempt < MaxRetries
  THEN /\ post' = "waiting"
       /\ \E jitter \in Jitters : waited' = waited + Delay(attempt, header, jitter)
  ELSE post' = "PROVIDER_ERROR" /\ UNCHANGED waited

(* TransportError or a timeout, before or after the provider did its work *)
LoseAnswer ==
  /\ post = "posting"
  /\ carried' \in {carried, carried + 1}
  /\ RetryOrFail(TRUE, NoHeader)
  /\ UNCHANGED <<attempt, answer>>

(* 429 and 5xx are tried again, any other status is not *)
RefuseRequest ==
  /\ post = "posting"
  /\ carried' \in {carried, carried + 1}
  /\ \E header \in RetryAfters \cup {NoHeader}, retryable \in BOOLEAN :
       RetryOrFail(retryable, header)
  /\ UNCHANGED <<attempt, answer>>

Deliver ==
  /\ post = "posting"
  /\ carried' = carried + 1
  /\ \E body \in Bodies \cup {NoBody} :
       IF Accepted(body)
       THEN post' = "turn" /\ answer' = body
       ELSE post' = "PROVIDER_PROTOCOL_ERROR" /\ UNCHANGED answer
  /\ UNCHANGED <<attempt, waited>>

(* Bug: the attempts are not counted *)
WakeUp_Uncounted ==
  /\ post = "waiting"
  /\ post' = "posting"
  /\ UNCHANGED <<attempt, answer, carried, waited>>

WakeUp ==
  /\ post = "waiting"
  /\ attempt' = attempt + 1
  /\ post' = "posting"
  /\ UNCHANGED <<answer, carried, waited>>

ClientStep == LoseAnswer \/ RefuseRequest \/ Deliver \/ WakeUp

(* The caller has taken the outcome *)
ForgetCall ==
  post' = "idle" /\ attempt' = 0 /\ answer' = NoBody /\ carried' = 0 /\ waited' = 0

ClientNext == Complete \/ ClientStep \/ (post \notin {"idle", "posting", "waiting"} /\ ForgetCall)

ClientSpec == ClientInit /\ [][ClientNext]_clientVars /\ WF_clientVars(ClientStep)

-----------------------------------------------------------------------------
ClientTypeOK ==
  /\ post \in {"idle", "posting", "waiting", "turn",
               "PROVIDER_ERROR", "PROVIDER_PROTOCOL_ERROR"}
  /\ attempt \in 0..MaxRetries
  /\ answer \in Bodies \cup {NoBody}
  /\ carried \in Nat /\ waited \in Int

(* However answers get lost and whatever Retry-After says, one completion is  *)
(* worked on (and billed) at most MaxRetries + 1 times and sleeps no longer   *)
(* than MaxRetries waits.                                                     *)
RetryCostBounded ==
  /\ carried <= MaxRetries + 1
  /\ waited <= MaxRetries * MaxWait

(* complete returns or raises: neither lost answers nor refusals keep it     *)
(* going for ever (every post ends by its timeouts).                         *)
CompleteReturns == post \in {"posting", "waiting"} ~> post \notin {"posting", "waiting"}
=============================================================================
