--------------------------- MODULE AuditedRunProofs ---------------------------
(***************************************************************************)
(* Theorems about AuditedRun, for any answers of a provider, any calls,    *)
(* limits and policy: what one completion may cost, and what the verdict   *)
(* read back from the log says of the run.                                 *)
(***************************************************************************)
EXTENDS AuditedRun, TLAPS

-----------------------------------------------------------------------------
(* The client *)

ClientInv ==
  /\ ClientTypeOK
  /\ post = "idle" => carried = 0 /\ waited = 0
  /\ post = "posting" => carried <= attempt /\ waited <= attempt * MaxWait
  /\ post = "waiting" =>
       attempt < MaxRetries /\ carried <= attempt + 1 /\ waited <= (attempt + 1) * MaxWait
  /\ post \notin {"idle", "posting", "waiting"} =>
       carried <= attempt + 1 /\ waited <= attempt * MaxWait
  /\ post = "turn" => answer \in Bodies

LEMMA ClientSizes == MaxRetries \in Nat /\ MaxWait \in Nat
  BY ClientLimits

LEMMA DelayBounded ==
  ASSUME NEW failed \in Nat, NEW header \in RetryAfters \cup {NoHeader}, NEW jitter \in Jitters
  PROVE  Delay(failed, header, jitter) \in Int /\ Delay(failed, header, jitter) <= MaxWait
  <1>1. header.wait \in Int /\ jitter \in Int
    BY ClientLimits DEF NoHeader
  <1>2. 2 ^ failed \in Int
    OBVIOUS
  <1> DEFINE base == IF header.number THEN Larger(0, header.wait) ELSE 2 ^ failed
  <1>3. base \in Int /\ Larger(0, jitter) \in Int
    BY <1>1, <1>2 DEF Larger
  <1> HIDE DEF base
  <1>4. base + Larger(0, jitter) \in Int
    BY <1>3
  <1>5. Delay(failed, header, jitter) = Smaller(MaxWait, base + Larger(0, jitter))
    BY DEF Delay, base
  <1> QED BY <1>4, <1>5, ClientSizes DEF Smaller

LEMMA Products ==
  ASSUME NEW a \in Nat, NEW b \in Nat, NEW w \in Nat, a <= b
  PROVE  (a + 1) * w = a * w + w /\ a * w <= b * w /\ a * w \in Nat
  OBVIOUS

LEMMA RetryOrFailKeeps ==
  ASSUME ClientInv, post = "posting", carried' \in {carried, carried + 1},
         NEW retryable \in BOOLEAN, NEW header \in RetryAfters \cup {NoHeader},
         RetryOrFail(retryable, header), UNCHANGED <<attempt, answer>>
  PROVE  ClientInv'
  <1>t. /\ attempt \in 0..MaxRetries /\ carried \in Nat /\ waited \in Int
        /\ carried <= attempt /\ waited <= attempt * MaxWait
        /\ answer \in Bodies \cup {NoBody} /\ attempt * MaxWait \in Nat
    BY ClientSizes, Products DEF ClientInv, ClientTypeOK
  <1>1. CASE retryable /\ attempt < MaxRetries
    <2>1. PICK jitter \in Jitters : waited' = waited + Delay(attempt, header, jitter)
      BY <1>1 DEF RetryOrFail
    <2>2. waited' \in Int /\ waited' <= waited + MaxWait
      BY <1>t, <2>1, DelayBounded, ClientSizes
    <2>3. (attempt + 1) * MaxWait = attempt * MaxWait + MaxWait
      BY <1>t, ClientSizes, Products
    <2>4. waited' <= (attempt + 1) * MaxWait
      BY <1>t, <2>2, <2>3, ClientSizes
    <2>5. post' = "waiting" /\ attempt' = attempt /\ answer' = answer
      BY <1>1 DEF RetryOrFail
    <2>6. carried' \in Nat /\ carried' <= attempt + 1
      BY <1>t
    <2> QED BY <1>1, <1>t, <2>2, <2>4, <2>5, <2>6 DEF ClientInv, ClientTypeOK
  <1>2. CASE ~(retryable /\ attempt < MaxRetries)
    <2>1. post' = "PROVIDER_ERROR" /\ waited' = waited /\ attempt' = attempt /\ answer' = answer
      BY <1>2 DEF RetryOrFail
    <2>2. carried' \in Nat /\ carried' <= attempt + 1
      BY <1>t
    <2> QED BY <1>t, <2>1, <2>2 DEF ClientInv, ClientTypeOK
  <1> QED BY <1>1, <1>2

LEMMA ClientKeeps ==
  ASSUME ClientInv, Complete \/ ClientStep \/ ForgetCall \/ UNCHANGED clientVars
  PROVE  ClientInv'
  <1>s. MaxRetries \in Nat /\ MaxWait \in Nat
    BY ClientSizes
  <1>1. CASE Complete
    BY <1>1, <1>s DEF Complete, ClientInv, ClientTypeOK
  <1>2. CASE LoseAnswer
    <2>1. NoHeader \in RetryAfters \cup {NoHeader}
      OBVIOUS
    <2> QED BY <1>2, <2>1, RetryOrFailKeeps DEF LoseAnswer
  <1>3. CASE RefuseRequest
    <2>1. PICK header \in RetryAfters \cup {NoHeader}, retryable \in BOOLEAN :
            RetryOrFail(retryable, header)
      BY <1>3 DEF RefuseRequest
    <2> QED BY <1>3, <2>1, RetryOrFailKeeps DEF RefuseRequest
  <1>4. CASE Deliver
    <2>1. PICK body \in Bodies \cup {NoBody} :
            IF Accepted(body) THEN post' = "turn" /\ answer' = body
            ELSE post' = "PROVIDER_PROTOCOL_ERROR" /\ UNCHANGED answer
      BY <1>4 DEF Deliver
    <2>2. \/ post' = "turn" /\ answer' \in Bodies
          \/ post' = "PROVIDER_PROTOCOL_ERROR" /\ answer' = answer
      <3>1. CASE Accepted(body)
        <4>1. body # NoBody BY <3>1 DEF Accepted, NoBody
        <4> QED BY <2>1, <3>1, <4>1
      <3>2. CASE ~Accepted(body)
        BY <2>1, <3>2
      <3> QED BY <3>1, <3>2
    <2>3. /\ post = "posting" /\ carried' = carried + 1 /\ UNCHANGED <<attempt, waited>>
      BY <1>4 DEF Deliver
    <2>4. carried \in Nat /\ attempt \in 0..MaxRetries /\ carried <= attempt
      BY <2>3 DEF ClientInv, ClientTypeOK
    <2>5. carried' \in Nat /\ carried' <= attempt' + 1
      BY <1>s, <2>3, <2>4
    <2> QED BY <2>2, <2>3, <2>5 DEF ClientInv, ClientTypeOK
  <1>5. CASE WakeUp
    BY <1>5, <1>s DEF WakeUp, ClientInv, ClientTypeOK
  <1>6. CASE ForgetCall
    BY <1>6, <1>s DEF ForgetCall, ClientInv, ClientTypeOK
  <1>7. CASE UNCHANGED clientVars
    BY <1>7 DEF clientVars, ClientInv, ClientTypeOK
  <1> QED BY <1>1, <1>2, <1>3, <1>4, <1>5, <1>6, <1>7 DEF ClientStep

LEMMA ClientInitial == ClientInit => ClientInv
  BY ClientSizes DEF ClientInit, ClientInv, ClientTypeOK

LEMMA CostOfCall == ClientInv => RetryCostBounded
  <1> SUFFICES ASSUME ClientInv PROVE RetryCostBounded
    OBVIOUS
  <1>1. attempt \in 0..MaxRetries /\ carried \in Nat /\ waited \in Int
    BY DEF ClientInv, ClientTypeOK
  <1>2. 0 * MaxWait = 0 /\ attempt * MaxWait <= MaxRetries * MaxWait
        /\ (attempt < MaxRetries => (attempt + 1) * MaxWait <= MaxRetries * MaxWait)
        /\ attempt * MaxWait \in Nat /\ MaxRetries * MaxWait \in Nat
        /\ (attempt + 1) * MaxWait \in Nat
    BY <1>1, ClientSizes, Products
  <1>3. carried <= MaxRetries + 1
    BY <1>1, ClientSizes DEF ClientInv, ClientTypeOK
  <1>4. waited <= MaxRetries * MaxWait
    BY <1>1, <1>2, ClientSizes DEF ClientInv, ClientTypeOK
  <1> QED BY <1>3, <1>4 DEF RetryCostBounded

(* Whatever gets lost and whatever a provider asks for, a completion is       *)
(* worked on at most MaxRetries + 1 times and sleeps at most MaxRetries waits *)
THEOREM RetriesAreBounded == ClientSpec => []RetryCostBounded
  <1>1. ClientInv /\ [ClientNext]_clientVars => ClientInv'
    BY ClientKeeps DEF ClientNext
  <1> QED BY <1>1, ClientInitial, CostOfCall, PTL DEF ClientSpec

-----------------------------------------------------------------------------
(* The run *)

IsList(s) == \E S : s \in Seq(S)

LEMMA ListGrows ==
  ASSUME NEW s, IsList(s), NEW e
  PROVE  /\ IsList(Append(s, e)) /\ Len(s) \in Nat /\ Len(Append(s, e)) = Len(s) + 1
         /\ DOMAIN s = 1..Len(s) /\ DOMAIN Append(s, e) = 1..Len(s) + 1
         /\ \A k \in 1..Len(s) : Append(s, e)[k] = s[k]
         /\ Append(s, e)[Len(s) + 1] = e
  <1>1. PICK S : s \in Seq(S)
    BY DEF IsList
  <1>2. s \in Seq(S \cup {e})
    <2>1. s \in [1..Len(s) -> S] /\ Len(s) \in Nat BY <1>1
    <2>2. s \in [1..Len(s) -> S \cup {e}] BY <2>1
    <2> QED BY <2>1, <2>2
  <1>3. e \in S \cup {e}
    OBVIOUS
  <1>4. Append(s, e) \in Seq(S \cup {e})
    BY <1>2, <1>3
  <1>5. IsList(Append(s, e))
    BY <1>4 DEF IsList
  <1> QED BY <1>2, <1>3, <1>5

LEMMA NothingIsList == IsList(<<>>)
  <1>1. <<>> \in Seq({})
    OBVIOUS
  <1> QED BY <1>1 DEF IsList

(* A process that names pytest ran, according to the first n results *)
TestedSoFar(n) ==
  \A k \in 1..n :
    results[k].exit # "none" /\ NamesPytest(turn[k].arguments.argv) => tested

Statuses ==
  {"", "MODEL_ROUND_LIMIT", "CONTEXT_LIMIT", "TOOL_CALL_LIMIT", "REPEATED_CALL",
   "CONSECUTIVE_TOOL_FAILURES", "PROVIDER_ERROR", "PROVIDER_PROTOCOL_ERROR", "OUTPUT_TRUNCATED",
   "CONTENT_FILTERED", "EMPTY_RESPONSE", "COMPLETED"}

RunLines == {k \in DOMAIN log : log[k].event = "run"}

RunInv ==
  /\ ClientInv
  /\ agent \in {"off", "ask", "answer", "execute", "report", "gone"}
  /\ status \in Statuses /\ exit \in {0, 1} /\ tested \in BOOLEAN /\ spoilt \in BOOLEAN
  /\ agent = "execute" =>
       /\ IsList(results) /\ Len(turn) \in Nat /\ Len(results) <= Len(turn)
       /\ logged \in Nat /\ logged < Len(turn)
       /\ TestedSoFar(Len(results))
  /\ IsList(log)
  /\ \A k \in DOMAIN log :
       /\ log[k].pytest => tested
       /\ ~log[k].whole => spoilt
       /\ log[k].event = "run" => agent = "gone" /\ log[k].reason = status
  /\ verdict = NoVerdict /\ agent = "gone" /\ exit = 0 =>
       status = "COMPLETED" /\ (spoilt \/ RunLines # {})
  /\ VerdictIsTheRuns
  /\ ObservedTestsRan
  /\ agent # "gone" /\ agent # "off" => verdict = NoVerdict

LEMMA NoVerdictSaysNothing ==
  ASSUME verdict = NoVerdict
  PROVE  VerdictIsTheRuns /\ ObservedTestsRan
  BY DEF NoVerdict, VerdictIsTheRuns, ObservedTestsRan

LEMMA RunInitial == RunInit => RunInv
  <1> SUFFICES ASSUME RunInit PROVE RunInv
    OBVIOUS
  <1>1. ClientInv
    BY ClientInitial DEF RunInit
  <1>2. VerdictIsTheRuns /\ ObservedTestsRan
    BY NoVerdictSaysNothing DEF RunInit
  <1>3. IsList(log) /\ \A k \in DOMAIN log : FALSE
    <2>1. log = <<>> BY DEF RunInit
    <2> QED BY <2>1, NothingIsList
  <1> QED BY <1>1, <1>2, <1>3 DEF RunInit, RunInv, Statuses

(* A step of the loop between the calls *)
LEMMA BetweenCalls ==
  ASSUME RunInv, ClientInv', agent \notin {"off", "gone"}, agent' \in {"ask", "answer", "report"},
         status' \in Statuses, UNCHANGED <<exit, log, tested, spoilt, verdict>>
  PROVE  RunInv'
  <1>1. verdict' = NoVerdict
    BY DEF RunInv
  <1>2. VerdictIsTheRuns' /\ ObservedTestsRan'
    <2>1. verdict = NoVerdict
      BY <1>1
    <2>2. verdict.reason = "" /\ verdict.tests = FALSE
      BY <2>1 DEF NoVerdict
    <2> QED BY <2>2 DEF VerdictIsTheRuns, ObservedTestsRan
  <1> QED BY <1>1, <1>2 DEF RunInv

(* The process ends without a word *)
LEMMA EndedBadly ==
  ASSUME RunInv, ClientInv', agent \notin {"off", "gone"}, agent' = "gone", exit' = 1,
         UNCHANGED <<status, log, tested, spoilt, verdict>>
  PROVE  RunInv'
  <1>1. verdict' = NoVerdict
    BY DEF RunInv
  <1>2. VerdictIsTheRuns' /\ ObservedTestsRan'
    <2>1. verdict = NoVerdict
      BY <1>1
    <2>2. verdict.reason = "" /\ verdict.tests = FALSE
      BY <2>1 DEF NoVerdict
    <2> QED BY <2>2 DEF VerdictIsTheRuns, ObservedTestsRan
  <1> QED BY <1>1, <1>2 DEF RunInv

(* A call gets its result *)
LEMMA Answered ==
  ASSUME RunInv, Executing, NEW r, Answer(r), ClientInv',
         UNCHANGED <<agent, turn, logged, status, exit, log, spoilt, verdict>>,
         tested' \in BOOLEAN, tested => tested',
         r.exit # "none" /\ NamesPytest(Current.arguments.argv) => tested'
  PROVE  RunInv'
  <1>1. /\ agent = "execute" /\ Len(results) < Len(turn) /\ IsList(results)
        /\ results' = Append(results, r)
    BY DEF Executing, Answer, RunInv
  <1>2. /\ IsList(results') /\ Len(results) \in Nat /\ Len(results') = Len(results) + 1
        /\ \A k \in 1..Len(results) : results'[k] = results[k]
        /\ results'[Len(results) + 1] = r
    BY <1>1, ListGrows
  <1>3. TestedSoFar(Len(results))'
    <2> SUFFICES ASSUME NEW k \in 1..Len(results'), results'[k].exit # "none",
                        NamesPytest(turn[k].arguments.argv)
                 PROVE  tested'
      BY DEF TestedSoFar
    <2>1. CASE k = Len(results) + 1
      BY <1>2, <2>1 DEF Current
    <2>2. CASE k # Len(results) + 1
      <3>1. k \in 1..Len(results) BY <1>2, <2>2
      <3> QED BY <1>1, <1>2, <3>1 DEF RunInv, TestedSoFar
    <2> QED BY <2>1, <2>2
  <1>4. verdict' = NoVerdict
    BY <1>1 DEF RunInv
  <1>5. VerdictIsTheRuns' /\ ObservedTestsRan'
    <2>1. verdict = NoVerdict
      BY <1>4
    <2>2. verdict.reason = "" /\ verdict.tests = FALSE
      BY <2>1 DEF NoVerdict
    <2> QED BY <2>2 DEF VerdictIsTheRuns, ObservedTestsRan
  <1>6. Len(results') <= Len(turn) /\ Len(turn) \in Nat
    BY <1>1, <1>2 DEF RunInv
  <1>7. RunLines' = RunLines
    BY DEF RunLines
  <1> QED BY <1>1, <1>2, <1>3, <1>4, <1>5, <1>6, <1>7 DEF RunInv

(* What is in the log after a line is written, in full, in part or not at all *)
LEMMA Written ==
  ASSUME IsList(log), NEW line, Write(line)
  PROVE  /\ IsList(log')
         /\ \A k \in DOMAIN log' :
              \/ k \in DOMAIN log /\ log'[k] = log[k]
              \/ log'[k] = line /\ (~line.whole => spoilt')
              \/ log'[k] = Torn /\ spoilt'
         /\ spoilt => spoilt'
         /\ spoilt' \/ \E k \in DOMAIN log' : log'[k] = line
  <1>1. CASE log' = Append(log, line) /\ spoilt' = (spoilt \/ ~line.whole)
    <2>1. /\ IsList(log') /\ DOMAIN log = 1..Len(log) /\ DOMAIN log' = 1..Len(log) + 1
          /\ Len(log) \in Nat /\ log'[Len(log) + 1] = line
          /\ \A k \in 1..Len(log) : log'[k] = log[k]
      BY <1>1, ListGrows
    <2>2. \A k \in DOMAIN log' : k \in 1..Len(log) \/ k = Len(log) + 1
      BY <2>1
    <2>3. Len(log) + 1 \in DOMAIN log'
      BY <2>1
    <2> QED BY <1>1, <2>1, <2>2, <2>3
  <1>2. CASE log' = log /\ spoilt' = TRUE
    BY <1>2
  <1>3. CASE log' = Append(log, Torn) /\ spoilt' = TRUE
    <2>1. /\ IsList(log') /\ DOMAIN log = 1..Len(log) /\ DOMAIN log' = 1..Len(log) + 1
          /\ Len(log) \in Nat /\ log'[Len(log) + 1] = Torn
          /\ \A k \in 1..Len(log) : log'[k] = log[k]
      BY <1>3, ListGrows
    <2>2. \A k \in DOMAIN log' : k \in 1..Len(log) \/ k = Len(log) + 1
      BY <2>1
    <2> QED BY <1>3, <2>1, <2>2
  <1> QED BY <1>1, <1>2, <1>3 DEF Write

LEMMA RecordToolKeeps ==
  ASSUME RunInv, RecordTool
  PROVE  RunInv'
  <1> DEFINE n == logged + 1
             line == ToolLine(turn[n], results[n])
  <1>1. /\ agent = "execute" /\ Len(results) = Len(turn) /\ logged' = n /\ verdict = NoVerdict
        /\ UNCHANGED <<turn, results, rounds, handed, tested, verdict, clientVars>>
        /\ Len(turn) \in Nat /\ n \in 1..Len(results) /\ n \in Nat
        /\ \A k \in DOMAIN log : log[k].event # "run"
    BY DEF RecordTool, RunInv
  <1>2. NamesPytest(turn[n].arguments.argv) /\ results[n].exit # "none" => tested
    BY <1>1 DEF RunInv, TestedSoFar
  <1>3. /\ line.event = "tool" /\ (line.pytest => tested)
        /\ Torn.event = "torn" /\ ~Torn.pytest
    BY <1>2 DEF ToolLine, Torn
  <1>4. ClientInv'
    BY <1>1, ClientKeeps DEF RunInv
  <1>5. VerdictIsTheRuns' /\ ObservedTestsRan'
    <2>1. verdict.reason = "" /\ verdict.tests = FALSE
      BY <1>1 DEF NoVerdict
    <2> QED BY <1>1, <2>1 DEF VerdictIsTheRuns, ObservedTestsRan
  <1>6. CASE turn[n].arguments.huge
    <2>1. agent' = "gone" /\ exit' = 1 /\ spoilt' = TRUE /\ log' = log /\ status' = status
      BY <1>1, <1>6 DEF RecordTool
    <2> HIDE DEF n, line
    <2> QED BY <1>1, <1>4, <1>5, <2>1 DEF RunInv
  <1>7. CASE ~turn[n].arguments.huge
    <2>1. /\ Write(line) /\ exit' = exit
          /\ IF n = Len(turn) /\ LimitReached
             THEN StopRun("TOOL_CALL_LIMIT")
             ELSE agent' = (IF n = Len(turn) THEN "ask" ELSE agent) /\ status' = status
      BY <1>1, <1>7 DEF RecordTool
    <2>2. /\ agent' \in {"execute", "ask", "report"} /\ (agent' = "execute" => n # Len(turn))
          /\ status' \in Statuses
      <3>1. status \in Statuses BY DEF RunInv
      <3>2. "TOOL_CALL_LIMIT" \in Statuses BY DEF Statuses
      <3> QED BY <1>1, <2>1, <3>1, <3>2 DEF StopRun
    <2>3. IsList(log) BY DEF RunInv
    <2>4. \A k \in DOMAIN log : (log[k].pytest => tested) /\ (~log[k].whole => spoilt)
      BY DEF RunInv
    <2>5. /\ IsList(log') /\ spoilt' \in BOOLEAN /\ (spoilt => spoilt')
          /\ \A k \in DOMAIN log' :
               /\ log'[k].pytest => tested
               /\ ~log'[k].whole => spoilt'
               /\ log'[k].event # "run"
      <3> HIDE DEF line
      <3>1. spoilt' \in BOOLEAN
        <4>1. spoilt \in BOOLEAN BY DEF RunInv
        <4> QED BY <2>1, <4>1 DEF Write
      <3>2. /\ IsList(log') /\ (spoilt => spoilt')
            /\ \A k \in DOMAIN log' :
                 \/ k \in DOMAIN log /\ log'[k] = log[k]
                 \/ log'[k] = line /\ (~line.whole => spoilt')
                 \/ log'[k] = Torn /\ spoilt'
        BY <2>1, <2>3, Written
      <3> QED BY <1>1, <1>3, <2>4, <3>1, <3>2
    <2>6. agent' = "execute" =>
            /\ IsList(results') /\ Len(turn') \in Nat /\ Len(results') <= Len(turn')
            /\ logged' \in Nat /\ logged' < Len(turn') /\ TestedSoFar(Len(results))'
      BY <1>1, <2>2 DEF RunInv, TestedSoFar
    <2> HIDE DEF n, line
    <2> QED BY <1>1, <1>4, <1>5, <2>1, <2>2, <2>5, <2>6 DEF RunInv
  <1> QED BY <1>6, <1>7

LEMMA RecordRunKeeps ==
  ASSUME RunInv, RecordRun
  PROVE  RunInv'
  <1>1. /\ agent = "report" /\ agent' = "gone" /\ verdict = NoVerdict
        /\ exit' = (IF status = "COMPLETED" THEN 0 ELSE 1)
        /\ UNCHANGED <<turn, results, logged, rounds, status, handed, tested, verdict, clientVars>>
        /\ \A k \in DOMAIN log : log[k].event # "run"
    BY DEF RecordRun, RunInv
  <1>2. IsList(log) /\ Write(RunLine)
    BY DEF RunInv, RecordRun
  <1>3. /\ RunLine.event = "run" /\ RunLine.whole /\ ~RunLine.pytest /\ RunLine.reason = status
        /\ Torn.event = "torn" /\ ~Torn.pytest
    BY DEF RunLine, Torn
  <1>4. /\ IsList(log') /\ spoilt' \in BOOLEAN
        /\ \A k \in DOMAIN log' :
             /\ log'[k].pytest => tested
             /\ ~log'[k].whole => spoilt'
             /\ log'[k].event = "run" => log'[k].reason = status
        /\ spoilt' \/ RunLines' # {}
    <2>1. spoilt' \in BOOLEAN
      <3>1. spoilt \in BOOLEAN BY DEF RunInv
      <3>2. RunLine.whole \in BOOLEAN BY DEF RunLine
      <3> QED BY <1>2, <3>1, <3>2 DEF Write
    <2>2. /\ IsList(log') /\ (spoilt => spoilt')
          /\ \A k \in DOMAIN log' :
               \/ k \in DOMAIN log /\ log'[k] = log[k]
               \/ log'[k] = RunLine /\ (~RunLine.whole => spoilt')
               \/ log'[k] = Torn /\ spoilt'
          /\ spoilt' \/ \E k \in DOMAIN log' : log'[k] = RunLine
      BY <1>2, Written
    <2>3. \A k \in DOMAIN log : (log[k].pytest => tested) /\ (~log[k].whole => spoilt)
      BY DEF RunInv
    <2>4. spoilt' \/ RunLines' # {}
      BY <1>3, <2>2 DEF RunLines
    <2> QED BY <1>1, <1>3, <2>1, <2>2, <2>3, <2>4
  <1>5. VerdictIsTheRuns' /\ ObservedTestsRan'
    <2>1. verdict.reason = "" /\ verdict.tests = FALSE
      BY <1>1 DEF NoVerdict
    <2> QED BY <1>1, <2>1 DEF VerdictIsTheRuns, ObservedTestsRan
  <1>6. ClientInv'
    BY <1>1, ClientKeeps DEF RunInv
  <1> QED BY <1>1, <1>4, <1>5, <1>6 DEF RunInv

LEMMA ReadLogKeeps ==
  ASSUME RunInv, ReadLog
  PROVE  RunInv'
  <1>1. /\ agent = "gone" /\ verdict = NoVerdict /\ log' = <<>>
        /\ UNCHANGED <<agent, status, exit, tested, spoilt, clientVars>>
    BY DEF ReadLog
  <1>2. exit = 0 => status = "COMPLETED" /\ (spoilt \/ RunLines # {})
    BY <1>1 DEF RunInv
  <1>3. \A reason \in Stops : reason = status
    BY DEF Stops, RunInv
  <1>4. Stops = {} <=> RunLines = {}
    BY DEF Stops, RunLines
  <1>5. Parsed.tests => tested
    BY DEF Parsed, RunInv
  <1>6. \A reason \in Parsed.reasons :
          \/ reason = status
          \/ reason = "INVALID_OUTPUT" /\ (spoilt \/ RunLines = {})
    <2>1. CASE (\A k \in DOMAIN log : log[k].whole) /\ Stops # {}
      BY <1>3, <2>1 DEF Parsed
    <2>2. CASE ~((\A k \in DOMAIN log : log[k].whole) /\ Stops # {})
      <3>1. spoilt \/ RunLines = {}
        BY <1>4, <2>2 DEF RunInv
      <3>2. Parsed.reasons = {"INVALID_OUTPUT"}
        BY <2>2 DEF Parsed
      <3> QED BY <3>1, <3>2
    <2> QED BY <2>1, <2>2
  <1>7. VerdictIsTheRuns' /\ ObservedTestsRan' /\ verdict' # NoVerdict
    <2>1. CASE verdict' = [NoVerdict EXCEPT !.reason = "INFRA_ERROR"]
      <3>1. verdict' = [reason |-> "INFRA_ERROR", tests |-> FALSE]
        BY <2>1 DEF NoVerdict
      <3>2. verdict'.reason = "INFRA_ERROR" /\ verdict'.tests = FALSE
        BY <3>1
      <3>3. NoVerdict.reason = "" BY DEF NoVerdict
      <3> QED BY <3>2, <3>3 DEF VerdictIsTheRuns, ObservedTestsRan
    <2>2. CASE \E reason \in Parsed.reasons :
                 verdict' = [reason |-> IF exit # 0 THEN "NONZERO_EXIT" ELSE reason,
                             tests |-> Parsed.tests]
      <3>1. PICK reason \in Parsed.reasons :
              verdict' = [reason |-> IF exit # 0 THEN "NONZERO_EXIT" ELSE reason,
                          tests |-> Parsed.tests]
        BY <2>2
      <3>2. verdict'.tests = Parsed.tests
            /\ verdict'.reason = IF exit # 0 THEN "NONZERO_EXIT" ELSE reason
        BY <3>1
      <3>3. NoVerdict.reason = "" BY DEF NoVerdict
      <3>4. ObservedTestsRan'
        BY <1>1, <1>5, <3>2 DEF ObservedTestsRan
      <3>5. VerdictIsTheRuns' /\ verdict' # NoVerdict
        BY <1>1, <1>2, <1>6, <3>2, <3>3 DEF VerdictIsTheRuns
      <3> QED BY <3>4, <3>5
    <2> QED BY <2>1, <2>2 DEF ReadLog
  <1>8. IsList(log') /\ DOMAIN log' = {}
    BY <1>1, NothingIsList
  <1>9. ClientInv'
    BY <1>1, ClientKeeps DEF RunInv
  <1> QED BY <1>1, <1>7, <1>8, <1>9 DEF RunInv

LEMMA DeadlineKeeps ==
  ASSUME RunInv, Deadline
  PROVE  RunInv'
  <1>1. /\ agent' = "gone" /\ log' = <<>> /\ ForgetCall
        /\ UNCHANGED <<status, exit, tested, spoilt>>
    BY DEF Deadline
  <1>2. PICK reason \in {"TIMEOUT", "INFRA_ERROR"} : verdict' = [reason |-> reason, tests |-> FALSE]
    BY DEF Deadline, NoVerdict
  <1>3. verdict'.reason = reason /\ verdict'.tests = FALSE /\ NoVerdict.reason = ""
    BY <1>2 DEF NoVerdict
  <1>4. VerdictIsTheRuns' /\ ObservedTestsRan' /\ verdict' # NoVerdict
    BY <1>3 DEF VerdictIsTheRuns, ObservedTestsRan
  <1>5. IsList(log') /\ DOMAIN log' = {}
    BY <1>1, NothingIsList
  <1>6. ClientInv'
    BY <1>1, ClientKeeps DEF RunInv
  <1> QED BY <1>1, <1>4, <1>5, <1>6 DEF RunInv

LEMMA CallKeeps ==
  ASSUME RunInv, RefuseCall \/ CallTool \/ CallCommand
  PROVE  RunInv'
  <1>1. ClientInv'
    <2>1. UNCHANGED clientVars BY DEF RefuseCall, CallTool, CallCommand
    <2> QED BY <2>1, ClientKeeps DEF RunInv
  <1>2. tested \in BOOLEAN
    BY DEF RunInv
  <1>f. \A call, code : Failure(call, code).exit = "none"
    BY DEF Failure
  <1>3. CASE RefuseCall
    <2>1. PICK r : Answer(r) /\ r.exit = "none"
      BY <1>3, <1>f DEF RefuseCall
    <2>2. Executing /\ UNCHANGED <<agent, turn, logged, status, exit, log, spoilt, verdict>>
          /\ tested' = tested
      BY <1>3 DEF RefuseCall
    <2> QED BY <1>1, <1>2, <2>1, <2>2, Answered
  <1>4. CASE CallTool
    <2>1. PICK broken \in BOOLEAN, ok \in BOOLEAN :
            Answer(Repaired(Current,
                     [broken |-> broken,
                      result |-> Result(Current, ok, IF ok THEN "" ELSE "FAILED", "none")]))
      BY <1>4 DEF CallTool
    <2> DEFINE r == Repaired(Current,
                      [broken |-> broken,
                       result |-> Result(Current, ok, IF ok THEN "" ELSE "FAILED", "none")])
    <2>2. r.exit = "none"
      BY <1>f DEF Repaired, Result
    <2>3. Executing /\ UNCHANGED <<agent, turn, logged, status, exit, log, spoilt, verdict>>
          /\ tested' = tested /\ Answer(r)
      BY <1>4, <2>1 DEF CallTool
    <2> HIDE DEF r
    <2> QED BY <1>1, <1>2, <2>2, <2>3, Answered
  <1>5. CASE CallCommand
    <2>1. Executing /\ UNCHANGED <<agent, turn, logged, status, exit, log, spoilt, verdict>>
      BY <1>5 DEF CallCommand
    <2>2. PICK r :
            /\ Answer(r) /\ tested' \in BOOLEAN /\ (tested => tested')
            /\ r.exit # "none" /\ NamesPytest(Current.arguments.argv) => tested'
      <3>1. CASE \E end : /\ Answer(Result(Current, end[1], end[2], end[3]))
                          /\ tested' = (tested \/ (end[3] # "none" /\ NamesPytest(Current.arguments.argv)))
        <4>1. PICK end : /\ Answer(Result(Current, end[1], end[2], end[3]))
                         /\ tested' = (tested \/ (end[3] # "none" /\ NamesPytest(Current.arguments.argv)))
          BY <3>1
        <4>2. Result(Current, end[1], end[2], end[3]).exit = end[3]
          BY DEF Result
        <4>3. tested' \in BOOLEAN
          BY <4>1
        <4> QED BY <4>1, <4>2, <4>3
      <3>2. CASE tested' = tested /\ \E code : Answer(Failure(Current, code))
        BY <1>2, <1>f, <3>2
      <3> QED BY <1>5, <3>1, <3>2 DEF CallCommand
    <2> QED BY <1>1, <2>1, <2>2, Answered
  <1> QED BY <1>3, <1>4, <1>5

(* The calls of a round that exceeds the limit are not executed *)
LEMMA AllOverLimit ==
  ASSUME NEW calls, Len(calls) \in Nat
  PROVE  /\ IsList(OverLimit(calls)) /\ Len(OverLimit(calls)) = Len(calls)
         /\ \A k \in 1..Len(calls) : OverLimit(calls)[k].exit = "none"
  <1> DEFINE n == Len(calls)
             S == {Failure(calls[k], "TOOL_CALL_LIMIT") : k \in 1..n}
             over == [k \in 1..n |-> Failure(calls[k], "TOOL_CALL_LIMIT")]
  <1>1. OverLimit(calls) = over
    BY DEF OverLimit
  <1>2. over \in [1..n -> S]
    OBVIOUS
  <1>3. \A k \in 1..n : over[k].exit = "none"
    BY DEF Failure
  <1>4. over \in Seq(S) /\ Len(over) = n
    <2> HIDE DEF over, S
    <2> QED BY <1>2
  <1> HIDE DEF over, S
  <1> QED BY <1>1, <1>3, <1>4 DEF IsList

LEMMA HearKeeps ==
  ASSUME RunInv, AskModel \/ StopAsking \/ HearError \/ HearFinal \/ HearCalls
  PROVE  RunInv'
  <1>1. CASE AskModel
    <2>1. ClientInv' BY <1>1, ClientKeeps DEF AskModel, RunInv
    <2> QED BY <1>1, <2>1, BetweenCalls DEF AskModel, RunInv
  <1>2. CASE StopAsking
    <2>1. ClientInv' BY <1>2, ClientKeeps DEF StopAsking, RunInv
    <2>2. agent = "ask" /\ agent' = "report" /\ status' \in Statuses
          /\ UNCHANGED <<exit, log, tested, spoilt, verdict>>
      BY <1>2 DEF StopAsking, StopRun, LoopStops, Statuses
    <2> QED BY <2>1, <2>2, BetweenCalls
  <1>3. CASE HearError
    <2>1. ClientInv' BY <1>3, ClientKeeps DEF HearError, RunInv
    <2>2. agent = "answer" /\ agent' = "report" /\ status' \in Statuses
          /\ UNCHANGED <<exit, log, tested, spoilt, verdict>>
      BY <1>3 DEF HearError, StopRun, Statuses
    <2> QED BY <2>1, <2>2, BetweenCalls
  <1>4. CASE HearFinal
    <2>1. ClientInv' BY <1>4, ClientKeeps DEF HearFinal, RunInv
    <2>2. /\ agent = "answer" /\ agent' = "report"
          /\ status' \in {"OUTPUT_TRUNCATED", "CONTENT_FILTERED", "EMPTY_RESPONSE", "COMPLETED"}
          /\ UNCHANGED <<exit, log, tested, spoilt, verdict>>
      BY <1>4, Zenon DEF HearFinal, StopRun
    <2>3. status' \in Statuses BY <2>2 DEF Statuses
    <2> QED BY <2>1, <2>2, <2>3, BetweenCalls
  <1>5. CASE HearCalls
    <2>1. ClientInv' BY <1>5, ClientKeeps DEF HearCalls, RunInv
    <2>2. /\ agent = "answer" /\ UNCHANGED <<exit, log, tested, spoilt, verdict>>
          /\ logged' = 0 /\ post = "turn" /\ answer.calls # <<>>
      BY <1>5 DEF HearCalls
    <2>3. CASE DistinctIds(answer.calls)
      <3>1. agent' = "execute" /\ turn' = answer.calls /\ status' = status
        BY <1>5, <2>3 DEF HearCalls
      <3>2. answer \in Bodies
        BY <2>2 DEF RunInv, ClientInv
      <3>3. Len(turn') \in Nat /\ 0 < Len(turn')
        BY <2>2, <3>1, <3>2, CallsAreLists
      <3>4. /\ IsList(results') /\ Len(results') <= Len(turn')
            /\ \A k \in 1..Len(results') : results'[k].exit = "none"
        <4>1. CASE results' = <<>>
          BY <3>3, <4>1, NothingIsList
        <4>2. CASE results' = OverLimit(turn')
          BY <3>3, <4>2, AllOverLimit
        <4> QED BY <1>5, <2>3, <3>1, <4>1, <4>2 DEF HearCalls
      <3>5. TestedSoFar(Len(results))'
        BY <3>4 DEF TestedSoFar
      <3>6. VerdictIsTheRuns' /\ ObservedTestsRan'
        <4>1. verdict = NoVerdict BY <2>2 DEF RunInv
        <4>2. verdict.reason = "" /\ verdict.tests = FALSE BY <4>1 DEF NoVerdict
        <4> QED BY <2>2, <4>2 DEF VerdictIsTheRuns, ObservedTestsRan
      <3>7. logged' \in Nat /\ logged' < Len(turn')
        BY <2>2, <3>3
      <3> QED BY <2>1, <2>2, <3>1, <3>3, <3>4, <3>5, <3>6, <3>7 DEF RunInv
    <2>4. CASE ~DistinctIds(answer.calls)
      <3>1. agent' = "report" /\ status' = "PROVIDER_PROTOCOL_ERROR"
        BY <1>5, <2>4 DEF HearCalls, StopRun
      <3> QED BY <2>1, <2>2, <3>1, BetweenCalls DEF Statuses
    <2> QED BY <2>3, <2>4
  <1> QED BY <1>1, <1>2, <1>3, <1>4, <1>5

LEMMA RunStep ==
  ASSUME RunInv, [RunNext]_runVars
  PROVE  RunInv'
  <1>1. CASE AgentStep
    <2>1. CASE EscapeRegistry
      <3>1. agent = "execute" /\ agent' = "gone" /\ exit' = 1 /\ UNCHANGED clientVars
            /\ UNCHANGED <<status, log, tested, spoilt, verdict>>
        BY <2>1 DEF EscapeRegistry, Executing
      <3>2. ClientInv' BY <3>1, ClientKeeps DEF RunInv
      <3> QED BY <3>1, <3>2, EndedBadly
    <2> QED BY <1>1, <2>1, HearKeeps, CallKeeps, RecordToolKeeps, RecordRunKeeps DEF AgentStep
  <1>2. CASE AwaitClient
    <2>1. ClientInv' BY <1>2, ClientKeeps DEF AwaitClient, RunInv
    <2>2. agent = "answer" /\ agent' = "answer" /\ status' = status
          /\ UNCHANGED <<exit, log, tested, spoilt, verdict>>
      BY <1>2 DEF AwaitClient, agentVars
    <2>3. status' \in Statuses BY <2>2 DEF RunInv
    <2> QED BY <2>1, <2>2, <2>3, BetweenCalls
  <1>3. CASE Die
    <2>1. agent \notin {"off", "gone"} /\ agent' = "gone" /\ exit' = 1 /\ ForgetCall
          /\ UNCHANGED <<status, log, tested, spoilt, verdict>>
      BY <1>3 DEF Die
    <2>2. ClientInv' BY <2>1, ClientKeeps DEF RunInv
    <2> QED BY <2>1, <2>2, EndedBadly
  <1>4. CASE Launch
    <2>1. ClientInv' BY <1>4, ClientKeeps DEF Launch, RunInv
    <2> QED BY <1>4, <2>1 DEF Launch, RunInv, RunLines, VerdictIsTheRuns, ObservedTestsRan
  <1>5. CASE RefuseLaunch
    <2>1. ClientInv' BY <1>5, ClientKeeps DEF RefuseLaunch, RunInv
    <2>2. verdict' = [reason |-> "INFRA_ERROR", tests |-> FALSE]
      BY <1>5 DEF RefuseLaunch, NoVerdict
    <2>3. verdict'.reason = "INFRA_ERROR" /\ verdict'.tests = FALSE
      BY <2>2
    <2>4. VerdictIsTheRuns' /\ ObservedTestsRan'
      BY <2>3 DEF VerdictIsTheRuns, ObservedTestsRan
    <2>5. UNCHANGED agentVars /\ agent = "off"
      BY <1>5 DEF RefuseLaunch
    <2> QED BY <2>1, <2>4, <2>5 DEF agentVars, RunInv
  <1>6. CASE Deadline
    BY <1>6, DeadlineKeeps
  <1>7. CASE ReadLog
    BY <1>7, ReadLogKeeps
  <1>8. CASE UNCHANGED runVars
    <2>1. ClientInv' BY <1>8, ClientKeeps DEF runVars, RunInv
    <2> QED BY <1>8, <2>1 DEF runVars, agentVars, RunInv, RunLines, TestedSoFar, VerdictIsTheRuns,
                              ObservedTestsRan
  <1> QED BY <1>1, <1>2, <1>3, <1>4, <1>5, <1>6, <1>7, <1>8 DEF RunNext

(* The bound on retries holds of the client within a run as well, whose      *)
(* deadline or death may come at any moment of a completion                  *)
THEOREM RunRetriesAreBounded == RunSpec => []RetryCostBounded
  <1>1. RunInv => RetryCostBounded
    BY CostOfCall DEF RunInv
  <1> QED BY <1>1, RunInitial, RunStep, PTL DEF RunSpec

(* COMPLETED and INVALID_OUTPUT are said of the runs they are true of        *)
THEOREM VerdictsAreTheRuns == RunSpec => []VerdictIsTheRuns
  <1>1. RunInv => VerdictIsTheRuns
    BY DEF RunInv
  <1> QED BY <1>1, RunInitial, RunStep, PTL DEF RunSpec

(* Observed tests ran, for any calls, policy and answers of the user         *)
THEOREM ObservedTestsReallyRan == RunSpec => []ObservedTestsRan
  <1>1. RunInv => ObservedTestsRan
    BY DEF RunInv
  <1> QED BY <1>1, RunInitial, RunStep, PTL DEF RunSpec

-----------------------------------------------------------------------------
(* What the handlers are called with *)

LEMMA NotRefused ==
  ASSUME NEW call, Refusal(call) = ""
  PROVE  call.name \in DOMAIN Parameters /\ ValidArguments(call)
  <1>1. CASE call.name \notin DOMAIN Parameters
    <2>1. Refusal(call) = "UNKNOWN_TOOL"
      BY <1>1, Zenon DEF Refusal
    <2> QED BY <2>1
  <1>2. CASE call.name \in DOMAIN Parameters /\ ~ValidArguments(call)
    <2>1. Refusal(call) = "INVALID_ARGUMENTS"
      BY <1>2, Zenon DEF Refusal
    <2> QED BY <2>1
  <1> QED BY <1>1, <1>2

LEMMA EndlessIsANumber == Endless \in Nat
  BY DEF Endless

LEMMA ParametersOf ==
  /\ Parameters["read_file"] =
       [path |-> Text(1, Needed), start_line |-> Number(1, Endless, 1),
        end_line |-> Parameter({"integer", "null"}, 1, Endless, Null)]
  /\ Parameters["edit_file"] =
       [path |-> Text(1, Needed), old_text |-> Text(1, Needed), new_text |-> Text(0, Needed)]
  /\ Parameters["run_command"] =
       [argv |-> Parameter({"array"}, 1, 64, Needed), timeout_seconds |-> Number(1, 120, 30)]
  BY DEF Parameters

(* A value that is accepted is of the parameter's type and in its range *)
LEMMA Accepting ==
  ASSUME NEW call, ValidArguments(call), NEW p \in DOMAIN Parameters[call.name]
  PROVE  Matches(Normalized(call)[p], Parameters[call.name][p])
  BY DEF ValidArguments

LEMMA ValidIsExpected ==
  ASSUME NEW call, ValidArguments(call), handed' = [tool |-> call.name, values |-> Normalized(call)]
  PROVE  HandlersGetWhatTheyExpect'
  <1> DEFINE values == Normalized(call)
  <1>1. handed'.tool = call.name /\ handed'.values = values
    OBVIOUS
  <1>2. DOMAIN values = DOMAIN Parameters[call.name]
    BY DEF Normalized
  <1>3. ~Contradictory(call.name, values)
    BY DEF ValidArguments
  <1>4. CASE call.name = "read_file"
    <2>1. DOMAIN values = {"path", "start_line", "end_line"}
      BY <1>2, <1>4, ParametersOf
    <2>2. Matches(values["start_line"], Number(1, Endless, 1))
      BY <1>4, <2>1, <1>2, ParametersOf, Accepting
    <2>3. Matches(values["end_line"], Parameter({"integer", "null"}, 1, Endless, Null))
      BY <1>4, <2>1, <1>2, ParametersOf, Accepting
    <2>4. values["start_line"].type = "integer" /\ values["start_line"].n \in 1..Endless
      BY <2>2 DEF Matches, Number, Parameter
    <2>5. values["end_line"].type = "null"
          \/ (values["end_line"].type = "integer" /\ values["end_line"].n \in 1..Endless)
      BY <2>3 DEF Matches, Parameter
    <2>6. ~(values["end_line"].type = "integer" /\ values["end_line"].n < values["start_line"].n)
      BY <1>3, <1>4 DEF Contradictory
    <2> HIDE DEF values
    <2>7. ASSUME NEW a \in 1..Endless, NEW b \in 1..Endless, ~(b < a)
          PROVE  b >= a
      BY <2>7, EndlessIsANumber
    <2>8. values["start_line"].n >= 1
      BY <2>4, EndlessIsANumber
    <2>9. values["end_line"].type = "null" \/ values["end_line"].n >= values["start_line"].n
      BY <2>4, <2>5, <2>6, <2>7
    <2> QED BY <1>1, <1>4, <2>1, <2>4, <2>8, <2>9 DEF HandlersGetWhatTheyExpect
  <1>5. CASE call.name = "edit_file"
    <2>1. Matches(values["old_text"], Text(1, Needed))
      BY <1>5, ParametersOf, Accepting
    <2>2. values["old_text"].n >= 1
      BY <2>1 DEF Matches, Text, Parameter, Endless
    <2>3. values["old_text"] # values["new_text"]
      BY <1>3, <1>5 DEF Contradictory
    <2> HIDE DEF values
    <2> QED BY <1>1, <1>5, <2>2, <2>3 DEF HandlersGetWhatTheyExpect
  <1>6. CASE call.name = "run_command"
    <2>1. /\ Matches(values["argv"], Parameter({"array"}, 1, 64, Needed))
          /\ Matches(values["timeout_seconds"], Number(1, 120, 30))
      BY <1>6, ParametersOf, Accepting
    <2>2. /\ values["argv"].items = "words" /\ values["argv"].n \in 1..64
          /\ values["timeout_seconds"].type = "integer" /\ values["timeout_seconds"].n \in 1..120
      BY <2>1 DEF Matches, Number, Parameter
    <2> HIDE DEF values
    <2> QED BY <1>1, <1>6, <2>2 DEF HandlersGetWhatTheyExpect
  <1>7. CASE call.name \notin {"read_file", "edit_file", "run_command"}
    BY <1>1, <1>7 DEF HandlersGetWhatTheyExpect
  <1> QED BY <1>4, <1>5, <1>6, <1>7

(* Handlers get what they expect, of any calls a model makes *)
THEOREM HandlersAreServed == RunSpec => []HandlersGetWhatTheyExpect
  <1>1. RunInit => HandlersGetWhatTheyExpect
    <2>1. SUFFICES ASSUME RunInit PROVE HandlersGetWhatTheyExpect
      OBVIOUS
    <2>2. handed = NotHanded
      BY <2>1 DEF RunInit
    <2>3. handed.tool = ""
      BY <2>2 DEF NotHanded
    <2> QED BY <2>3 DEF HandlersGetWhatTheyExpect
  <1>2. HandlersGetWhatTheyExpect /\ [RunNext]_runVars => HandlersGetWhatTheyExpect'
    <2> SUFFICES ASSUME HandlersGetWhatTheyExpect, [RunNext]_runVars
                 PROVE  HandlersGetWhatTheyExpect'
      OBVIOUS
    <2>1. CASE CallTool \/ CallCommand
      <3>1. Refusal(Current) = "" /\ HandTo(Current)
        BY <2>1 DEF CallTool, CallCommand
      <3> QED BY <3>1, NotRefused, ValidIsExpected DEF HandTo
    <2>2. CASE ~(CallTool \/ CallCommand)
      <3>1. handed' = handed
        BY <2>2 DEF RunNext, AgentStep, AskModel, StopAsking, HearError, HearFinal, HearCalls,
                    RefuseCall, EscapeRegistry, RecordTool, RecordRun, AwaitClient, Die, Launch,
                    RefuseLaunch, Deadline, ReadLog, runVars, agentVars
      <3> QED BY <3>1 DEF HandlersGetWhatTheyExpect
    <2> QED BY <2>1, <2>2
  <1> QED BY <1>1, <1>2, PTL DEF RunSpec
=============================================================================
