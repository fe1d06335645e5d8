------------------------------ MODULE SubAgent -------------------------------
(***************************************************************************)
(* How a domain agent answers its question: the loop of callLLM              *)
(* (agents/src/llm.ts), its client of the harness (harness-client.ts) and    *)
(* the ids its calls carry (correlation.ts), as pure functions.             *)
(*                                                                          *)
(*   reply      [calls, content, stop]: what the model answers, an empty      *)
(*              content being ""; a call is [tool, result]                  *)
(*   result     [status, reason, error], "" for what is not there, or        *)
(*              Failed for a call that throws                               *)
(*   transcript what the next request sends, of <<role, which>>              *)
(***************************************************************************)
EXTENDS Integers, Sequences, SequencesExt, TLC

CONSTANTS Correlated    \* CORRELATED_TOOLS of correlation.ts

Failed == [status |-> "thrown", reason |-> "", error |-> ""]
NoResult == [status |-> "", reason |-> "", error |-> ""]

\* fallbackAnswerFromToolResult
Fallback(result) ==
    IF result.status = "blocked" /\ result.reason # "" THEN <<"Blocked by governance", result.reason>>
    ELSE IF result.status = "error" /\ result.reason # "" THEN <<"Tool error", result.reason>>
    ELSE IF result.error # "" THEN <<"Tool error", result.error>>
    ELSE <<"No answer generated within step limit", "">>

\* The function that serves a call: any name but query_metrics is a query.
ServedBy(tool, hasMetrics) ==
    IF tool = "query_metrics" /\ hasMetrics THEN "metricsFn" ELSE "queryFn"

\* One round of the loop, when it has not ended.
Round(loop, reply) ==
    LET failing == SelectInSeq(reply.calls, LAMBDA c : c.result = Failed)
        asked == [loop EXCEPT !.requests = @ + 1]
    IN CASE loop.end # "no" -> loop
         [] loop.end = "no" /\ failing # 0 -> [asked EXCEPT !.end = "thrown"]
         [] loop.end = "no" /\ failing = 0 /\ reply.calls # <<>> ->
              [asked EXCEPT !.last = Last(reply.calls).result,
                            !.transcript = @ \o <<<<"assistant", reply.calls>>>>
                                             \o [i \in DOMAIN reply.calls |-> <<"tool", i>>]]
         [] loop.end = "no" /\ reply.calls = <<>> /\ reply.content # "" ->
              [asked EXCEPT !.end = "answered", !.answer = <<"", reply.content>>]
         [] OTHER -> IF reply.stop THEN [asked EXCEPT !.end = "stopped"] ELSE asked

\* callLLM, with what the model replies to each request.
CallLLM(replies, maxSteps) ==
    LET start == [requests |-> 0, end |-> "no", last |-> NoResult, answer |-> <<>>,
                  transcript |-> <<<<"system", 0>>, <<"user", 0>>>>]
        loop == FoldLeft(Round, start, SubSeq(replies, 1, maxSteps))
    IN IF loop.end \in {"answered", "thrown"} THEN loop
       ELSE [loop EXCEPT !.answer = Fallback(loop.last)]

\* withCorrelation; what args do not have is not in their domain.
WithCorrelation(tool, args, caseId, fresh) ==
    IF tool \in Correlated THEN args @@ [case_id |-> caseId, request_id |-> fresh] ELSE args

\* callTool of HarnessClient: the arguments sent; caseId is <<>> until it is set.
Sent(tool, args, caseId, fresh) ==
    IF caseId = <<>> THEN args ELSE WithCorrelation(tool, args, caseId[1], fresh)

-----------------------------------------------------------------------------
(***************************************************************************)
(* Facts                                                                    *)
(***************************************************************************)

\* A question that does not fail gets an answer that is not empty, in at most maxSteps
\* requests, and the text of the model when it gave one.
AnswersAlways(replies, maxSteps) ==
    LET loop == CallLLM(replies, maxSteps)
    IN /\ loop.requests <= maxSteps
       /\ loop.end # "thrown" => loop.answer # <<>> /\ loop.answer # <<"", "">>
       /\ loop.end = "answered" => loop.answer[2] = replies[loop.requests].content

\* Every request the model gets has the result of each call it made before, in order.
TranscriptIsWhole(replies, maxSteps) ==
    LET said == CallLLM(replies, maxSteps).transcript
    IN \A i \in DOMAIN said : said[i][1] = "assistant" =>
          /\ Len(said) >= i + Len(said[i][2])
          /\ \A n \in DOMAIN said[i][2] : said[i + n] = <<"tool", n>>

\* A query refused for a reason ends as an answer with this reason exactly when it was
\* the last query and the model said nothing after it; a later query that succeeds hides it.
RefusalIsTold(replies, maxSteps) ==
    LET loop == CallLLM(replies, maxSteps)
        asked == SelectSeq(SubSeq(replies, 1, loop.requests), LAMBDA r : r.calls # <<>>)
    IN loop.end # "thrown" =>
          (loop.answer[1] = "Blocked by governance") =
             /\ loop.end # "answered" /\ asked # <<>>
             /\ Last(Last(asked).calls).result.status = "blocked"
             /\ Last(Last(asked).calls).result.reason # ""

\* A call repeated with what was sent before is the same request to the harness.
RetryIsTheSame(tool, args, caseId) ==
    LET sent == Sent(tool, args, caseId, "r1")
    IN /\ Sent(tool, sent, caseId, "r2") = sent
       /\ \A x \in DOMAIN args : sent[x] = args[x]
       /\ tool \in Correlated /\ caseId # <<>> => {"case_id", "request_id"} \subseteq DOMAIN sent
=============================================================================
