----------------------------- MODULE ToolStream -----------------------------
(***************************************************************************)
(* Streaming of one chat completion: Qwen3CoderToolParser turns the deltas *)
(* of the model's text into tool-call messages                             *)
(* (qwen3coder_tool_parser.py), and chat_completion_stream_generator       *)
(* routes each delta through the reasoning parser or the tool parser and   *)
(* finishes the stream (serving_chat.py).  The reference for what the      *)
(* client must end up with is the parse of the whole text that the same    *)
(* parser does for a request that is not streamed.                         *)
(*                                                                         *)
(* A text is a sequence of pieces, and a delta one or more of them:        *)
(*   "text"       words outside of any markup                              *)
(*   "think"      words of the reasoning;  "</think>" ends it              *)
(*   "<tool_call>", "</tool_call>", "</function>", "</parameter>"          *)
(*   "<function=" and "<parameter=" with the name that follows, up to ">"  *)
(*   any other    the value of a parameter                                 *)
(* One parser object serves all choices of the request.  Blank text, which *)
(* the parser strips around values and drops after a call, is left out.    *)
(***************************************************************************)
EXTENDS Naturals, Sequences, FiniteSets, SequencesExt

CONSTANTS
    NumChoices,     \* n of the request
    Modes           \* the kinds of requests and of deltas

ASSUME SizesAssumption ==
    NumChoices \in Nat \ {0} /\ \A m \in Modes : m.maxDelta \in Nat \ {0}

ChoiceIds == 0..NumChoices-1

VARIABLES
    mode,      \* the kind of the request, fixed at the start
    text,      \* text[i]: what the model generates for choice i
    seen,      \* seen[i]: previous_texts[i], the pieces received so far
    parser,    \* the tool parser's streaming state
    ended,     \* reasoning_end_arr
    client,    \* client[i]: what the client of choice i has put together
    turn,      \* the choice whose output is next in the engine's results
    passedOn   \* history: choices whose reasoning parser let a call pass as content

vars == <<mode, text, seen, parser, ended, client, turn, passedOn>>

Texts == mode.texts              \* what the model may generate for one choice
Thinking == mode.thinking        \* the request has thinking enabled
MaxDelta == mode.maxDelta        \* pieces that may arrive in one delta
StopsByLength == mode.byLength   \* a choice may end with max_tokens, inside a text

Markup == {"<tool_call>", "</tool_call>", "<function=", "</function>",
           "<parameter=", "</parameter>", ">", "</think>"}

Count(s, x) == Cardinality({k \in DOMAIN s : s[k] = x})

\* str.find: the first place of x in s at or after k, 0 for -1.
Find(s, x, k) == SelectInSubSeq(s, k, Len(s), LAMBDA y : y = x)

\* The places of x in s, in order.
Places(s, x) == SetToSortSeq({k \in DOMAIN s : s[k] = x}, <)

-----------------------------------------------------------------------------
(* The whole text at once: extract_tool_calls.                             *)

\* _convert_param_value: without the request's tool list there is no type to
\* convert to, and the value stays a string.
Converted(v, known) == [value |-> v, typed |-> known]

\* The braces around the arguments, which have the form of values here.
OpenBrace == Converted(<<"{">>, TRUE)
CloseBrace == Converted(<<"}">>, TRUE)

\* What the regex of a parameter takes for its value: up to </parameter>, the
\* next <parameter=, </function> or the end.
ValueAt(s, p) ==
    LET stops == {k \in p+2..Len(s) : s[k] \in {"</parameter>", "<parameter=", "</function>"}}
        stop  == IF stops = {} THEN Len(s) + 1 ELSE CHOOSE k \in stops : \A l \in stops : k <= l
    IN SubSeq(s, p + 2, stop - 1)

\* _parse_xml_function_call: the arguments of the function at place f of s.
ParseFunction(s, f, known) ==
    LET stop == Find(s, "</function>", f)
        body == SubSeq(s, f, IF stop = 0 THEN Len(s) ELSE stop)
        ps   == Places(body, "<parameter=")
    IN <<OpenBrace>> \o [k \in DOMAIN ps |-> Converted(ValueAt(body, ps[k]), known)] \o <<CloseBrace>>

\* A name without its ">" makes str.index raise, and the whole text is content.
Unparsable(s) == s # << >> /\ Last(s) \in {"<function=", "<parameter="}

ExtractToolCalls(s) ==
    LET fs == Places(s, "<function=")
    IN IF fs = << >> \/ Unparsable(s)
       THEN [calls |-> << >>, content |-> s]
       ELSE [calls   |-> [k \in DOMAIN fs |-> ParseFunction(s, fs[k], TRUE)],
             content |-> SubSeq(s, 1, Find(s, "<tool_call>", 1) - 1)]

\* extract_reasoning: what follows </think>, nothing while it is missing.
AfterReasoning(s) ==
    IF ~Thinking THEN s
    ELSE LET e == Find(s, "</think>", 1)
         IN IF e = 0 THEN << >> ELSE SubSeq(s, e + 1, Len(s))

-----------------------------------------------------------------------------
(* The streaming parser.                                                   *)

\* _reset_streaming_state; the two lists are only set by the constructor.
Fresh == [index |-> 0, started |-> FALSE, header |-> FALSE, inFunction |-> FALSE,
          opened |-> FALSE, closed |-> FALSE, params |-> 0, request |-> FALSE]

NewParser == [prev |-> << >>, streamed |-> << >>] @@ Fresh

Reset(p) == [request |-> TRUE] @@ Fresh @@ p

\* The messages a delta can produce.
Nothing == [kind |-> "none"]
Content(s) == [kind |-> "content", content |-> s]
Header(k) == [kind |-> "header", index |-> k]
Args(k, s) == [kind |-> "args", index |-> k, args |-> s]

\* The slice of the text that belongs to the current tool call.
ToolText(p, cur) ==
    LET start == Places(cur, "<tool_call>")[p.index + 1]
        stop  == Find(cur, "</tool_call>", start)
    IN SubSeq(cur, start, IF stop = 0 THEN Len(cur) ELSE stop)

\* Fault: the next parameter does not end a value that was not closed.
FaultValueEnd(s, v) ==
    LET pe == Find(s, "</parameter>", v)
        fe == Find(s, "</function>", v)
    IN IF pe # 0 THEN pe ELSE IF fe # 0 THEN fe ELSE Find(s, "</tool_call>", v)

\* Where the value that starts at place v ends, 0 if it is not complete.
ValueEnd(s, v) ==
    LET pe == Find(s, "</parameter>", v)
        np == Find(s, "<parameter=", v)
        fe == Find(s, "</function>", v)
    IN IF pe # 0 THEN pe
       ELSE IF np # 0 /\ (fe = 0 \/ np < fe) THEN np
       ELSE IF fe # 0 THEN fe ELSE Find(s, "</tool_call>", v)

\* The values of the parameters that are complete in s, from number n+1 on.
CompleteParams(s, n, known) ==
    LET ps  == Places(s, "<parameter=")
        end == [k \in DOMAIN ps |->
                   IF ps[k] + 1 \in DOMAIN s THEN ValueEnd(s, ps[k] + 2) ELSE 0]
        upto == CHOOSE m \in n..Len(ps) :
                   /\ \A k \in n+1..m : end[k] # 0
                   /\ m = Len(ps) \/ end[m + 1] = 0
    IN [k \in 1..upto - n |-> Converted(SubSeq(s, ps[n+k] + 2, end[n+k] - 1), known)]

\* Fault: the next call is taken up without forgetting that the last one
\* was opened.
FaultNextCall(p, cur) ==
    [p EXCEPT !.index = @ + 1, !.header = FALSE, !.params = 0, !.closed = FALSE,
              !.started = p.index + 1 < Count(cur, "<tool_call>")]

\* The call is closed and its </tool_call> is there: on to the next one.
Advances(p, cur) == p.closed /\ ~p.inFunction /\ Count(cur, "</tool_call>") > p.index

NextCall(p, cur) ==
    [p EXCEPT !.index = @ + 1, !.header = FALSE, !.params = 0, !.opened = FALSE,
              !.closed = FALSE, !.started = p.index + 1 < Count(cur, "<tool_call>")]

\* Fault: the whole delta is passed on when a call starts in it.
FaultBefore(delta) == delta

\* The content in front of a call that starts in this delta.
Before(delta) == SubSeq(delta, 1, Find(delta, "<tool_call>", 1) - 1)

\* No call is open: content, or the start of a call.
Outside(p, delta) ==
    IF Count(delta, "<tool_call>") > 0
    THEN [parser |-> [p EXCEPT !.started = TRUE],
          msg    |-> IF Before(delta) = << >> THEN Nothing ELSE Content(Before(delta))]
    ELSE [parser |-> p, msg |-> Content(delta)]

\* A call is open, its header has been sent and </function> not been handled:
\* one message at a time, the brace, then the parameters, then the brace.
InFunction(p, tool) ==
    LET here   == p.index + 1
        new    == CompleteParams(tool, p.params, p.request)
        parsed == ParseFunction(tool, Find(tool, "<function=", 1), p.request)
    IN CASE ~p.opened ->
              [parser |-> [p EXCEPT !.opened = TRUE, !.streamed[here] = Append(@, OpenBrace)],
               msg    |-> Args(p.index, <<OpenBrace>>)]
         [] p.opened /\ new # << >> ->
              [parser |-> [p EXCEPT !.params = @ + Len(new), !.streamed[here] = @ \o new],
               msg    |-> Args(p.index, new)]
         [] p.opened /\ new = << >> /\ ~p.closed /\ Count(tool, "</function>") > 0 ->
              [parser |-> [p EXCEPT !.closed = TRUE, !.inFunction = FALSE,
                                    !.prev[here] = parsed, !.streamed[here] = Append(@, CloseBrace)],
               msg    |-> Args(p.index, <<CloseBrace>>)]
         [] OTHER -> [parser |-> p, msg |-> Nothing]

\* The header goes out as soon as the function's name is complete.
SendHeader(p, tool) ==
    IF \E k \in 1..Len(tool) - 1 : tool[k] = "<function=" /\ tool[k + 1] = ">"
    THEN [parser |-> [p EXCEPT !.header = TRUE, !.inFunction = TRUE,
                               !.prev = Append(@, <<OpenBrace, CloseBrace>>), !.streamed = Append(@, << >>)],
          msg    |-> Header(p.index)]
    ELSE [parser |-> p, msg |-> Nothing]

\* extract_tool_calls_streaming.
ExtractStreaming(p0, previous, delta) ==
    LET p   == IF previous = << >> THEN Reset(p0) ELSE p0
        cur == previous \o delta
    IN CASE delta = << >> -> [parser |-> p, msg |-> Nothing]
         [] delta # << >> /\ Advances(p, cur) ->
              [parser |-> NextCall(p, cur), msg |-> Nothing]
         [] delta # << >> /\ ~Advances(p, cur) /\ ~p.started -> Outside(p, delta)
         [] OTHER ->
              IF p.index >= Count(cur, "<tool_call>") THEN [parser |-> p, msg |-> Nothing]
              ELSE IF ~p.header THEN SendHeader(p, ToolText(p, cur))
              ELSE IF p.inFunction THEN InFunction(p, ToolText(p, cur))
              ELSE [parser |-> p, msg |-> Nothing]

-----------------------------------------------------------------------------
(* The stream generator.                                                   *)

Init ==
    /\ mode \in Modes
    /\ text \in [ChoiceIds -> Texts]
    /\ seen = [i \in ChoiceIds |-> << >>]
    /\ parser = NewParser
    /\ ended = [i \in ChoiceIds |-> ~Thinking]
    /\ client = [i \in ChoiceIds |-> [content |-> << >>, calls |-> << >>, finish |-> "none"]]
    /\ turn = 0
    /\ passedOn = {}

\* Every result of the engine has an output for each unfinished choice, in
\* their order.
PassTurn(i) ==
    turn' = LET after(d) == (i + d) % NumChoices
                left == {d \in 1..NumChoices : client'[after(d)].finish = "none"}
            IN IF left = {} THEN i ELSE after(CHOOSE d \in left : \A e \in left : d <= e)

\* extract_reasoning_streaming: what follows </think> in the same delta is
\* passed on as content.
Reasoning(delta) ==
    LET e == Find(delta, "</think>", 1)
    IN IF e = 0 \/ e = Len(delta) THEN Nothing ELSE Content(SubSeq(delta, e + 1, Len(delta)))

\* What the client makes of a message: a header starts a call, arguments are
\* appended to the call of their index.
Received(c, m) ==
    CASE m.kind = "none"    -> c
      [] m.kind = "content" -> [c EXCEPT !.content = @ \o m.content]
      [] m.kind = "header"  -> [c EXCEPT !.calls = Append(@, << >>)]
      [] m.kind = "args"    ->
           IF m.index + 1 \in DOMAIN c.calls
           THEN [c EXCEPT !.calls[m.index + 1] = @ \o m.args]
           ELSE [c EXCEPT !.calls = Append(@, m.args)]

\* The check for "forgotten" arguments replaces a tool-call message that comes
\* with the finish reason by what prev_tool_call_arr has beyond the arguments
\* streamed so far; str.replace leaves all of it if those do not occur in it.
Unstreamed(p, m) ==
    LET last     == Len(p.prev)
        expected == p.prev[last]
        actual   == p.streamed[last]
    IN IF m.kind \notin {"header", "args"} THEN m
       ELSE Args(last - 1, IF IsPrefix(actual, expected)
                           THEN SubSeq(expected, Len(actual) + 1, Len(expected))
                           ELSE expected)

Delivered(i, p, m, finish) ==
    client' = [client EXCEPT ![i] =
        [Received(@, IF finish = "none" THEN m ELSE Unstreamed(p, m)) EXCEPT !.finish = finish]]

Finish(p, reason) == IF p.prev # << >> THEN "tool_calls" ELSE reason

\* The reasons with which the engine may report a choice as finished: "stop"
\* comes with the end-of-sequence token, which has no text.
Reasons(delta) ==
    {"none"} \cup (IF delta = << >> THEN {"stop"} ELSE {})
             \cup (IF StopsByLength /\ delta # << >> THEN {"length"} ELSE {})

\* One output of choice i with the next n pieces of its text.
Output(i, n, reason) ==
    LET delta == SubSeq(text[i], Len(seen[i]) + 1, Len(seen[i]) + n)
        r     == ExtractStreaming(parser, seen[i], delta)
    IN /\ turn = i
       /\ client[i].finish = "none"
       /\ Len(seen[i]) + n <= Len(text[i])
       /\ reason \in Reasons(delta)
       /\ seen' = [seen EXCEPT ![i] = @ \o delta]
       /\ UNCHANGED <<mode, text>>
       /\ \/ /\ ~ended[i]
             /\ ended' = [ended EXCEPT ![i] = Count(delta, "</think>") > 0]
             /\ Delivered(i, parser, Reasoning(delta),
                          IF reason = "none" THEN "none" ELSE Finish(parser, reason))
             /\ passedOn' = IF ended'[i] /\ Count(delta, "<tool_call>") > 0
                            THEN passedOn \cup {i} ELSE passedOn
             /\ UNCHANGED parser
          \/ /\ ended[i]
             /\ parser' = r.parser
             /\ Delivered(i, r.parser, r.msg,
                          IF reason = "none" THEN "none" ELSE Finish(r.parser, reason))
             /\ UNCHANGED <<ended, passedOn>>
       /\ PassTurn(i)

Next == \E i \in ChoiceIds, n \in 0..MaxDelta, reason \in {"none", "stop", "length"} :
            Output(i, n, reason)

Spec == Init /\ [][Next]_vars

-----------------------------------------------------------------------------
TypeOK ==
    /\ \A i \in ChoiceIds : IsPrefix(seen[i], text[i])
    /\ ended \in [ChoiceIds -> BOOLEAN] /\ passedOn \subseteq ChoiceIds
    /\ parser.index \in 0..Len(parser.prev)
    /\ Len(parser.streamed) = Len(parser.prev)
    /\ \A i \in ChoiceIds : client[i].finish \in {"none", "stop", "length", "tool_calls"}

\* The calls of the same text in a response that is not streamed.
Whole(i) == ExtractToolCalls(AfterReasoning(seen[i]))

\* In some call of s a parameter that is not closed is followed by one that is:
\* seen at once, the first takes the </parameter> of the second for its own.
Unclosed(s) ==
    \E p, e \in DOMAIN s :
      /\ p < e /\ s[p] = "<parameter=" /\ s[e] = "</parameter>"
      /\ Count(SubSeq(s, p + 1, e), "<parameter=") > 0
      /\ Count(SubSeq(s, p, e - 1), "</parameter>") = 0
      /\ Count(SubSeq(s, p, e), "</tool_call>") = 0

\* Nothing that was streamed has to be taken back: at every moment the
\* arguments the client holds for a call are a prefix of the arguments that
\* the parse of the whole text finds in the text so far
\* (extract_tool_calls_streaming against extract_tool_calls), however the text is
\* cut into deltas.  Not where README, section 6, says that it fails: after a
\* reasoning block, where the parser has no types; in the last message of a
\* choice cut by max_tokens, which the generator replaces (serving_chat.py:880);
\* and for a text that is Unclosed in deltas of several pieces, where the loop
\* that collects "all complete parameters in one pass" (line 394) looks for
\* </parameter> before it looks for the next <parameter= (lines 420 to 426).
NothingRetracted ==
    TypeOK /\
    \A i \in ChoiceIds :
      /\ Whole(i).calls # << >> /\ ~Thinking
      /\ client[i].finish = "none" \/ ~StopsByLength
      /\ MaxDelta = 1 \/ ~Unclosed(seen[i])
      => /\ Len(client[i].calls) <= Len(Whole(i).calls)
         /\ \A k \in DOMAIN client[i].calls :
              IsPrefix(client[i].calls[k], Whole(i).calls[k])

\* A choice that ended with all its calls closed leaves the client with the
\* calls, the arguments and the finish reason that the parse of the whole text
\* gives.  The parser sends one message per delta and has to catch up in time,
\* which it does when no delta has more than one piece of markup.  Choices cut by
\* max_tokens and requests with thinking are not covered, nor are deltas of
\* several pieces: there it fails (README, section 6).
AllStreamed ==
    \A i \in ChoiceIds :
      /\ client[i].finish # "none" /\ seen[i] = text[i]
      /\ MaxDelta = 1 /\ ~Thinking /\ ~StopsByLength
      => /\ client[i].calls = Whole(i).calls
         /\ (client[i].finish = "tool_calls") = (Whole(i).calls # << >>)

\* The client never sees markup as content, and the content in front of the
\* first call is that of the response that is not streamed, however the text is
\* cut into deltas.  Not when a <tool_call> came in the delta of </think>: the
\* reasoning parser returns what follows </think> as content
\* (qwen3_reasoning_parser.py:94 to 100), and the tool parser, which never saw
\* the call begin, lets the rest of it pass (README, section 6).
ContentAgrees ==
    \A i \in ChoiceIds \ passedOn :
        /\ \A k \in DOMAIN client[i].content : client[i].content[k] \notin Markup
        /\ Whole(i).calls # << >> \/ Count(seen[i], "<tool_call>") = 0 =>
              IsPrefix(Whole(i).content, client[i].content)
=============================================================================
