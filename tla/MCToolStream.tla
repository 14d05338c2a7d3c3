---------------------------- MODULE MCToolStream ----------------------------
(* Instances of ToolStream for TLC.  A call has up to two parameters, each   *)
(* closed or not; a text has up to two calls with or without text around.    *)
EXTENDS ToolStream

Param(v, closed) ==
    <<"<parameter=", ">", v>> \o (IF closed THEN <<"</parameter>">> ELSE << >>)

Call(params) == <<"<tool_call>", "<function=", ">">> \o params \o <<"</function>", "</tool_call>">>

MaybeText == {<< >>, <<"text">>}

CallsWith(closings) ==
    {Call(<< >>)} \cup {Call(Param("a", x)) : x \in closings}
                  \cup {Call(Param("a", x) \o Param("b", y)) : x, y \in closings}

TextsOver(calls) ==
    {t \o c : t \in MaybeText, c \in calls \cup {<< >>}}
        \cup {t \o c \o u \o d : t, u \in MaybeText, c, d \in calls}
        \cup {c \o <<"text">> : c \in calls}

AnyTexts == TextsOver(CallsWith(BOOLEAN))
ThinkingTexts == {<<"think", "</think>">> \o t : t \in AnyTexts}

\* One piece per delta; several, with choices cut by max_tokens; and thinking.
MCModes ==
    {[texts |-> AnyTexts, thinking |-> FALSE, maxDelta |-> 1, byLength |-> FALSE],
     [texts |-> AnyTexts, thinking |-> FALSE, maxDelta |-> 4, byLength |-> TRUE],
     [texts |-> ThinkingTexts, thinking |-> TRUE, maxDelta |-> 4, byLength |-> FALSE]}
=============================================================================
