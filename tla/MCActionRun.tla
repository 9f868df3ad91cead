----------------------------- MODULE MCActionRun ------------------------------
(* Instances for TLC: runs of one and two turns around a baseline of 200 ms *)
(* and thresholds of 15% and 14.5%, some with turns that are not whole or   *)
(* have one number, with a span id that is taken; traces of other clients   *)
(* with ties, an error, an open end, a clock set back and content-shaped    *)
(* keys; and every way three spans may name each other, none or a span that *)
(* is not there as parents, cycles included.                                *)
EXTENDS ActionRun

Turn(n, total, stages) == [turn |-> n, totalMs |-> total, stages |-> stages]
Summary(headline, total, turns) ==
    [headlineMs |-> headline, totalMs |-> total, label |-> "ci", turns |-> turns]

MCRunStart == 1000
MCTraceFiles ==
    {Unreadable,
     Summary(230, 40, <<Turn(1, 20, <<<<"whisper", 5>>, <<"decode", 15>>>>),
                        Turn(2, 20, <<<<"whisper", 15>>, <<"decode", 5>>>>)>>),
     Summary(229, 0, <<Turn(1, 0, <<<<"whisper", 0>>, <<"decode", 0>>>>)>>),
     Summary(200, 8, <<Turn(2, 6, <<<<"prefill", 1>>, <<"decode", 2>>, <<"tts", 3>>>>),
                       Turn(2, None, <<<<"decode", 2>>>>)>>),
     Summary(160, 400, <<>>),
     Summary(160, 9, <<Turn(1, 9, <<<<"decode", 9>>>>), None>>),
     Summary(240, 9, <<Turn(1, 4, None), Turn(1, 5, <<<<"decode", 5>>>>)>>),
     Summary(230, 9, <<Turn(1, 5, <<<<"decode", 5>>>>), Turn(1, 4, None)>>),
     Summary(220, 9, <<Turn(2, 9, None)>>)}
MCBaselineFiles ==
    {Unreadable, Summary(0, 9, <<Turn(1, 9, <<>>)>>),
     Summary(200, 30, <<Turn(2, 8, None), Turn(1, 10, <<>>), Turn(2, 25, <<>>)>>),
     Summary(200, 30, <<None>>)}

Args(trace, base, threshold, fail, keys, dry) ==
    [trace |-> trace, baseline |-> base, threshold |-> threshold, fail |-> fail,
     version |-> "v", backend |-> keys, ingestKey |-> keys, dashboardKey |-> keys, dryRun |-> dry]
MCInputs ==
    {Args("t", "b", "0.15", "true", "k", "false"), Args("t", "b", "", "", "k", "false"),
     Args("t", "b", "0.15", "false", "", "false"), Args("t", "b", "abc", "true", "k", "true"),
     Args("t", "b", "0.145", "true", "", "false"), Args("t", "", "0.15", "true", "", "false"),
     Args("", "b", "0.15", "true", "k", "false"),
     Args("t", "b", "0", "true", "", "true")}
MCNumberOf == [x \in {"0.15", "0.145", "0", "abc"} |->
                 CASE x = "0.15" -> 150 [] x = "0.145" -> 145 [] x = "0" -> 0 [] OTHER -> NaN]
MCRoundedDown == {15}
MCTakenIds == {{}, {<<1, "decode">>}}
MCEnv == [o \in {"dashboardKey", "backendUrl", "ingestKey"} |-> IF o = "dashboardKey" THEN "" ELSE "k"]

Span(n, parent, kind, start, dur, status, model, keys) ==
    [id |-> <<0, n>>, parent |-> IF parent = "" THEN None ELSE <<0, parent>>, name |-> kind,
     kind |-> kind, start |-> start, end |-> start + dur, dur |-> dur, status |-> status,
     turn |-> None, model |-> model, keys |-> keys]
Trace(end, device, keys) ==
    [start |-> 0, end |-> end, device |-> device, model |-> None, keys |-> keys]

Families ==
    {[trace |-> Trace(4, <<"phone", "n", "l">>, {}),
      spans |-> {Span("a", pa, "llm", 0, 2, "ok", "m", {<<"k">>}), Span("b", pb, "llm", 0, 4, "ok", "n", {}),
                 Span("c", pc3, "asr", 3, 1, "ok", None, {})}] :
       pa, pb, pc3 \in {"", "a", "b", "c", "x"}}

MCSdkTraces == Families \cup
    {[trace |-> Trace(None, <<"phone", None, None>>, {<<"app", "version">>}),
      spans |-> {Span("a", "", "turn", 0, 700, "ok", None, {<<"turn">>}),
                 Span("b", "a", "llm", 100, 500, "error", "m", {<<"gen_ai", "prompt", "text">>}),
                 Span("c", "b", "tool", 100, 0, "ok", None, {<<"user", "input">>, <<"prompt">>})}],
     [trace |-> Trace(90, <<None, "pixel", None>>, {<<"content">>, <<"content", "x">>}),
      spans |-> {[Span("b", "x", "asr", 0, 30, "ok", None, {<<"llm", "messages">>}) EXCEPT !.dur = 95],
                 Span("a", "b", "llm", 0, 90, "ok", None, {<<"a", "message">>, <<"tokens">>})}],
     [trace |-> Trace(10, <<None, None, None>>, {}),
      spans |-> {Span("a", "b", "llm", 0, 10, "ok", "m", {}), Span("b", "a", "llm", 2, 8, "ok", "n", {}),
                 Span("c", "", "asr", 0, 1, "ok", None, {})}],
     [trace |-> Trace(None, <<None, None, None>>, {}), spans |-> {}],
     [trace |-> Trace(12, <<"m", None, None>>, {}),
      spans |-> {Span("a", "a", "llm", 1, 3, "ok", "m", {})}]}

MCIdRank ==
    [id \in ({0} \X {"a", "b", "c"}) \cup ({1, 2} \X {"decode", "prefill", "tts", "whisper"}) |->
       10 * id[1] + CASE id[2] \in {"a", "decode"} -> 1 [] id[2] \in {"b", "prefill"} -> 2
                      [] id[2] \in {"c", "tts"} -> 3 [] OTHER -> 4]
=============================================================================
