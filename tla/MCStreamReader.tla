--------------------------- MODULE MCStreamReader ---------------------------
(* An instance of StreamReader for TLC.                                    *)
EXTENDS StreamReader, TLC

Event(kind, conv, step, res) == [kind |-> kind, conv |-> conv, step |-> step, result |-> res]
Step(conv, index, type, delta) ==
    [has |-> TRUE, conv |-> conv, index |-> index, type |-> type, delta |-> delta]
Result(conv, value) == [has |-> TRUE, conv |-> conv, value |-> value]
OfEvent(n, e) == [len |-> n, is |-> "event", event |-> e]
Filler(n, is) == [NoLine EXCEPT !.len = n, !.is = is]

InitOf(c) == Event("init", c, Nil, Nil)
Text(c, i, d) == Event("step_update", "", Step(c, i, "agent_response", d), Nil)
Tool(i) == Event("step_update", "", Step("c1", i, "tool_call", "x"), Nil)
End(c, v) == Event("result", "", Nil, Result(c, v))

\* Lines on both sides of the buffer (2) and the cap (5), padding and garbage of
\* these lengths, and a result event without its payload.
MCLines ==
    { OfEvent(1, InitOf("c1")), OfEvent(4, Text("c1", 1, "a")), OfEvent(5, Text("c2", 1, "b")),
      OfEvent(2, Tool(2)), OfEvent(5, End("c2", "r")), OfEvent(6, End("c1", "s")),
      OfEvent(3, Event("result", "", Nil, Nil)),
      Filler(0, "blank"), Filler(2, "blank"), Filler(6, "blank"),
      Filler(3, "junk"), Filler(7, "junk") }
===========================================================================
