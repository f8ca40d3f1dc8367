---------------------------- MODULE MCWokwiProject ----------------------------
(* Two signals, which one of the settings gives the same pin.               *)
EXTENDS WokwiProject, TLC

CONSTANTS rx, led, p1, p2, e1, e2, c1, c2

MCSettings == {rx :> p1 @@ led :> p2, rx :> p2 @@ led :> p1, rx :> p1 @@ led :> p1}

MCDiagrams ==
    {[sound |-> TRUE, wires |-> {<<rx, p1>>, <<led, p2>>}],
     [sound |-> TRUE, wires |-> {<<rx, p2>>, <<led, p1>>}],
     [sound |-> FALSE, wires |-> {}]}

MCTracked ==
    [entrypoint |-> e1, settings |-> rx :> p1 @@ led :> p2,
     diagram |-> [sound |-> TRUE, wires |-> {<<rx, p1>>, <<led, p2>>}],
     chip |-> c1, manifest |-> TRUE]

MCLayouts ==
    {[ignored |-> {}, git |-> TRUE, refused |-> TRUE],
     [ignored |-> {}, git |-> FALSE, refused |-> FALSE]}
        \cup [ignored: {{"src"}, {"asset"}, {"build/doxygen"}}, git: BOOLEAN, refused: {FALSE}]
=============================================================================
