---------------------------- MODULE LogStreamerMC ----------------------------
(***************************************************************************)
(* An instance of LogStreamer for TLC: more requests than the limit        *)
(* admits, a viewer of all a service writes, one of its standard error     *)
(* only, and one of another service.                                       *)
(***************************************************************************)
EXTENDS LogStreamer, TLC

CONSTANTS c1, c2, c3

Line(service, stream) == [service |-> service, stream |-> stream]

Viewers == c1 :> Line("a", AnyStream) @@ c2 :> Line("a", "stderr")
             @@ c3 :> Line("b", AnyStream)

Captured == {Line("a", "stdout"), Line("a", "stderr"), Line("b", "stdout")}
=============================================================================
