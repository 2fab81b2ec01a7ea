----------------------------- MODULE ApiServerMC -----------------------------
(***************************************************************************)
(* An instance of ApiServer for TLC: two connections of one address, one   *)
(* setting for each branch of the middleware, and one environment for each *)
(* way a handshake can go out of step.                                     *)
(***************************************************************************)
EXTENDS ApiServer, TLC

CONSTANTS c1, c2

Addresses == c1 :> "remote" @@ c2 :> "remote"

\* Authentication by SSPI, and clients and a server that do nothing unusual.
Quiet == [enabled |-> TRUE, type |-> "sspi", bypass |-> FALSE, limited |-> FALSE,
          renegotiates |-> FALSE, slow |-> FALSE, odd |-> FALSE, busy |-> FALSE]

\* The other settings, met by clients that come near their rate.
Crowded == [Quiet EXCEPT !.limited = TRUE, !.type = "token"]

EveryWeather ==
    {Quiet, [Quiet EXCEPT !.renegotiates = TRUE], [Quiet EXCEPT !.slow = TRUE],
     [Quiet EXCEPT !.odd = TRUE], [Quiet EXCEPT !.busy = TRUE],
     Crowded, [Crowded EXCEPT !.bypass = TRUE], [Crowded EXCEPT !.type = "basic"],
     [Crowded EXCEPT !.enabled = FALSE]}
=============================================================================
