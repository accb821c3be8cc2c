---------------------------- MODULE MCForwarding ----------------------------
(* A small instance of Forwarding for TLC.                                 *)
EXTENDS Forwarding, TLC

CONSTANTS h1, h2, b1, b2, b3, b4, b5

TwoHandlers == {h1, h2}
FewBuffers  == {b1, b2, b3, b4, b5}
Pooled      == {b1, b2, b3, b4}
Alike       == Permutations(TwoHandlers) \cup Permutations(Pooled)

RouteModes == [up |-> "http_json_to_grpc", down |-> "grpc_to_http_json", plain |-> "none"]

A(status, header, trailer, readable) ==
  [status |-> status, header |-> header, trailer |-> trailer, readable |-> readable]
Fine == A(200, None, 0, TRUE)
AllAnswers ==
  {Fine, A(200, 0, None, TRUE), A(200, None, 0, FALSE), A(404, None, None, TRUE), A(502, None, None, FALSE)}
    \cup {A(200, c, None, FALSE) : c \in -1 .. 17 \ {0}} \cup {A(200, None, c, TRUE) : c \in 1 .. 16}

\* Requests that look for the descriptor while it is rewritten, and end there; requests
\* that share few buffers; and every answer to every kind of route.
SmallScenarios ==
  {[file |-> f, routes |-> {"up", "down"}, buffers |-> {}, answers |-> {}, requests |-> 2, faults |-> TRUE, warm |-> FALSE] :
     f \in {<<"good", "methodless", "good">>, <<"good", "missing", "malformed">>}}
  \cup {[file |-> <<"good">>, routes |-> {"up"}, buffers |-> {b1, b2, b3, b5}, answers |-> {Fine},
         requests |-> 3, faults |-> FALSE, warm |-> TRUE]}
  \cup {[file |-> <<"good">>, routes |-> DOMAIN RouteModes, buffers |-> {b1, b2, b5}, answers |-> AllAnswers,
         requests |-> 1, faults |-> TRUE, warm |-> FALSE]}
=============================================================================
