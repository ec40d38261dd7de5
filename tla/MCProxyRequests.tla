--------------------------- MODULE MCProxyRequests ---------------------------
(* One retry; all the attempts together take at most three ticks.          *)
EXTENDS ProxyRequests, TLC

CONSTANTS q1, q2

BegunOnce == <<0, Timeout + BackoffUnit>>
=============================================================================
