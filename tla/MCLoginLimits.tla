---------------------------- MODULE MCLoginLimits ----------------------------
(* Two clients, two concurrent login requests, directly or through one or  *)
(* two proxies, with honest and invented headers.                          *)
EXTENDS LoginLimits

CONSTANTS a, b, p

MCHeaders == {<<>>, <<b>>, <<p>>, <<a, Junk>>}

MCRoutes == {<<>>, <<p>>, <<p, p>>}
=============================================================================
