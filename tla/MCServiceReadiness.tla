------------------------- MODULE MCServiceReadiness -------------------------
EXTENDS ServiceReadiness

AllOn == [workers |-> TRUE, context |-> 2, manifests |-> TRUE, secrets |-> TRUE, redis |-> TRUE]

\* Everything on, workers not required and no Redis, no context runtime, one
\* of the two only, and two incomplete set-ups.
MCSettings ==
  {AllOn, [AllOn EXCEPT !.workers = FALSE, !.redis = FALSE], [AllOn EXCEPT !.context = 0],
   [AllOn EXCEPT !.context = 1], [AllOn EXCEPT !.manifests = FALSE], [AllOn EXCEPT !.secrets = FALSE]}
=============================================================================
