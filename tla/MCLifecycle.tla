----------------------------- MODULE MCLifecycle -----------------------------
(* Instances of NodeLifecycle for TLC.                                     *)
EXTENDS NodeLifecycle

\* The default of flush_every is 10.  Two records fill the buffer in these
\* instances, so that four rounds see two flushes by the loop.
SmallBuffer == 2
=============================================================================
