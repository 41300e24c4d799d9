----------------------------- MODULE MCShutdown -----------------------------
(* Shutdown for TLC: the shapes of three of the closers.                   *)
EXTENDS Shutdown

\* A resolver, a chat service (client, credential), and a nested composite.
Composite == <<1, 2, 2>>
=============================================================================
