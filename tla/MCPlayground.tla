---------------------------- MODULE MCPlayground ----------------------------
(* A small instance of Playground: the first answer comes in deltas, the    *)
(* next one in snapshots.  In RepeatedScripts the deltas repeat each other. *)
EXTENDS Playground

Formats == <<"delta", "snapshot">>
Scripts == <<<<1, 2>>, <<1, 1>>>>
RepeatedScripts == <<<<1, 1>>, <<1, 1>>>>
=============================================================================
