------------------------------ MODULE MCGstBus ------------------------------
(* GstBus for TLC: one thread posts, the main loop pops, the application's *)
(* own thread does both.                                                   *)
EXTENDS GstBus

CONSTANTS streaming, main, app, m1, m2

MCThreads == {streaming, main, app}
MCPosters == {streaming, app}
MCPoppers == {main, app}
MCMessages == {m1, m2}
MCUnwanted == {m2}
=============================================================================
