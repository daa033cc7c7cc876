---------------------------- MODULE MCThreadPool ----------------------------
(* Three workers and eight inputs, so that the ring wraps around twice; the *)
(* fifth input throws, and the eighth is for the worker that failed.        *)
EXTENDS ThreadPool

FifthFaulty == {4}
=============================================================================
