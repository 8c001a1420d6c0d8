----------------------------- MODULE MCJobPool -----------------------------
(***************************************************************************)
(* Deques of different sizes, so that one small instance has a deque with  *)
(* several jobs and can fill them all.                                     *)
(***************************************************************************)
EXTENDS JobPool

Sizes == [w \in 0 .. N - 1 |-> w + 1]

\* Bound of a run: what follows an overlapping push is explored where the run is about
\* it.
Undisturbed == ~overlapped
=============================================================================
