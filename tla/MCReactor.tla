----------------------------- MODULE MCReactor -----------------------------
(* Two schedulers: one runs the fiber a, which closes, opens, cancels, yields *)
(* and does file operations, the other b1, which waits in every way, and b2,  *)
(* which waits, closes and cancels.                                           *)
EXTENDS Reactor, TLC
CONSTANTS a, b1, b2, sa, sb
MCHome == (a :> sa) @@ (b1 :> sb) @@ (b2 :> sb)
MCMay ==
  (a :> {"close", "open", "cancel", "yield", "file"}) @@ (b1 :> {"read", "wait", "file"})
    @@ (b2 :> {"wait", "close", "cancel"})
=============================================================================
