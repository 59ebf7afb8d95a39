-------------------------- MODULE MCSessionRegistry --------------------------
(* Small instances of SessionRegistry for TLC.                              *)
EXTENDS SessionRegistry, TLC

CONSTANTS ann, bob, eve, c1, c2, c3

\* ann and bob, and a third connection on which somebody wants to be bob.
MCNick == (c1 :> ann @@ c2 :> bob @@ c3 :> bob)

\* Nobody shares a name.
MCNickDistinct == (c1 :> ann @@ c2 :> bob @@ c3 :> eve)
=============================================================================
