------------------------------ MODULE MCBrick ------------------------------
(* Brick for TLC: all its bounds are in the cfg.                           *)
EXTENDS Brick
=============================================================================
