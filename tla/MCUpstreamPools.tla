-------------------------- MODULE MCUpstreamPools --------------------------
(* Instances of UpstreamPools. *)
EXTENDS UpstreamPools

CONSTANTS r1, r2, d, e, x, y, t1, t2, t3, c1, c2

MCVettings == {{x}, {y}, {x, y}}
=============================================================================
