---------------------------- MODULE MCAccessLog ----------------------------
(* Three valid configs with three log levels. *)
EXTENDS AccessLog, TLC

MCLevelOf == "v1" :> Info @@ "v2" :> Warn @@ "cut" :> Debug
=============================================================================
