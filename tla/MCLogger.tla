----------------------------- MODULE MCLogger -----------------------------
(* What MCLogger.cfg needs: one message of each kind of line. *)
EXTENDS Logger, TLC

CONSTANTS m1, m2, m3

Levels == m1 :> "INFO" @@ m2 :> "ERROR" @@ m3 :> "DEBUG"
=============================================================================
