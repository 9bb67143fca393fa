---------------------------- MODULE MCLoggerLab2 ----------------------------
(* The instance of LoggerLab2 for TLC: main as it is.                      *)
EXTENDS LoggerLab2
=============================================================================
