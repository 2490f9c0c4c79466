----------------------------- MODULE MCEmulator -----------------------------
(* Module PlainApp with every call an app may make.                         *)
EXTENDS PlainApp

MCAllCalls == {"timerStart", "timerStop", "runFile", "exit", "background",
               "foreground", "oldPack", "hooks"}
=============================================================================
