--------------------------- MODULE MCScriptBridge ---------------------------
(* Two addresses, one of them broken and the handler's, and two values for  *)
(* the other registers; runs of one or two opcodes, up to three of them     *)
(* inside one another.                                                      *)
EXTENDS ScriptBridge

MCPc == {0, 1}
MCData == {0, 1}
MCVectors == {1}
MCBroken == {1}
=============================================================================
