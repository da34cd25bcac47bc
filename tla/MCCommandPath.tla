---------------------------- MODULE MCCommandPath ----------------------------
(* Error sets for the runs of CommandPath: none beyond those the commands   *)
(* themselves cause; or one of each origin, one of them told to the web.    *)
EXTENDS CommandPath

None      == {}
AnyOrigin == {"PARSE_ERROR", "UART_INVALID_CMD", "FRAME_NULL"}
=============================================================================
