------------------------------- MODULE MCEnvd -------------------------------
EXTENDS Envd, TLC

CONSTANTS c1, c2

Mixed == (c1 :> {"stream", "exec", "pty", "connect"}) @@ (c2 :> {"exec"})
OneNone == (c1 :> 1) @@ (c2 :> 0)
=============================================================================
