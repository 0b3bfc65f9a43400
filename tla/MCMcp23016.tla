----------------------------- MODULE MCMcp23016 -----------------------------
(* Three consumers in one bank: one that sets its pin, one that makes an   *)
(* input of its own, whose level changes, and one that may be the victim   *)
(* of their races.  A transfer fails with -EREMOTEIO.                      *)
EXTENDS Mcp23016

MCConsumers == {0, 3, 5}
MCRequests ==
  {<<0, "output", TRUE>>, <<0, "set", FALSE>>, <<3, "input", FALSE>>,
   <<5, "output", TRUE>>}
MCWired == {3}
MCErrors == {121}
=============================================================================
