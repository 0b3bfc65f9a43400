---------------------------- MODULE MCSysfsPoll ----------------------------
(* Two writers and one client: echo john, 7, 7890 and 12345.               *)
EXTENDS SysfsPoll

CONSTANTS w1, w2

John == [digits |-> 0, chars |-> 5, number |-> 0]
Seven == [digits |-> 1, chars |-> 2, number |-> 7]
Four == [digits |-> 4, chars |-> 5, number |-> 7890]
Many == [digits |-> 5, chars |-> 6, number |-> 12345]

MCRequests ==
  {<<w1, "notify", Many>>, <<w1, "trigger", John>>,
   <<w2, "notify", Four>>, <<w2, "trigger", Seven>>}
=============================================================================
