------------------------------- MODULE MCCard -------------------------------
(* Card with a volume of eight clusters, five of them for one code image and  *)
(* text, and every program the builder knows.                                 *)
EXTENDS Card

Large == {"basic-ram-load-probe"} \cup InitProbes

MCStubSize == [kind \in Kinds |-> IF kind \in Large THEN 3 ELSE 1]

MCSaves == {File("TEST.TXT", "none", 2), File("DW-BASIC.COD", "none", 3)}

MCBuilds == {[kind |-> kind, segment |-> 2048, limit |-> 8192, basic |-> 1] : kind \in Kinds}
              \cup {[kind |-> "basic", segment |-> 2560, limit |-> 8192, basic |-> 0]}

NoInstalls == {}
MCInstalls == {<<File("EROMCARD.X", "smoke", 1)>>,
               <<File("EROMCARD.X", "smoke", 1), File("DW-BASIC.COD", "none", 3)>>}
============================================================================
