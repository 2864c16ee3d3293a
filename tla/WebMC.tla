-------------------------------- MODULE WebMC ---------------------------------
(* Small instances of the web frontend's pages for TLC. *)
EXTENDS Web

MCRoleOf    == [u \in {"guru", "rina"} |-> IF u = "guru" THEN "admin" ELSE "student"]
MCMatchedBy == [f \in {"any", "sma"} |-> IF f = "any" THEN {1, 2, 3} ELSE {2, 3}]
MCVideoOf   == <<"v1", "v2", "">>
===============================================================================
