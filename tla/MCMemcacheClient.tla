-------------------------- MODULE MCMemcacheClient --------------------------
(***************************************************************************)
(* Instances of MemcacheClient for TLC: one server, two servers on two     *)
(* hosts with one key each, and two servers on one host, of which only the *)
(* second is ever used.                                                    *)
(***************************************************************************)
EXTENDS MemcacheClient

CONSTANTS ha, hb, k1, k2, v

At1(h) == [host |-> h, port |-> 1]
At2(h) == [host |-> h, port |-> 2]

MCConfigured == {<<At1(ha)>>, <<At1(ha), At1(hb)>>, <<At1(ha), At2(ha)>>}
MCScore == [h \in Host |-> [k \in Key |-> IF (h = ha) = (k = k1) THEN 2 ELSE 1]]
MCKeyList == {<<k1, k2>>}
=============================================================================
