------------------------------ MODULE MCSessions ------------------------------
(* One end writes every second, the other now and then. *)
EXTENDS Sessions

Writes == <<9,1>>
====
