-------------------------- MODULE MCSofficeServer --------------------------
(* Two engines one after the other, three processes, at one address.       *)
EXTENDS SofficeServer
=============================================================================
