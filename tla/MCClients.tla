----------------------------- MODULE MCClients -----------------------------
(* An instance of Clients for TLC: three windows, two producers. *)
EXTENDS Clients

CONSTANTS s1, s2, p1, p2

Windows == <<1, 2, 4>>
TwoPrdcrs == <<p1, p2>>

=============================================================================
