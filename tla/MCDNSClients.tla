---------------------------- MODULE MCDNSClients ----------------------------
(* Instances of DNSClients for TLC.                                        *)
EXTENDS DNSClients
=============================================================================
