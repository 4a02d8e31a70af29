------------------------------ MODULE MCTunnel ------------------------------
(* TunnelManager and TunnelPaced on small instances.                       *)
EXTENDS TunnelPaced, TLC

\* Connections, processes and callers are interchangeable (IPs too, but AnyIP
\* fixes one of them).
Symm == Permutations(Conns) \cup Permutations(Procs) \cup Permutations(Callers)
=============================================================================
