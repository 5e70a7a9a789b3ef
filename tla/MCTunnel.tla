------------------------------ MODULE MCTunnel ------------------------------
EXTENDS Tunnel

CONSTANTS s1, s2

\* A file that gives every service a port of its own, one that gives two services
\* one port, and one with a port that is in use.
OnePortEach == [s \in Services |-> IF s = s1 THEN 6667 ELSE 6668]
OnePortForAll == [s \in Services |-> 6667]
ServersPort == [s \in Services |-> IF s = s1 THEN 6666 ELSE 6668]
OneFile == {OnePortEach}
ThreeFiles == {OnePortEach, OnePortForAll, ServersPort}
=============================================================================
