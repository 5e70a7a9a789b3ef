------------------------------ MODULE MCStartup ------------------------------
(* Files and answers: the valid ones, with ports inside and outside 16 bits, *)
(* and for every field one that lacks it and one that has the wrong type.  *)
EXTENDS Startup

\* r with one field made Absent or Bad.
Broken(r) == {[r EXCEPT ![f] = v] : f \in DOMAIN r, v \in {Absent, Bad}}
UpTo2(S) == {<<>>} \cup {<<s>> : s \in S} \cup {<<s, t>> : s \in S, t \in S}

Web == [service_name |-> "web", service_addr |-> "a", service_port |-> 80, proxy_port |-> 8080]
Ssh == [service_name |-> "ssh", service_addr |-> "b", service_port |-> 65558, proxy_port |-> -1]
Entries == {Web, Ssh} \cup Broken(Web)

Server == [server |-> "s", server_ip |-> "a", server_port |-> 65616, backlog |-> 128]
MCServerFiles == {Unreadable, Empty, Server, [Server EXCEPT !.server = Bad]} \cup
    {[Server EXCEPT ![f] = v] : f \in {"server_ip", "server_port", "backlog"}, v \in {Absent, Bad}}

Local == [client |-> "c", server_ip |-> "a", server_port |-> 65616, services |-> <<Web>>,
          gateway_ip |-> Absent, gateway_port |-> Absent, token |-> Absent]
Remote == [client |-> "c", server_ip |-> Absent, server_port |-> Absent, services |-> <<>>,
           gateway_ip |-> "g", gateway_port |-> 80, token |-> "t"]
MCClientFiles == {Unreadable, Empty, Remote, [Local EXCEPT !.client = Bad]} \cup
    {[Local EXCEPT ![f] = v] : f \in {"server_ip", "server_port"}, v \in {Absent, Bad}} \cup
    {[Remote EXCEPT ![f] = v] : f \in {"gateway_ip", "gateway_port", "token"}, v \in {Absent, Bad}}
    \cup {[Local EXCEPT !.services = ss] : ss \in UpTo2(Entries) \cup {<<Bad>>, <<Web, Bad>>}}

Answer(ss, addr, port) == [services |-> ss, server_addr |-> addr, server_port |-> port]
MCAnswers == {Empty, Unreadable} \cup
    {Answer(ss, addr, port) : ss \in UpTo2(Entries) \cup {Absent, Bad, <<Web, Bad>>},
                              addr \in {"a", Absent, Bad}, port \in {80, 65616, Absent, Bad}}

=============================================================================
