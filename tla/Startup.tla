------------------------------- MODULE Startup -------------------------------
(***************************************************************************)
(* How ncxs and ncxc come up: ncxs from its configuration file; ncxc from a  *)
(* file with its services (--local), or from one that names a gateway        *)
(* (--remote), which it asks for the services over HTTP.                     *)
(*                                                                           *)
(* Files and answers are what the parsers of TOML and JSON make of them:     *)
(* objects whose fields hold a value, are Absent, or are Bad (of another     *)
(* type). A thrown exception is the exit or the abort it ends in. The model  *)
(* enters ncxc at Cli::parse, called as the try block of Cli::Parse intends. *)
(***************************************************************************)
EXTENDS Integers, Sequences

CONSTANTS
    Absent, Bad,    \* a field that is not there, a field of the wrong type
    Empty,          \* a file with no key in it; a body with no byte in it
    Unreadable,     \* a file that does not load; a body that is not JSON
    ServerFiles,    \* the contents of ncxs' file
    ClientFiles,    \* the contents of ncxc's file
    Answers,        \* what a gateway may answer
    Timeout         \* the 30 seconds of expires_after, in ticks

ASSUME StartupAssumption == Timeout \in Nat \ {0}

\* The parsers give a list for the services, and numbers for the ports they find.
Services(ss) ==
    /\ Len(ss) \in Nat /\ DOMAIN ss = 1..Len(ss)
    /\ \A i \in DOMAIN ss :
          ss[i] # Bad => {ss[i].service_port, ss[i].proxy_port} \subseteq Int \cup {Absent, Bad}

ASSUME ParsersAssumption ==
    /\ \A f \in ClientFiles : f \in {Unreadable, Empty} \/ Services(f.services)
    /\ \A j \in Answers : j \in {Unreadable, Empty} \/ j.services \in {Absent, Bad} \/ Services(j.services)

VARIABLES
    prog,       \* "ncxs" or "ncxc"
    opts,       \* the options on ncxc's command line
    config,       \* the content of the configuration file
    pc,         \* where the program is, or how it ended
    op,         \* the session's pending operation, "none" once run() can return
    left,       \* ticks until the stream's timer expires, -1 when it is not set
    waited,     \* ticks spent on the session
    failed,     \* fail() was called before the answer was complete
    body,       \* the body of res_
    args,       \* the server's address, and the services to offer, once known
    up          \* number of control channels connected

startupVars == <<prog, opts, config, pc, op, left, waited, failed, body, args, up>>

Ended == {"exit0", "exit1", "abort"}
Session == <<op, left, waited, failed, body>>

StartupInit ==
    /\ \/ prog = "ncxs" /\ opts = {} /\ config \in ServerFiles
       \/ prog = "ncxc" /\ opts \in SUBSET {"help", "version", "local", "remote", "unknown"}
            /\ config \in ClientFiles
    /\ pc = "main"
    /\ op = "none" /\ left = -1 /\ waited = 0 /\ failed = FALSE /\ body = Empty
    /\ args = <<>>
    /\ up = 0

-----------------------------------------------------------------------------
(* model.h. Numbers keep their low 16 bits as ports, whatever their type was *)
(* on the way.                                                             *)

Given(v) == v \notin {Absent, Bad}

\* A cast that stops at the largest port.
Saturate(v) == IF v > 65535 THEN 65535 ELSE v
uint16(v) == v % 65536

ServiceInfo_valid(j) ==
    /\ j # Bad
    /\ Given(j.service_name) /\ Given(j.service_addr) /\ Given(j.service_port) /\ Given(j.proxy_port)

\* Both loops over the services throw at the first that is not a complete one.
AllValid(services) == \A i \in DOMAIN services : ServiceInfo_valid(services[i])

\* The answer holds what parse accepts: services are optional, each complete.
GetServiceResp_valid(j) ==
    /\ j \notin {Empty, Unreadable}
    /\ j.services # Bad
    /\ j.services # Absent => AllValid(j.services)
    /\ j.server_addr # Bad /\ j.server_port # Bad

GetServiceResp_from_json(j) ==
    [services |-> IF j.services = Absent THEN <<>> ELSE j.services,
     server_addr |-> IF j.server_addr = Absent THEN "" ELSE j.server_addr,
     server_port |-> IF j.server_port = Absent THEN 0 ELSE j.server_port]

-----------------------------------------------------------------------------
(* cli.h and the main functions.                                           *)

Ends(how) == pc' = how /\ UNCHANGED <<prog, opts, config, Session, args, up>>
GoesTo(where) == pc' = where /\ UNCHANGED <<prog, opts, config, Session, args, up>>

\* Cli::parse. An error thrown is caught in Cli::Parse, which exits.
Cli_parse ==
    /\ prog = "ncxc" /\ pc = "main"
    /\ \/ "unknown" \in opts /\ Ends("exit1")
       \/ /\ "unknown" \notin opts
          /\ \/ opts \cap {"help", "version"} # {} /\ Ends("exit0")
             \/ opts \cap {"help", "version"} = {} /\ "local" \in opts /\ GoesTo("local")
             \/ opts = {"remote"} /\ GoesTo("remote")
             \/ opts = {} /\ Ends("exit1")

\* ncxs' main: nothing catches what the constructor of ServerConfig throws, nor
\* what parseAsServerArgs throws before its try.
ncxs_main ==
    /\ prog = "ncxs" /\ pc = "main"
    /\ IF config \in {Unreadable, Empty} THEN Ends("abort") ELSE GoesTo("server")

parseAsServerArgs ==
    /\ pc = "server"
    /\ \/ /\ config.server # Bad
          /\ Given(config.server_ip) /\ Given(config.server_port) /\ Given(config.backlog)
          /\ args' = <<[addr |-> config.server_ip, port |-> uint16(config.server_port)], <<>>>>
          /\ pc' = "listen"
          /\ UNCHANGED <<prog, opts, config, Session, up>>
       \/ /\ \/ config.server = Bad \/ ~Given(config.server_ip)
             \/ ~Given(config.server_port) \/ ~Given(config.backlog)
          /\ Ends("exit1")

\* The NServer constructor binds and listens, or errif exits.
NServer ==
    /\ pc = "listen"
    /\ GoesTo("run") \/ Ends("exit1")

-----------------------------------------------------------------------------
(* ClientConfig, from the file alone.                                      *)

\* The arguments of one control channel.
ChannelArgs(s) == [name |-> s.service_name, addr |-> s.service_addr,
                   port |-> uint16(s.service_port), proxy_port |-> uint16(s.proxy_port)]
ArgsOf(addr, port, services) ==
    <<[addr |-> addr, port |-> uint16(port)],
      [i \in DOMAIN services |-> ChannelArgs(services[i])]>>

LocalValid ==
    /\ config \notin {Unreadable, Empty}
    /\ config.client # Bad
    /\ Given(config.server_ip) /\ Given(config.server_port)
    /\ AllValid(config.services)

handleLocalConfig ==
    /\ pc = "local"
    /\ \/ /\ LocalValid
          /\ args' = ArgsOf(config.server_ip, config.server_port, config.services)
          /\ pc' = "connect"
          /\ UNCHANGED <<prog, opts, config, Session, up>>
       \/ ~LocalValid /\ Ends("exit1")

-----------------------------------------------------------------------------
(* ClientConfig, from the gateway: the HTTP session in http_client.h, and     *)
(* fail in code.h, which only logs. The pending operation completes with a   *)
(* result, an error, or when the timer expires.                            *)

RemoteValid ==
    /\ config \notin {Unreadable, Empty}
    /\ config.client # Bad
    /\ Given(config.gateway_ip) /\ Given(config.gateway_port) /\ Given(config.token)

Get ==
    /\ op' = "resolve"
    /\ UNCHANGED <<left, waited, failed, body>>

handleRemoteTunnel ==
    /\ pc = "remote"
    /\ \/ /\ RemoteValid
          /\ Get
          /\ pc' = "session"
          /\ UNCHANGED <<prog, opts, config, args, up>>
       \/ ~RemoteValid /\ Ends("exit1")

Pending(what) == pc = "session" /\ op = what

fail ==
    /\ op' = "none"
    /\ failed' = TRUE
    /\ UNCHANGED <<prog, opts, config, pc, left, waited, body, args, up>>

Then(next, timer) ==
    /\ op' = next
    /\ left' = timer
    /\ UNCHANGED <<prog, opts, config, pc, waited, failed, body, args, up>>

\* A callback that starts the connect without setting the timer.
NoTimer == Pending("resolve") /\ (Then("connect", left) \/ fail)
on_resolve == Pending("resolve") /\ (Then("connect", Timeout) \/ fail)
on_connect == Pending("connect") /\ (Then("write", Timeout) \/ fail)

\* A callback that sets the timer anew for the read.
RestartTimer == Pending("write") /\ (Then("read", Timeout) \/ fail)
on_write == Pending("write") /\ (Then("read", left) \/ fail)

\* A read that leaves in res_ what it got before it failed.
PartialBody ==
    /\ Pending("read")
    /\ body' \in Answers
    /\ op' = "none"
    /\ failed' \in BOOLEAN
    /\ UNCHANGED <<prog, opts, config, pc, left, waited, args, up>>

\* A complete response is moved to res_, whatever its status; then the shutdown,
\* whose failure changes nothing.
on_read ==
    /\ Pending("read")
    /\ \/ /\ body' \in Answers
          /\ op' = "none"
          /\ UNCHANGED <<prog, opts, config, pc, left, waited, failed, args, up>>
       \/ fail

\* tcp_stream completes the pending operation with an error when the timer is up.
Expires == pc = "session" /\ op \in {"connect", "write", "read"} /\ left = 0 /\ fail

Tick ==
    /\ pc = "session" /\ op \in {"connect", "write", "read"}
    /\ left > 0
    /\ left' = left - 1
    /\ waited' = waited + 1
    /\ UNCHANGED <<prog, opts, config, pc, op, failed, body, args, up>>

\* run() returns when nothing is pending; the body is parsed.
RunReturns ==
    /\ pc = "session" /\ op = "none"
    /\ \/ /\ GetServiceResp_valid(body)
          /\ LET resp == GetServiceResp_from_json(body)
             IN  args' = ArgsOf(resp.server_addr, resp.server_port, resp.services)
          /\ pc' = "connect"
          /\ UNCHANGED <<prog, opts, config, Session, up>>
       \/ ~GetServiceResp_valid(body) /\ Ends("exit1")

\* NClient::parse_args starts the control channels one after the other; one that
\* cannot connect ends the process.
parse_args ==
    /\ pc = "connect"
    /\ up < Len(args[2])
    /\ \/ /\ up' = up + 1
          /\ UNCHANGED <<prog, opts, config, pc, Session, args>>
       \/ Ends("exit1")

run_client == pc = "connect" /\ up = Len(args[2]) /\ GoesTo("run")

SessionStep == on_connect \/ on_write \/ on_read
Step ==
    \/ Cli_parse \/ ncxs_main \/ parseAsServerArgs \/ NServer
    \/ handleLocalConfig \/ handleRemoteTunnel
    \/ on_resolve \/ Expires \/ RunReturns
    \/ parse_args \/ run_client

StartupNext == Step \/ SessionStep \/ Tick

\* The program's own steps are taken and time passes; the resolver answers, as
\* getaddrinfo gives up by itself. A gateway need not answer anything.
StartupSpec == StartupInit /\ [][StartupNext]_startupVars /\ WF_startupVars(Step) /\ WF_startupVars(Tick)

-----------------------------------------------------------------------------
(* Properties.                                                             *)

\* Where the services come from, and port p as the low 16 bits of the number v.
Source == IF "local" \in opts THEN config ELSE GetServiceResp_from_json(body)
IsPort(p, v) == p \in Nat /\ p < 65536 /\ (v - p) % 65536 = 0

\* The channels are the services, one for one.
Offers(channels, services) ==
    /\ Len(channels) = Len(services)
    /\ \A i \in DOMAIN services :
          /\ channels[i].name = services[i].service_name
          /\ channels[i].addr = services[i].service_addr
          /\ IsPort(channels[i].port, services[i].service_port)
          /\ IsPort(channels[i].proxy_port, services[i].proxy_port)

\* ncxc connects a control channel for each service of the file or of the answer,
\* in order and each complete, or for none: an entry it cannot read stops it
\* before the first connection, in both branches.
AllOrNothing ==
    prog = "ncxc" /\ (up > 0 \/ pc = "run") => Offers(args[2], Source.services)

\* A session that failed at any stage offers nothing: fail() only logs, and the
\* empty body is what stops ncxc.
FailureStops == failed => up = 0 /\ pc \in {"session", "exit1"}

\* The gateway keeps ncxc for at most one timeout to connect and one for the
\* exchange: on_write leaves the timer of on_connect running.
TwoTimeouts == waited <= 2 * Timeout

\* Whatever the file, the command line and the gateway, the program comes up or
\* ends.
ComesUpOrEnds == <>(pc \in Ended \cup {"run"})

=============================================================================
