------------------------------- MODULE Startup -------------------------------
(***************************************************************************)
(* What the agent accepts as its configuration before it listens           *)
(* (chronos-agent/src/config.rs, tls.rs, crypto.rs and main.rs).           *)
(***************************************************************************)

\* Hosts by what Rust and the resolver make of them.  An address is a host, in
\* brackets or not, with a port or without.
V4 == {"127.0.0.1", "0.0.0.0"}
V6 == {"::1", "::"}
Name == {"localhost", "127.0.0.1.evil.com"}
Loopback == {"127.0.0.1", "::1"}
Address == [host : V4 \cup V6 \cup Name, brackets : BOOLEAN, port : BOOLEAN]

\* A configured path to a file, and what is at its end: a good key has mode 0600 and
\* the length that is wanted.
Path == {"unset", "missing", "open to others", "wrong length", "good"}

TlsConfig == [enabled : BOOLEAN, certificates : Path, agent_key_path : Path]
Config == [enabled : BOOLEAN, key_path : Path, api_addr : Address, tls : TlsConfig]

\* Mutant: the text of an address is searched for a loopback address.
IsLoopbackOnlyByText(addr) == addr.host \in Loopback \cup {"127.0.0.1.evil.com"}

\* is_loopback_only: up to the last colon, less brackets, it parses as a loopback
\* address.  The last colon of an IPv6 address without a port is the address's own.
IsLoopbackOnly(addr) == addr.host \in Loopback /\ (addr.host \in V6 => addr.port)

\* ChronosConfig::validate.
Validate(cfg) ==
    /\ cfg.enabled => cfg.key_path # "unset"
    /\ ~cfg.enabled => IsLoopbackOnly(cfg.api_addr)

\* validate_tls_config; the listener speaks plain HTTP either way.
ValidateTlsConfig(tls) ==
    tls.enabled =>
        /\ tls.certificates \notin {"unset", "missing"}
        /\ tls.agent_key_path \notin {"unset", "missing", "open to others"}

\* load_auth_key, through read_secret_file.
LoadAuthKey(path) == path \notin {"unset", "missing", "open to others", "wrong length"}

\* TcpListener::bind, and who can reach the socket.
Binds(addr) == addr.port /\ (addr.brackets => addr.host \in V6)
Reach(addr) == IF addr.host \in Loopback \cup {"localhost"} THEN "host" ELSE "network"

\* main, up to the listener.
Starts(cfg) ==
    /\ Validate(cfg)
    /\ ValidateTlsConfig(cfg.tls)
    /\ cfg.enabled => LoadAuthKey(cfg.key_path)
    /\ Binds(cfg.api_addr)
==============================================================================
