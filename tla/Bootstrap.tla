------------------------------ MODULE Bootstrap ------------------------------
(***************************************************************************)
(* The bootstrap configuration: what the Validate functions of its         *)
(* messages accept (pkg/api/bootstrap/v1/bootstrap.pb.validate.go), and    *)
(* what the server makes of the durations it holds.                        *)
(*                                                                         *)
(* A message is a record of its fields; Nil is a message, or an embedded   *)
(* message, that is absent.  Of a string only what some check looks at is  *)
(* kept:                                                                   *)
(*   an address is [ip |-> is it an IP address, long |-> is it longer than *)
(*   253 bytes, parts |-> what lies between its dots], each part "word",   *)
(*   "empty", "long" (more than 63 bytes), "hyphen" (at an end) or "other" *)
(*   (with a character no host name has);                                  *)
(*   a duration string is "", Garbled, or the time it stands for.          *)
(***************************************************************************)
EXTENDS Integers, Sequences

Nil == [nil |-> TRUE]
\* A duration string that time.ParseDuration rejects.
Garbled == [garbled |-> TRUE]
Unset == [unset |-> TRUE]
Seconds(n) == [nanos |-> n]

\* strings.TrimSuffix(host, ".")
Trimmed(parts) ==
    IF Len(parts) > 1 /\ parts[Len(parts)] = "empty"
    THEN SubSeq(parts, 1, Len(parts) - 1) ELSE parts

ValidHostname(host) ==
    /\ ~host.long
    /\ \A i \in DOMAIN Trimmed(host.parts) : Trimmed(host.parts)[i] = "word"

ValidSocketAddress(m) ==
    m # Nil =>
        /\ ValidHostname(m.address) \/ m.address.ip
        /\ m.port_value <= 65535

\* A required embedded message: there, and valid itself.
Required(m, Valid(_)) == m # Nil /\ Valid(m)

\* A google.protobuf.Duration: ptypes.Duration converts it, to 0 or more.
ValidDuration(d) == d.valid /\ d.seconds >= 0 /\ d.nanos >= 0

ValidServer(m) == m # Nil => Required(m.address, ValidSocketAddress)
ValidUpstream(m) == m # Nil => Required(m.address, ValidSocketAddress)
ValidAdmin(m) == m # Nil => Required(m.address, ValidSocketAddress)

Level == {"INFO", "DEBUG", "ERROR", "WARN"}
ValidLogging(m) == m # Nil => m.level \in Level

ValidCache(m) == m # Nil => Required(m.ttl, ValidDuration)

\* Mutant: the address is checked where it is given, and not required.
ValidStatsdAnyAddress(m) ==
    m # Nil =>
        /\ ValidSocketAddress(m.address)
        /\ m.root_prefix # ""
        /\ Required(m.flush_interval, ValidDuration)
ValidStatsd(m) ==
    m # Nil =>
        /\ Required(m.address, ValidSocketAddress)
        /\ m.root_prefix # ""
        /\ Required(m.flush_interval, ValidDuration)

\* The oneof of the message holds a statsd sink, or nothing.
ValidMetricsSink(m) == m # Nil => Required(m.statsd, ValidStatsd)

ValidBootstrap(m) ==
    m # Nil =>
        /\ Required(m.server, ValidServer)
        /\ Required(m.origin_server, ValidUpstream)
        /\ Required(m.logging, ValidLogging)
        /\ Required(m.cache, ValidCache)
        /\ Required(m.metrics_sink, ValidMetricsSink)
        /\ Required(m.admin, ValidAdmin)

-----------------------------------------------------------------------------
(***************************************************************************)
(* Durations given as strings.                                             *)
(***************************************************************************)
\* util.StringToDuration: whether it parses, and what it stands for.
Parses(s) == s # Garbled
StringToDuration(s, default) == IF s = Unset THEN default ELSE s.nanos

\* CallOptions.getStreamTimeout, which every attempt at a stream calls when
\* there is a timeout: rand.Int panics unless the jitter is above 0.
JitterPanics(upstream) ==
    /\ StringToDuration(upstream.stream_timeout, 0) # 0
    /\ StringToDuration(upstream.stream_timeout_jitter, 0) < 0
=============================================================================
