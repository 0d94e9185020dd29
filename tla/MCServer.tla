------------------------------ MODULE MCServer ------------------------------
(* A small instance of Server for TLC. *)
EXTENDS Server, TLC

CONSTANTS c1, c2, p1, p2, p3

Word == [ip |-> FALSE, long |-> FALSE, parts |-> <<"word", "empty">>]
V6 == [ip |-> TRUE, long |-> FALSE, parts |-> <<"other">>]
BadHost == [ip |-> FALSE, long |-> FALSE, parts |-> <<"word", "hyphen">>]
Empty == [ip |-> FALSE, long |-> FALSE, parts |-> <<"empty">>]
TooLong == [ip |-> FALSE, long |-> TRUE, parts |-> <<"word">>]

Socket(a, p) == [address |-> a, port_value |-> p]
GoodSocket == Socket(Word, 65535)
Sockets == {Nil, GoodSocket, Socket(V6, 0), Socket(Word, 65536)}
           \union {Socket(h, 1) : h \in {BadHost, Empty, TooLong}}

Duration(v, s, n) == [valid |-> v, seconds |-> s, nanos |-> n]
GoodDuration == Duration(TRUE, 0, 0)
Durations == {Nil, GoodDuration, Duration(TRUE, -1, 0), Duration(FALSE, 1, 1)}

Admins == {Nil} \union {[address |-> s] : s \in Sockets}
Times == {Unset, Garbled, Seconds(-1), Seconds(5)}
Upstream(s, t, j, k) ==
    [address |-> s, stream_timeout |-> t, stream_timeout_jitter |-> j, keep_alive_time |-> k]
Upstreams == {Nil} \union {Upstream(s, Unset, Unset, Unset) : s \in Sockets}
             \union {Upstream(GoodSocket, t, j, k) : t \in Times, j \in Times, k \in {Unset, Garbled}}
Loggings == {Nil} \union {[path |-> p, level |-> l] : p \in {"", "file"}, l \in {"INFO", "7"}}
Caches == {Nil} \union {[ttl |-> d] : d \in Durations}
Statsds == {Nil} \union {[address |-> s, root_prefix |-> "p", flush_interval |-> GoodDuration] : s \in Sockets}
           \union {[address |-> GoodSocket, root_prefix |-> p, flush_interval |-> d] :
                     p \in {"", "p"}, d \in Durations}
Sinks == {Nil} \union {[statsd |-> m] : m \in Statsds}

Plain == [server |-> [address |-> GoodSocket], origin_server |-> Upstream(GoodSocket, Unset, Unset, Unset),
          logging |-> [path |-> "", level |-> "INFO"], cache |-> [ttl |-> GoodDuration],
          metrics_sink |-> [statsd |-> [address |-> GoodSocket, root_prefix |-> "p",
                                        flush_interval |-> GoodDuration]],
          admin |-> [address |-> GoodSocket]]

\* The plain configuration with one of its messages replaced.
Boots ==
    {[Plain EXCEPT !.server = m] : m \in Admins}
    \union {[Plain EXCEPT !.admin = m] : m \in Admins}
    \union {[Plain EXCEPT !.origin_server = m] : m \in Upstreams}
    \union {[Plain EXCEPT !.logging = m] : m \in Loggings}
    \union {[Plain EXCEPT !.cache = m] : m \in Caches}
    \union {[Plain EXCEPT !.metrics_sink = m] : m \in Sinks}
=============================================================================
