----------------------- MODULE MCRespProtocolHandler ------------------------
(* Clients of the RESP handler.  Buffers have two bytes and values three.  *)
EXTENDS RespProtocolHandler

request(kind, head, value, tail) ==
    [kind |-> kind, head |-> head, value |-> value, tail |-> tail]

short == request("short", 1, 0, 0)
get == request("get", 2, 0, 0)
empty == request("empty", 1, 0, 0)
set == request("large", 2, 3, 2)
bad_ == request("bad", 2, 0, 0)
stuck == request("stuck", 2, 0, 0)

Scripts(S, n) == UNION {[1 .. k -> S] : k \in 1 .. n}
Sends(s, pipelining, faults) ==
    [script |-> s, pipelining |-> pipelining, faults |-> faults]

\* So many short commands at once that a large value and what follows it are
\* all in m_incomingBuffer when its turn comes.
Backlog == {[k \in 1 .. 7 |-> short] \o <<set>> \o s :
               s \in {<<short>>, <<get, short>>, <<bad_>>, <<bad_, get>>}}

Pipelined == {Sends(s, TRUE, {"later"}) :
                 s \in Scripts({get, empty, stuck, set}, 3) \cup Backlog}
\* Malformed input after at most two good requests.
Broken == {Append(s, bad_) : s \in {<<>>} \cup Scripts({get, set}, 2)}
             \cup {<<set, stuck>>, <<stuck, short>>}
Polite == {Sends(s, FALSE, {"later"}) : s \in Scripts({short, get, set}, 3) \cup Broken}
setShort == request("large", 1, 3, 2)
Failing == {Sends(s, TRUE, {"first"}) : s \in {<<set, get>>, <<get, set>>, <<setShort, setShort>>}}

\* One request with a bulk length that is no number.
OneStuck == {Sends(<<stuck>>, FALSE, {})}

MCClients == Pipelined \cup Polite \cup Failing
=============================================================================
