----------------------- MODULE MCHttpProtocolHandler ------------------------
(* Clients of the HTTP handler.  Buffers have three bytes and bodies four. *)
EXTENDS HttpProtocolHandler

request(kind, head, value) ==
    [kind |-> kind, head |-> head, value |-> value, tail |-> 0]

short == request("short", 2, 0)
get == request("get", 3, 0)
put == request("large", 2, 4)
bad == request("bad", 3, 0)

Scripts(S, n) == UNION {[1 .. k -> S] : k \in 1 .. n}
Sends(s, pipelining, faults) ==
    [script |-> s, pipelining |-> pipelining, faults |-> faults]

\* So many short requests at once that a large body and what follows it are
\* all in m_incomingBuffer when its turn comes, in the last case with more
\* bytes behind the body than before its end.
Backlog == {[k \in 1 .. n |-> short] \o <<put>> \o s :
               n \in {6, 8, 10}, s \in {<<get>>, <<put>>, <<bad>>, <<get, short, put>>}}

Pipelined == {Sends(s, TRUE, {"write", "finish"}) : s \in Scripts({short, get, put}, 3)}
Behind == {Sends(s, TRUE, {}) : s \in Backlog}
Broken == {Append(s, bad) : s \in {<<>>} \cup Scripts({get, put}, 2)}
Polite == {Sends(s, FALSE, {"write", "finish"}) : s \in Scripts({short, get, put}, 3) \cup Broken}

MCClients == Pipelined \cup Behind \cup Polite
=============================================================================
