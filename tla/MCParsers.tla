------------------------------ MODULE MCParsers ------------------------------
EXTENDS Parsers

text(messages) == FoldLeft(LAMBDA s, m : s \o m.text, <<>>, messages)
jobOf(what, messages) ==
    [kind |-> what, text |-> text(messages),
     messages |-> [i \in DOMAIN messages |-> messages[i].is]]

\* A text with one character replaced, left out or added.
edits(s, chars) ==
    LET at(i, new, skip) == SubSeq(s, 1, i - 1) \o new \o SubSeq(s, i + skip, Len(s))
    IN  {at(i, <<c>>, 1) : i \in DOMAIN s, c \in chars}
        \cup {at(i, <<>>, 1) : i \in DOMAIN s}
        \cup {at(i, <<c>>, 0) : i \in 1 .. (Len(s) + 1), c \in chars}
edited(what, texts, chars) ==
    {[kind |-> what, text |-> e, messages |-> <<>>] : e \in UNION {edits(s, chars) : s \in texts}}

-----------------------------------------------------------------------------
message(s, commands) ==
    [text |-> s, is |-> [length |-> Len(s), content |-> [commands |-> commands]]]
array(items) == message(Resp!handleKeys(items), items)
refusal(s, why) == message(s, << <<"ERROR:", "ERR ", why>> >>)

Values ==
    {<<>>, <<"a">>, Resp!CRLF, <<"$", "1">>, <<"\r", "\n", "$">>, <<"*", "1", "\r", "\n">>}
Replies ==
    {message(Resp!putResultToReply("Ok"), << <<"OK">> >>),
     message(Resp!pong, << <<"PONG">> >>),
     message(Resp!nil, << <<>> >>),
     message(Resp!setNxResultToReply("Inserted"), << <<"INT:", "1">> >>),
     message(Resp!setNxResultToReply("AlreadyExists"), << <<"INT:", "0">> >>),
     refusal(Resp!putResultToReply("CapacityExceeded"), "capacity exceeded"),
     refusal(Resp!setNxResultToReply("InvalidPath"), "invalid path"),
     refusal(Resp!putResultToReply("FailedToWrite"), "unknown error")}
    \cup {message(Resp!bulkString(v), <<v>>) : v \in Values}
    \cup {message(Resp!simpleString(v), <<v>>) : v \in {<<>>, <<"a", "\r">>, <<"\n">>, <<"*">>}}
    \cup {array(<<>>), array(<< <<"a">>, <<"a", "a">> >>)}
Requests ==
    {array(<<Resp!SET, <<"k">>, v>>) : v \in Values} \cup {array(<<Resp!SETNX, <<>>, <<"a">> >>)}
LargeSet == Resp!handleKeys(<< <<"s">>, <<"k">>, <<"a", "\r", "\n">> >>)

MCRespJobs ==
    {jobOf("resp", <<m>> \o <<n>>) : m \in Replies \cup Requests, n \in Replies \cup Requests}
    \cup edited("resp", {LargeSet \o Resp!pong, Resp!handleKeys(<<Resp!SETNX, <<"$">> >>)},
                {"*", "$", "+", ":", "-", "0", "1", "3", "8", "\r", "\n", "s", " "})

-----------------------------------------------------------------------------
request(method, head, body) ==
    LET s == method \o <<" ", "k", " ", "v">> \o Http!CRLF \o head \o Http!CRLF \o body
    IN  [text |-> s,
         is |-> [length |-> Len(s),
                 content |-> [method |-> method, path |-> <<"k">>, body |-> body]]]
field(value) == <<"L", ":">> \o value \o Http!CRLF
HttpRequests ==
    {request(<<"G", "E", "T">>, <<>>, <<>>),
     request(Http!PUT, field(<<"0">>), <<>>),
     request(Http!PUT, <<"x", ":">> \o Http!CRLF \o field(<<" ", "3">>), <<"\r", "\n", "a">>),
     request(Http!PUT, field(<<"9">>) \o field(<<"4", "x">>), Http!CRLF \o Http!CRLF)}

MCHttpJobs ==
    {jobOf("http", <<m>> \o <<n>>) : m \in HttpRequests, n \in HttpRequests}
    \cup edited("http",
                {request(Http!PUT, field(<<" ", "3">>), <<"a", "\r", "\n">>).text \o Http!PUT,
                 request(Http!PUT, field(<<"\t", "-", "2", "0">>), <<"a">>).text},
                {"P", " ", "\t", ":", "-", "1", "8", "\r", "\n", "l"})

-----------------------------------------------------------------------------
MCPathJobs ==
    {[kind |-> "path", text |-> s, messages |-> <<>>] : s \in [1 .. 6 -> {"/", ".", "a"}]}
MCRoots ==
    {<<"/", "d">>, <<"d">>, <<".", ".", "/", "d">>, <<"/">>,
     <<"d", "/">>, <<".", "/", "d">>, <<"d", "/", ".">>, <<".">>}

setting(option, arg, value, is) ==
    [text |-> <<arg, value>>, is |-> [length |-> 2, option |-> option, value |-> is]]
Settings ==
    {setting("port", <<"-p">>, <<"5">>, 5),
     setting("port", <<"--port">>, <<" ", "4", "x">>, 4),
     setting("port", <<"-p">>, <<"6">>, None),
     setting("port", <<"-p">>, <<"-p">>, None),
     setting("capacityMB", <<"-c">>, <<"9">>, 9),
     setting("capacityMB", <<"--capacity">>, <<"-", "1">>, 2 * LONG_MAX + 1),
     setting("capacityMB", <<"-c">>, <<"9", "9">>, None),
     setting("storagePath", <<"-P">>, <<"-p">>, <<"-p">>),
     setting("storagePath", <<"--path">>, <<"d">>, <<"d">>),
     [text |-> << <<"-h">> >>, is |-> [length |-> 1, option |-> "showHelp", value |-> TRUE]],
     [text |-> << <<"x">> >>, is |-> [length |-> 1, option |-> "none", value |-> None]]}
MCArgJobs == {jobOf("args", <<a, b, c>>) : a \in Settings, b \in Settings, c \in Settings}
=============================================================================
