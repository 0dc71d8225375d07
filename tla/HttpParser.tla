----------------------------- MODULE HttpParser -----------------------------
(***************************************************************************)
(* HttpParser on characters, and the choice of HttpProtocolHandler between *)
(* a streamed and a collected body.  The name of the Content-Length header *)
(* is shortened to one letter; of a request the method, the path, that     *)
(* header and the body are kept.                                           *)
(***************************************************************************)
EXTENDS Text

CONSTANTS kMaxHeaderSectionSize, kMaxBodySize, kStreamingThreshold

kContentLength == <<"l">>
PUT == <<"P", "U", "T">>

incomplete ==
    [result |-> "Incomplete", method |-> <<>>, path |-> <<>>, contentLength |-> None,
     body |-> <<>>, consumed |-> 0]
error == [incomplete EXCEPT !.result = "Error"]

\* Method, path and version; what follows them is ignored.
parseRequestLine(line) ==
    LET w == words(line, Space)
    IN  IF Len(w) < 3 THEN None ELSE [method |-> w[1], path |-> w[2]]

parseHeaderLine(line) ==
    LET colon == find(line, <<":">>, 1)
        value == from(line, colon + 1)
    IN  IF colon = 0 THEN None
        ELSE [name |-> toLower(SubSeq(line, 1, colon - 1)),
              value |-> from(value, span(value, {" "}) + 1)]

\* The lines of the header section, without the CR at their end.
linesOf(section) ==
    LET lines == split(section, {"\n"})
    IN  [i \in DOMAIN lines |->
            IF lines[i] # <<>> /\ Last(lines[i]) = "\r" THEN Front(lines[i]) ELSE lines[i]]

\* The lines behind the first that are not empty.
headerLines(lines) == {i \in 2 .. Len(lines) : lines[i] # <<>>}

\* The last header of that name.
header(lines, name) ==
    LET at == {i \in headerLines(lines) : parseHeaderLine(lines[i]).name = name}
    IN  IF at = {} THEN None ELSE parseHeaderLine(lines[Max(at)]).value

parseHeadersOnly(b) ==
    LET headerEnd == find(b, CRLF \o CRLF, 1)
        lines == linesOf(SubSeq(b, 1, headerEnd - 1))
        request == parseRequestLine(lines[1])
    IN  IF headerEnd = 0
        THEN IF Len(b) > kMaxHeaderSectionSize THEN error ELSE incomplete
        ELSE IF request = None THEN error
        ELSE IF \E i \in headerLines(lines) : parseHeaderLine(lines[i]) = None THEN error
        ELSE [result |-> "Complete", method |-> request.method, path |-> request.path,
              contentLength |-> header(lines, kContentLength), body |-> <<>>,
              consumed |-> headerEnd + 3]

\* Slip: the body is asked to be longer than the announced length.
takeBodyOffByOne(b, h, length) ==
    IF length = None THEN error
    ELSE IF length \notin 0 .. kMaxBodySize THEN error
    ELSE IF Len(b) <= h.consumed + length THEN incomplete
    ELSE [h EXCEPT !.body = SubSeq(b, h.consumed + 1, h.consumed + length),
                   !.consumed = h.consumed + length]

\* parse behind the header section h, given the announced length.
takeBody(b, h, length) ==
    IF length = None THEN error
    ELSE IF length \notin 0 .. kMaxBodySize THEN error
    ELSE IF Len(b) < h.consumed + length THEN incomplete
    ELSE [h EXCEPT !.body = SubSeq(b, h.consumed + 1, h.consumed + length),
                   !.consumed = h.consumed + length]

parse(b) ==
    LET go(h) == IF h.result # "Complete" THEN h
                 ELSE takeBody(b, h, IF h.contentLength = None THEN 0 ELSE stol(h.contentLength))
    IN  go(parseHeadersOnly(b))

\* Unlike parse it reads an unsigned number, and looks for a minus sign only
\* in the first place.
parseContentLength(value) ==
    IF value = <<>> THEN None ELSE IF value[1] = "-" THEN None ELSE stoul(value)

\* onBytesReceived: the announced length and where the body starts, when the
\* body is to be streamed.
wantsStreaming(b) ==
    LET large(h, length) ==
            IF h.result # "Complete" \/ h.method # PUT \/ length = None THEN None
            ELSE IF length <= kStreamingThreshold THEN None
            ELSE [size |-> length, start |-> h.consumed + 1]
        announced(h) ==
            IF h.contentLength = None THEN 0 ELSE parseContentLength(h.contentLength)
        go(h) == large(h, announced(h))
    IN  go(parseHeadersOnly(b))
=============================================================================
