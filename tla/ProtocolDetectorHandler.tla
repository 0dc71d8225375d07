----------------------- MODULE ProtocolDetectorHandler -----------------------
(***************************************************************************)
(* How ProtocolDetectorHandler tells RESP from HTTP, on characters.        *)
(***************************************************************************)
EXTENDS Text

methodNames == {<<"G", "E", "T">>, <<"P", "U", "T">>, <<"D", "E", "L", "E", "T", "E">>}

isRespPrefix(c) == c \in {"+", "-", ":", "$", "*"}

\* Slip: part of a method is taken for something else.
isHttpImpatient(d) ==
    IF \E name \in methodNames : IsPrefix(Append(name, " "), d) THEN "Match" ELSE "NoMatch"

isHttp(d) ==
    LET agreeing == {m \in {Append(name, " ") : name \in methodNames} :
                        LET n == Min({Len(d), Len(m)})
                        IN  SubSeq(d, 1, n) = SubSeq(m, 1, n)}
    IN  IF \E m \in agreeing : Len(d) >= Len(m) THEN "Match"
        ELSE IF agreeing # {} THEN "NeedMoreData" ELSE "NoMatch"

\* onBytesReceived without a delegate.
chosen(d) ==
    IF d = <<>> THEN "NeedMoreData"
    ELSE IF isRespPrefix(d[1]) THEN "Resp" ELSE isHttp(d)
=============================================================================
