----------------------------- MODULE RespParser -----------------------------
(***************************************************************************)
(* RespParser, the header that RespProtocolHandler recognises before the   *)
(* value has arrived, and the replies of RespReply, on characters.         *)
(* Command names are shortened to one and two letters.                     *)
(***************************************************************************)
EXTENDS Text

CONSTANTS kMaxArrayElements, kStreamingThreshold

-----------------------------------------------------------------------------
(* Reading.  A reader at pos answers what it read and where the next starts. *)

holds(b, pos, type) == pos <= Len(b) /\ b[pos] = type

\* The characters from pos to the next CRLF.
line(b, pos) ==
    LET end == find(b, CRLF, pos)
    IN  IF end = 0 THEN None ELSE [data |-> SubSeq(b, pos, end - 1), next |-> end + 2]

parseSimpleString(b, pos) == IF holds(b, pos, "+") THEN line(b, pos + 1) ELSE None
parseError(b, pos) == IF holds(b, pos, "-") THEN line(b, pos + 1) ELSE None

parseInt(b, pos) ==
    LET l == line(b, pos + 1)
    IN  IF ~holds(b, pos, ":") \/ l = None THEN None
        ELSE IF stoi(l.data) = None THEN None
        ELSE [l EXCEPT !.data = to_string(stoi(l.data))]

\* Slip: the CRLF behind the data is not waited for.
parseBulkStringEarly(b, pos) ==
    LET l == line(b, pos + 1)
        length == stoi(l.data)
    IN  IF ~holds(b, pos, "$") \/ l = None THEN None
        ELSE IF length = None THEN None
        ELSE IF length = -1 THEN [data |-> <<>>, next |-> l.next]
        ELSE IF length < -1 \/ l.next + length - 1 > Len(b) THEN None
        ELSE [data |-> SubSeq(b, l.next, l.next + length - 1), next |-> l.next + length + 2]

\* A length below -1, or that is no int, is reported like missing input.  The
\* two characters behind the data are skipped, whatever they are.
parseBulkString(b, pos) ==
    LET l == line(b, pos + 1)
        length == stoi(l.data)
    IN  IF ~holds(b, pos, "$") \/ l = None THEN None
        ELSE IF length = None THEN None
        ELSE IF length = -1 THEN [data |-> <<>>, next |-> l.next]
        ELSE IF length < -1 \/ l.next + length + 1 > Len(b) THEN None
        ELSE [data |-> SubSeq(b, l.next, l.next + length - 1), next |-> l.next + length + 2]

incomplete == [result |-> "Incomplete", commands |-> <<>>, consumed |-> 0]
error == [incomplete EXCEPT !.result = "Error"]
complete(commands, next) ==
    [result |-> "Complete", commands |-> commands, consumed |-> next - 1]

\* One turn of parseArray's loop, on what the turns before it made.
readElement(b, a) ==
    LET e == CASE holds(b, a.consumed + 1, "$") -> parseBulkString(b, a.consumed + 1)
               [] holds(b, a.consumed + 1, "+") -> parseSimpleString(b, a.consumed + 1)
               [] holds(b, a.consumed + 1, ":") -> parseInt(b, a.consumed + 1)
               [] OTHER -> None
    IN  IF a.result # "Complete" THEN a
        ELSE IF a.consumed >= Len(b) THEN incomplete
        ELSE IF b[a.consumed + 1] \notin {"$", "+", ":"} THEN error
        ELSE IF e = None THEN incomplete
        ELSE complete(Append(a.commands, e.data), e.next)

parseArray(b) ==
    LET l == line(b, 2)
        count == stoi(l.data)
        read[i \in 0 .. count] ==
            IF i = 0 THEN complete(<<>>, l.next) ELSE readElement(b, read[i - 1])
    IN  IF l = None THEN incomplete
        ELSE IF count = None THEN error
        ELSE IF count \notin 0 .. kMaxArrayElements THEN error
        ELSE read[count]

parse(b) ==
    LET one(prefix, e) ==
            IF e = None THEN incomplete ELSE complete(<<prefix \o e.data>>, e.next)
    IN  CASE b = <<>> -> incomplete
          [] holds(b, 1, "*") -> parseArray(b)
          [] holds(b, 1, "$") -> one(<<>>, parseBulkString(b, 1))
          [] holds(b, 1, "+") -> one(<<>>, parseSimpleString(b, 1))
          [] holds(b, 1, "-") -> one(<<"ERROR:">>, parseError(b, 1))
          [] holds(b, 1, ":") -> one(<<"INT:">>, parseInt(b, 1))
          [] OTHER -> one(<<>>, line(b, 1))

-----------------------------------------------------------------------------
(* The header of a large SET or SETNX *)

SET == <<"S">>
SETNX == <<"S", "N">>

\* Slip: one character too many is skipped behind the header.
tryBeginStreamingShifted(b) ==
    LET count == line(b, 1)
        command == parseBulkString(b, count.next)
        key == parseBulkString(b, command.next)
        value == line(b, key.next + 1)
        length == stol(value.data)
    IN  IF count = None \/ count.data # <<"*", "3">> \/ command = None THEN None
        ELSE IF toUpper(command.data) \notin {SET, SETNX} \/ key = None THEN None
        ELSE IF ~holds(b, key.next, "$") \/ value = None THEN None
        ELSE IF length = None \/ length <= kStreamingThreshold THEN None
        ELSE [setnx |-> toUpper(command.data) = SETNX, key |-> key.data,
              size |-> length, start |-> value.next + 1]

\* What tryBeginStreamingSetValue recognises: command, key, announced size and
\* where the value starts.
tryBeginStreaming(b) ==
    LET count == line(b, 1)
        command == parseBulkString(b, count.next)
        key == parseBulkString(b, command.next)
        value == line(b, key.next + 1)
        length == stol(value.data)
    IN  IF count = None \/ count.data # <<"*", "3">> \/ command = None THEN None
        ELSE IF toUpper(command.data) \notin {SET, SETNX} \/ key = None THEN None
        ELSE IF ~holds(b, key.next, "$") \/ value = None THEN None
        ELSE IF length = None \/ length <= kStreamingThreshold THEN None
        ELSE [setnx |-> toUpper(command.data) = SETNX, key |-> key.data,
              size |-> length, start |-> value.next]

-----------------------------------------------------------------------------
(* Replies *)

simpleString(s) == <<"+">> \o s \o CRLF
ok == simpleString(<<"OK">>)
pong == simpleString(<<"PONG">>)
replyError(message) == <<"-", "ERR ">> \o message \o CRLF
integer(n) == <<":">> \o to_string(n) \o CRLF
bulkString(s) == <<"$">> \o to_string(Len(s)) \o CRLF \o s \o CRLF
nil == <<"$", "-", "1">> \o CRLF
arrayHeader(n) == <<"*">> \o to_string(n) \o CRLF

putResultToReply(result) ==
    CASE result = "Ok" -> ok
      [] result = "CapacityExceeded" -> replyError(<<"capacity exceeded">>)
      [] result = "InvalidPath" -> replyError(<<"invalid path">>)
      [] OTHER -> replyError(<<"unknown error">>)

setNxResultToReply(result) ==
    CASE result = "Inserted" -> integer(1)
      [] result = "AlreadyExists" -> integer(0)
      [] result = "CapacityExceeded" -> replyError(<<"capacity exceeded">>)
      [] result = "InvalidPath" -> replyError(<<"invalid path">>)
      [] OTHER -> replyError(<<"unknown error">>)

\* The reply to KEYS.
handleKeys(keys) == FoldLeft(LAMBDA r, k : r \o bulkString(k), arrayHeader(Len(keys)), keys)
=============================================================================
