------------------------------ MODULE Parsers -------------------------------
(***************************************************************************)
(* The pure algorithms, each given a text that grows by one character (one *)
(* argument, for the command line) per step, as a connection delivers it.  *)
(* A job has a text and, when it was put together from messages, what they *)
(* were and how long each is.                                              *)
(***************************************************************************)
EXTENDS Text

CONSTANTS
    kMaxArrayElements, kStreamingThreshold, kMaxHeaderSectionSize, kMaxBodySize, MaxPort,
    RespJobs, HttpJobs, PathJobs, ArgJobs,      \* [kind, text, messages]
    Roots               \* storage roots, as they may be spelled

Resp == INSTANCE RespParser
Http == INSTANCE HttpParser
Detector == INSTANCE ProtocolDetectorHandler
Disk == INSTANCE PathMapping
Args == INSTANCE ArgumentParser

\* The scaled widths and limits have the order of the real ones.
ASSUME LimitsAssumption ==
    /\ {INT_MAX, LONG_MAX, kMaxArrayElements, kStreamingThreshold, kMaxBodySize} \subseteq Nat
    /\ 3 <= kMaxArrayElements /\ 3 <= INT_MAX /\ MaxPort < INT_MAX
    /\ kStreamingThreshold < INT_MAX /\ INT_MAX < LONG_MAX
    /\ INT_MAX < kMaxBodySize /\ kMaxBodySize < LONG_MAX

\* Texts are sequences of characters.  The constructor of DiskObjectStorage
\* does not return for a root that is empty.
ASSUME JobsAssumption ==
    /\ \A j \in RespJobs \cup HttpJobs \cup PathJobs :
           j.kind \in {"resp", "http", "path"} /\ j.text \in Seq(STRING)
    /\ \A j \in ArgJobs : j.kind = "args" /\ j.text \in Seq(Seq(STRING))
    /\ \A r \in Roots : r \in Seq(STRING) /\ r # <<>>

\* An exception or an empty optional is no value.
ASSUME NoneAssumption ==
    /\ None \notin Int
    /\ None \notin [negative : BOOLEAN, size : Nat]
    /\ None \notin [data : Seq(STRING), next : Nat]
    /\ None \notin [absolute : BOOLEAN, names : Seq(Seq(STRING)), slash : BOOLEAN]

\* Bytes from further on in a method and the blank behind it match no method,
\* which HttpProtocolHandler takes for granted of its detector.
ASSUME NoMethodInAMethod ==
    \A name \in Detector!methodNames : \A i \in 2 .. (Len(name) + 1) :
        \A j \in i .. (Len(name) + 1) :
            Detector!chosen(SubSeq(Append(name, " "), i, j)) = "NoMatch"

VARIABLES job, fed

vars == <<job, fed>>
buffer == SubSeq(job.text, 1, fed)

Init ==
    /\ \/ job \in RespJobs \/ job \in HttpJobs \/ job \in PathJobs \/ job \in ArgJobs
    /\ fed = 0

\* m_incomingBuffer.append, of one character.
Feed == fed < Len(job.text) /\ fed' = fed + 1 /\ UNCHANGED job

Spec == Init /\ [][Feed]_vars

-----------------------------------------------------------------------------
(* Properties *)

terminated(b) == Http!find(b, Http!CRLF \o Http!CRLF, 1) # 0

final(open, verdict, later) == verdict # open => later = verdict

\* A verdict on part of the input is not taken back when more of it arrives:
\* not the protocol, not a command, its arguments or its length, not the
\* start of a streamed value, not an error.  Only the limit on a header
\* section is for input that has not shown its end yet.
VerdictsFinal ==
    [][\A b \in {buffer}, longer \in {buffer'} :
        /\ job.kind = "resp" =>
            /\ final(Resp!incomplete, Resp!parse(b), Resp!parse(longer))
            /\ final(None, Resp!tryBeginStreaming(b), Resp!tryBeginStreaming(longer))
        /\ job.kind = "http" /\ terminated(b) =>
            /\ final(Http!incomplete, Http!parse(b), Http!parse(longer))
            /\ Http!wantsStreaming(longer) = Http!wantsStreaming(b)
        /\ job.kind \in {"resp", "http"} =>
               final("NeedMoreData", Detector!chosen(b), Detector!chosen(longer))
      ]_vars

offset(i) == MapThenSumSet(LAMBDA k : job.messages[k].length, 1 .. (i - 1))

\* The settings given so far, the last of an option counting.
settingsGiven(k) ==
    IF \E i \in 1 .. k : job.messages[i].value = None THEN None
    ELSE [o \in DOMAIN Args!ServerConfig |->
             LET set == {i \in 1 .. k : job.messages[i].option = o}
             IN  IF set = {} THEN Args!ServerConfig[o] ELSE job.messages[Max(set)].value]

\* out is what a parser says of message i and what came behind it.
foundWhole(i, out) ==
    IF fed < offset(i + 1) THEN out.result = "Incomplete"
    ELSE /\ out.result = "Complete" /\ out.consumed = job.messages[i].length
         /\ \A f \in DOMAIN job.messages[i].content : out[f] = job.messages[i].content[f]

\* What was put together is read back.  Of replies and requests one behind
\* the other each is found where it starts, complete with its last character
\* and not before, with the content it was made of, whatever characters an
\* argument or a body has; a command line gives every option its last value,
\* also one that looks like an option, and is refused when one is no number.
ReadsBack ==
    /\ job.kind = "resp" => \A i \in DOMAIN job.messages :
           foundWhole(i, Resp!parse(SubSeq(buffer, offset(i) + 1, fed)))
    /\ job.kind = "http" => \A i \in DOMAIN job.messages :
           foundWhole(i, Http!parse(SubSeq(buffer, offset(i) + 1, fed)))
    /\ job.kind = "args" => \A i \in 0 .. Len(job.messages) :
           fed = offset(i + 1) => Args!parse(buffer) = settingsGiven(i)

\* s is where a RESP value would be streamed from, out what is collected.
respAgrees(s, out) ==
    LET end == s.start + s.size + 1
    IN  s # None =>
            IF s.size > INT_MAX \/ fed < end THEN out.result = "Incomplete"
            ELSE /\ out.result = "Complete" /\ out.consumed = end
                 /\ out.commands[2] = s.key
                 /\ out.commands[3] = SubSeq(buffer, s.start, s.start + s.size - 1)

httpAgrees(s, out) ==
    LET end == s.start + s.size - 1
    IN  s # None =>
            CASE out.result = "Error" ->
                     \/ s.size > kMaxBodySize
                     \/ "-" \in ToSet(Http!parseHeadersOnly(buffer).contentLength)
              [] out.result = "Incomplete" -> fed < end
              [] OTHER -> fed >= end /\ out.consumed = end

\* The two readings of a large value agree: where streaming begins, it begins
\* at the same place, with the same key and for the same length as the parser
\* that collects the value would find, so that both continue at the same next
\* request.  The parser refuses only lengths beyond its limits (and waits
\* for ever for a RESP length beyond int), or that are negative.
StreamingAgrees ==
    /\ job.kind = "resp" => respAgrees(Resp!tryBeginStreaming(buffer), Resp!parse(buffer))
    /\ job.kind = "http" => httpAgrees(Http!wantsStreaming(buffer), Http!parse(buffer))

without(names, name) ==
    LET upTo[k \in 0 .. Len(names)] ==
            IF k = 0 THEN <<>>
            ELSE IF names[k] = name THEN upTo[k - 1] ELSE Append(upTo[k - 1], names[k])
    IN  upTo[Len(names)]

traverses(s) == \E i \in 1 .. (Len(s) - 1) :
    /\ SubSeq(s, i, i + 1) = <<".", ".">>
    /\ i > 1 => s[i - 1] = "/"
    /\ i + 1 < Len(s) => s[i + 2] = "/"

\* A root in normal form that is a name below what it starts from.
plain(root) ==
    root = Disk!lexically_normal(root) /\ ~root.slash /\ root.names # << <<".">> >>

\* Below a root in normal form exactly the relative paths without ".." are
\* accepted, each names what its names say below the root, and the key that
\* KEYS lists for a file leads back to it.  A root spelled in another way,
\* or as ".", accepts no name below it.
PathsContained ==
    job.kind = "path" => \A r \in Roots :
        LET root == Disk!asPath(r)
            file == Disk!mapPath(root, buffer)
            names == without(words(buffer, {"/"}), <<".">>)
        IN  IF ~plain(root)
            THEN file # None => file.names = root.names
            ELSE /\ (file # None) <=> (buffer # <<>> /\ buffer[1] # "/" /\ ~traverses(buffer))
                 /\ file # None => file.names = root.names \o names
                 /\ file # None /\ names # <<>> /\ ~file.slash =>
                        Disk!mapPath(root, Disk!toRelativeKey(root, file)) = file
=============================================================================
