-------------------------------- MODULE Text --------------------------------
(***************************************************************************)
(* Strings as sequences of characters, with what the parsers use of the    *)
(* standard library.  Positions count from 1; find answers 0 for npos.     *)
(* None stands for an exception or an empty optional.                      *)
(***************************************************************************)
EXTENDS Integers, FiniteSetsExt, SequencesExt

CONSTANTS
    None,
    INT_MAX,        \* the widths of int and of long, which also gives
    LONG_MAX        \* unsigned long and size_t

digits == <<"0", "1", "2", "3", "4", "5", "6", "7", "8", "9">>
CRLF == <<"\r", "\n">>
Space == {" ", "\t", "\r", "\n"}

\* toupper and tolower, on the letters that have two cases here.
Cases == {[lower |-> "s", upper |-> "S"], [lower |-> "l", upper |-> "L"]}
toUpper(s) == [i \in DOMAIN s |->
    IF \E c \in Cases : c.lower = s[i]
    THEN (CHOOSE c \in Cases : c.lower = s[i]).upper ELSE s[i]]
toLower(s) == [i \in DOMAIN s |->
    IF \E c \in Cases : c.upper = s[i]
    THEN (CHOOSE c \in Cases : c.upper = s[i]).lower ELSE s[i]]

from(s, i) == SubSeq(s, i, Len(s))

find(s, pattern, start) ==
    LET n == Len(pattern)
        at == {i \in start .. (Len(s) - n + 1) : SubSeq(s, i, i + n - 1) = pattern}
    IN  IF at = {} THEN 0 ELSE Min(at)

\* The number of leading characters that are in chars.
span(s, chars) == Max({k \in 0 .. Len(s) : \A i \in 1 .. k : s[i] \in chars})

\* The last piece with one more character.
extend(pieces, c) == [pieces EXCEPT ![Len(pieces)] = Append(@, c)]

\* The pieces between separators.
split(s, separators) ==
    LET upTo[k \in 0 .. Len(s)] ==
            IF k = 0 THEN << <<>> >>
            ELSE IF s[k] \in separators THEN Append(upTo[k - 1], <<>>)
            ELSE extend(upTo[k - 1], s[k])
    IN  upTo[Len(s)]

\* The pieces that are not empty.
words(s, separators) ==
    LET upTo[k \in 0 .. Len(s)] ==
            IF k = 0 THEN <<>>
            ELSE IF s[k] \in separators THEN upTo[k - 1]
            ELSE IF k = 1 THEN << <<s[k]>> >>
            ELSE IF s[k - 1] \in separators THEN Append(upTo[k - 1], <<s[k]>>)
            ELSE extend(upTo[k - 1], s[k])
    IN  upTo[Len(s)]

-----------------------------------------------------------------------------
(* Numbers *)

\* The number that a sequence of digits denotes.
valueOf(s) ==
    LET upTo[k \in 0 .. Len(s)] ==
            IF k = 0 THEN 0
            ELSE 10 * upTo[k - 1] + (CHOOSE d \in 0 .. 9 : digits[d + 1] = s[k])
    IN  upTo[Len(s)]

\* What strtol and strtoul read: blanks, a sign, digits; the rest is ignored.
number(s) ==
    LET t == from(s, span(s, Space) + 1)
        signed == t # <<>> /\ t[1] \in {"+", "-"}
        u == IF signed THEN Tail(t) ELSE t
        read == SubSeq(u, 1, span(u, ToSet(digits)))
    IN  IF read = <<>> THEN None
        ELSE [negative |-> signed /\ t[1] = "-", size |-> valueOf(read)]

within(n, max) ==
    IF n = None THEN None
    ELSE LET v == IF n.negative THEN -n.size ELSE n.size
         IN  IF v \in (-max - 1) .. max THEN v ELSE None

stoi(s) == within(number(s), INT_MAX)
stol(s) == within(number(s), LONG_MAX)

\* stoul and stoull negate modulo the word.
stoul(s) ==
    LET n == number(s)
        word == 2 * LONG_MAX + 2
    IN  IF n = None THEN None
        ELSE IF n.size >= word THEN None
        ELSE IF n.negative THEN (word - n.size) % word ELSE n.size

decimal[n \in Nat] ==
    IF n < 10 THEN <<digits[n + 1]>>
    ELSE Append(decimal[n \div 10], digits[(n % 10) + 1])

to_string(n) == IF n < 0 THEN <<"-">> \o decimal[-n] ELSE decimal[n]
=============================================================================
