--------------------------- MODULE ArgumentParser ---------------------------
(***************************************************************************)
(* ArgumentParser and ServerConfig.  An argument is a string; the options  *)
(* are strings of one symbol.                                              *)
(***************************************************************************)
EXTENDS Text

CONSTANT MaxPort        \* 65535

optionOf(arg) ==
    CASE arg \in {<<"--port">>, <<"-p">>} -> "port"
      [] arg \in {<<"--capacity">>, <<"-c">>} -> "capacityMB"
      [] arg \in {<<"--path">>, <<"-P">>} -> "storagePath"
      [] arg \in {<<"--help">>, <<"-h">>} -> "showHelp"
      [] OTHER -> "unknown"

ServerConfig ==
    [port |-> 8000, capacityMB |-> 200, storagePath |-> <<"default">>, showHelp |-> FALSE]

exit == [pending |-> "exit", config |-> ServerConfig]

nextValueAsPort(value) ==
    LET n == stoi(value)
    IN  IF n = None THEN None ELSE IF n \in 0 .. MaxPort THEN n ELSE None

nextValueAsSize(value) == stoul(value)

\* The value of the option that is pending.
nextValue(s, value) ==
    LET v == CASE s.pending = "port" -> nextValueAsPort(value)
               [] s.pending = "capacityMB" -> nextValueAsSize(value)
               [] OTHER -> value
    IN  IF v = None THEN exit
        ELSE [pending |-> "none", config |-> [s.config EXCEPT ![s.pending] = v]]

nextOption(s, arg) ==
    LET option == optionOf(arg)
    IN  CASE option = "unknown" -> exit
          [] option = "showHelp" -> [s EXCEPT !.config.showHelp = TRUE]
          [] OTHER -> [s EXCEPT !.pending = option]

\* Slip: an argument that is an option is never taken for a value.
parseOptionsFirst(args) ==
    LET step(s, arg) ==
            IF s.pending = "exit" THEN s
            ELSE IF s.pending = "none" \/ optionOf(arg) # "unknown" THEN nextOption(s, arg)
            ELSE nextValue(s, arg)
        end == FoldLeft(step, [pending |-> "none", config |-> ServerConfig], args)
    IN  IF end.pending = "none" THEN end.config ELSE None

\* The configuration, or None for exit(1): also when the last option lacks
\* its value.
parse(args) ==
    LET step(s, arg) ==
            CASE s.pending = "exit" -> s
              [] s.pending = "none" -> nextOption(s, arg)
              [] OTHER -> nextValue(s, arg)
        end == FoldLeft(step, [pending |-> "none", config |-> ServerConfig], args)
    IN  IF end.pending = "none" THEN end.config ELSE None
=============================================================================
