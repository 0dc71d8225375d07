---------------------------- MODULE PathMapping -----------------------------
(***************************************************************************)
(* DiskObjectStorage::mapPath on characters, with what it uses of          *)
(* std::filesystem::path.  A path has a root directory or not, names, and  *)
(* may end in a slash; its elements are what iterating over it yields.     *)
(***************************************************************************)
EXTENDS Text

Dot == <<".">>
DotDot == <<".", ".">>

asPath(s) ==
    LET names == words(s, {"/"})
    IN  [absolute |-> s # <<>> /\ s[1] = "/", names |-> names,
         slash |-> names # <<>> /\ Last(s) = "/"]

elements(p) ==
    (IF p.absolute THEN <<<<"/">>>> ELSE <<>>) \o p.names
        \o (IF p.slash THEN <<<<>>>> ELSE <<>>)

\* operator/, for q that is not empty
append(p, q) ==
    IF q.absolute THEN q
    ELSE [absolute |-> p.absolute, names |-> p.names \o q.names, slash |-> q.slash]

lexically_normal(p) ==
    LET step(done, name) ==
            IF name = Dot THEN done
            ELSE IF name # DotDot THEN Append(done, name)
            ELSE IF done # <<>> /\ Last(done) # DotDot THEN Front(done)
            ELSE IF p.absolute THEN done ELSE Append(done, name)
        upTo[k \in 0 .. Len(p.names)] ==
            IF k = 0 THEN <<>> ELSE step(upTo[k - 1], p.names[k])
        names == upTo[Len(p.names)]
        endsOpen == p.slash \/ (p.names # <<>> /\ Last(p.names) \in {Dot, DotDot})
    IN  IF names = <<>> /\ ~p.absolute
        THEN [absolute |-> FALSE, names |-> <<Dot>>, slash |-> FALSE]
        ELSE [absolute |-> p.absolute, names |-> names,
              slash |-> names # <<>> /\ Last(names) # DotDot /\ endsOpen]

\* Slip: traversal is left to the comparison with the root.
mapPathTraverses(root, s) ==
    LET requested == asPath(s)
        target == lexically_normal(append(root, requested))
    IN  IF s = <<>> \/ requested.absolute THEN None
        ELSE IF ~IsPrefix(elements(root), elements(target)) THEN None
        ELSE target

mapPath(root, s) ==
    LET requested == asPath(s)
        target == lexically_normal(append(root, requested))
    IN  IF s = <<>> \/ requested.absolute THEN None
        ELSE IF DotDot \in ToSet(requested.names) THEN None
        ELSE IF ~IsPrefix(elements(root), elements(target)) THEN None
        ELSE target

\* The key under which keys() lists a file below root, and the index has it
\* after a start: the names below root.
toRelativeKey(root, file) ==
    LET names == from(file.names, Len(root.names) + 1)
        upTo[k \in 0 .. Len(names)] ==
            IF k = 0 THEN <<>>
            ELSE IF k = 1 THEN names[k] ELSE upTo[k - 1] \o <<"/">> \o names[k]
    IN  upTo[Len(names)]
=============================================================================
