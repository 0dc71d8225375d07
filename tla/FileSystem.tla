----------------------------- MODULE FileSystem -----------------------------
(***************************************************************************)
(* The directory tree below the storage root, as far as std::filesystem    *)
(* and std::fstream expose it to the storage code: names bound to files or *)
(* directories, and files that outlive their name while a stream still has *)
(* them open.  This is the program's environment, modelled from how        *)
(* DiskObjectStorage, DiskWriteSession and DiskReadSession use it.         *)
(*                                                                         *)
(* A value fs has two fields: fs.dir binds each name below the root, and   *)
(* fs.data holds the bytes of each file.  The operators are functions from *)
(* file systems to file systems, so that a handler which makes several     *)
(* calls composes them into one step.                                      *)
(***************************************************************************)
EXTENDS Integers, Sequences

CONSTANTS
    Names,      \* names below the root, relative and normalised
    Ancestors,  \* Ancestors[n]: the directories between the root and n
    Inodes,     \* numbers of files; enough for all names and open streams
    Missing,    \* a name that is not bound
    Directory,  \* a name bound to a directory
    Bytes,      \* what one byte of a file can be
    Hole        \* a byte never written, between two writes at offsets

ASSUME FileSystemAssumption ==
    /\ Ancestors \in [Names -> SUBSET Names]
    /\ Inodes \subseteq Nat
    /\ Missing \notin Inodes /\ Directory \notin Inodes /\ Missing # Directory
    /\ Hole \in Bytes

FileSystems == [dir : [Names -> Inodes \cup {Missing, Directory}],
                data : [Inodes -> Seq(Bytes)]]

emptyRoot == [dir |-> [n \in Names |-> Missing],
              data |-> [i \in Inodes |-> <<>>]]

-----------------------------------------------------------------------------
is_regular_file(fs, n) == fs.dir[n] \in Inodes

exists(fs, n) == fs.dir[n] # Missing

contents(fs, n) == fs.data[fs.dir[n]]

\* create_directories(parent of n) fails exactly when an ancestor is a file.
parentsCreatable(fs, n) == \A m \in Ancestors[n] : ~is_regular_file(fs, m)

create_directories(fs, n) ==
    [fs EXCEPT !.dir = [m \in Names |-> IF m \in Ancestors[n] THEN Directory
                                                             ELSE fs.dir[m]]]

\* Inodes neither bound to a name nor held open by a stream in `open'.
unused(fs, open) ==
    {i \in Inodes \ open : \A n \in Names : fs.dir[n] # i}

\* The inode a truncating open of n gets: the one n is bound to, or the
\* first unused one; none when n is a directory.
openable(fs, n, open) ==
    CASE is_regular_file(fs, n) -> {fs.dir[n]}
      [] fs.dir[n] = Missing    -> {i \in unused(fs, open) :
                                       \A j \in unused(fs, open) : i <= j}
      [] OTHER                  -> {}

openTrunc(fs, n, i) ==
    [dir |-> [fs.dir EXCEPT ![n] = i], data |-> [fs.data EXCEPT ![i] = <<>>]]

\* A write at an offset past the end leaves a hole before it.
overlay(old, offset, new) ==
    LET end == offset + Len(new)
    IN  [k \in 1 .. (IF end > Len(old) THEN end ELSE Len(old)) |->
            IF offset < k /\ k <= end THEN new[k - offset]
            ELSE IF k <= Len(old) THEN old[k]
            ELSE Hole]

write(fs, i, offset, bytes) ==
    [fs EXCEPT !.data = [fs.data EXCEPT ![i] = overlay(@, offset, bytes)]]

\* remove takes files and empty directories away.
removable(fs, n) ==
    /\ exists(fs, n)
    /\ \A m \in Names : n \in Ancestors[m] => ~exists(fs, m)

unbind(fs, n) == [fs EXCEPT !.dir = [fs.dir EXCEPT ![n] = Missing]]

remove(fs, n) == IF removable(fs, n) THEN unbind(fs, n) ELSE fs

\* rename of a file replaces a file of the new name but no directory.
renamable(fs, from, to) ==
    is_regular_file(fs, from) /\ fs.dir[to] # Directory

rename(fs, from, to) ==
    [fs EXCEPT !.dir = [fs.dir EXCEPT ![from] = Missing, ![to] = fs.dir[from]]]

\* The bytes of a file with no name and no open stream are gone.
reclaim(fs, open) ==
    [fs EXCEPT !.data = [i \in Inodes |-> IF i \in unused(fs, open)
                                          THEN <<>> ELSE fs.data[i]]]
=============================================================================
