---------------------------- MODULE ObjectTypes -----------------------------
(* What the storage interfaces of IObjectStorage.h have in common: object  *)
(* paths, sizes in a machine word and std::optional.                       *)
EXTENDS Integers, FiniteSets

CONSTANTS
    Paths,      \* the strings clients may use as object paths
    W,          \* size_t holds 0 .. W-1 (W is 2^64 in the program)
    nullopt     \* std::nullopt

ASSUME PathsAssumption == IsFiniteSet(Paths)
ASSUME WAssumption == W \in Nat \ {0}
ASSUME NulloptAssumption == nullopt \notin Nat

size_t == 0 .. (W - 1)
=============================================================================
