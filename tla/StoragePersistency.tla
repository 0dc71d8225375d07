------------------------- MODULE StoragePersistency -------------------------
(***************************************************************************)
(* The size index of Core/Storage/Persistency/StoragePersistency.cpp: for  *)
(* every stored path its size in bytes, and the running total of those     *)
(* sizes.  The total is kept incrementally in a size_t, so all arithmetic  *)
(* on it is modulo W (2^64 in the program, a small number in the runs).    *)
(*                                                                         *)
(* m_sizes is the std::unordered_map: a function whose domain is the set   *)
(* of indexed paths.  Each public method holds m_lock for its whole body,  *)
(* so it is one step.                                                      *)
(***************************************************************************)
EXTENDS ObjectTypes

VARIABLES m_sizes, m_totalBytes

indexVars == <<m_sizes, m_totalBytes>>

\* All contents the map can have.
Indexes == UNION {[S -> size_t] : S \in SUBSET Paths}

-----------------------------------------------------------------------------
(***************************************************************************)
(* TotalOf(f) is the sum of the sizes in f, as the number of <<path,       *)
(* offset>> pairs it accounts for.  A cardinality needs no recursion, so   *)
(* the provers can reason about it.                                        *)
(***************************************************************************)
BytesOf(f) == {b \in (DOMAIN f) \X size_t : b[2] < f[b[1]]}
TotalOf(f) == Cardinality(BytesOf(f))

With(f, path, size) ==
    [k \in DOMAIN f \cup {path} |-> IF k = path THEN size ELSE f[k]]

Without(f, path) == [k \in DOMAIN f \ {path} |-> f[k]]

contains(path) == path \in DOMAIN m_sizes

objectSize(path) == IF contains(path) THEN m_sizes[path] ELSE nullopt

\* objectSize(path).value_or(0)
sizeOrZero(path) == IF contains(path) THEN m_sizes[path] ELSE 0

-----------------------------------------------------------------------------
\* A plausible slip in upsert: the old size of an overwritten path is not
\* taken back from the total.
upsertKeepsOld(path, size) ==
    /\ m_sizes' = With(m_sizes, path, size)
    /\ m_totalBytes' = (m_totalBytes + size) % W

\* Another: the sum is formed in a type wider than size_t.
upsertUnwrapped(path, size) ==
    /\ m_sizes' = With(m_sizes, path, size)
    /\ m_totalBytes' = m_totalBytes - sizeOrZero(path) + size

upsert(path, size) ==
    /\ m_sizes' = With(m_sizes, path, size)
    /\ m_totalBytes' = (m_totalBytes - sizeOrZero(path) + size) % W

\* erase of a path that is not in the map changes nothing and returns false.
erase(path) ==
    /\ m_sizes' = Without(m_sizes, path)
    /\ m_totalBytes' = (m_totalBytes - sizeOrZero(path)) % W

\* rebuildIndexUnlocked: both fields are cleared, then every file found on
\* disk is entered with its size.
refresh(found) ==
    /\ m_sizes' = found
    /\ m_totalBytes' = TotalOf(found) % W

-----------------------------------------------------------------------------
IndexInit == /\ m_sizes \in Indexes
             /\ m_totalBytes = TotalOf(m_sizes) % W

(***************************************************************************)
(* The index on its own, for any caller and any disk: the walk may find    *)
(* whatever files there are.  The engine's walk is scan of its own disk.   *)
(***************************************************************************)
Upsert == \E path \in Paths, size \in size_t : upsert(path, size)
Erase == \E path \in Paths : erase(path)
Refresh == \E found \in Indexes : refresh(found)

IndexNext == Upsert \/ Erase \/ Refresh

IndexSpec == IndexInit /\ [][IndexNext]_indexVars

-----------------------------------------------------------------------------
\* Both fields stay in the range of their C++ types.
IndexTypeOK == /\ m_sizes \in Indexes
               /\ m_totalBytes \in size_t

\* The total that upsert and erase adjust by differences, and refresh
\* rebuilds, never drifts from the sum of the indexed sizes: it is that sum
\* modulo the width of size_t, after any sequence of calls and even when a
\* difference wraps around below zero or above the top of the word.
TotalMatchesIndex == m_totalBytes = TotalOf(m_sizes) % W
=============================================================================
