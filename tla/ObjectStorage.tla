--------------------------- MODULE ObjectStorage ----------------------------
(***************************************************************************)
(* The in-memory store of ObjectStorage.cpp: a map from paths to bytes     *)
(* with put, del and setnx, each one atomic.  It is the simplest           *)
(* implementation of IObjectStorage and serves as the abstract             *)
(* specification of the interface: what a client may rely on, whatever is  *)
(* underneath.                                                             *)
(***************************************************************************)
EXTENDS Naturals

CONSTANTS
    Keys,       \* the non-empty paths
    Objects     \* the byte strings clients store

VARIABLE m_storage

ObjectStorageInit == m_storage = [k \in {} |-> {}]

\* m_storage[path] = std::move(bytes)
put(path, bytes) ==
    m_storage' = [k \in DOMAIN m_storage \cup {path} |->
                    IF k = path THEN bytes ELSE m_storage[k]]

del(path) ==
    /\ path \in DOMAIN m_storage
    /\ m_storage' = [k \in DOMAIN m_storage \ {path} |-> m_storage[k]]

\* try_emplace leaves a path that exists alone.
setnx(path, bytes) == path \notin DOMAIN m_storage /\ put(path, bytes)

ObjectStorageNext ==
    \E path \in Keys :
        \/ \E bytes \in Objects : put(path, bytes) \/ setnx(path, bytes)
        \/ del(path)

ObjectStorageSpec == ObjectStorageInit /\ [][ObjectStorageNext]_m_storage
=============================================================================
