--------------------------- MODULE CacheContract ---------------------------
(***************************************************************************)
(* What one ContentCache instance (packages/history/src/cache.ts) promises *)
(* its owner: every call is one step, and a directory shared with other    *)
(* processes sits behind it.  Content and its id are identified: the id is *)
(* a 128-bit digest of the content, so a content is modelled by the value  *)
(* that names it.  ContentCache.tla opens the calls up and implements this *)
(* module; Compactor.tla is built on it.                                   *)
(***************************************************************************)
CONSTANT Contents    \* the byte strings that may be stored

VARIABLES
    memo,            \* contents the instance holds in memory
    disk             \* contents that can be read back from the cache directory

cacheVars == <<memo, disk>>

CacheTypeOK == memo \subseteq Contents /\ disk \subseteq Contents

CacheInit == memo = {} /\ disk \in SUBSET Contents

\* put: the memo already has the content, so the call returns the id at once.
PutHits(c) == c \in memo /\ UNCHANGED cacheVars

\* Mutant: put leaves the memo to a later get.
PutStoresDiskOnly(c) ==
    /\ c \notin memo
    /\ disk' = disk \cup {c}
    /\ UNCHANGED memo

\* Mutant: put leaves the disk to later.
PutStoresMemoOnly(c) ==
    /\ c \notin memo
    /\ memo' = memo \cup {c}
    /\ UNCHANGED disk

\* put: the memo is filled first, then the entry is written and renamed.
PutStores(c) ==
    /\ c \notin memo
    /\ memo' = memo \cup {c}
    /\ disk' = disk \cup {c}

Put(c) == PutHits(c) \/ PutStores(c)

\* put: mkdir, write or rename throws; the memo keeps the content.
PutFails(c) ==
    /\ c \notin memo
    /\ memo' = memo \cup {c}
    /\ UNCHANGED disk

\* get: memo, else disk (which fills the memo), else undefined.
Get(c) ==
    /\ memo' = IF c \in disk THEN memo \cup {c} ELSE memo
    /\ UNCHANGED disk

\* A new instance over the same directory: a restart, or /clear.
Reopen == memo' = {} /\ UNCHANGED disk

\* Another process stores contents in the same directory.
StoredElsewhere ==
    /\ disk' \in {disk \cup {c} : c \in Contents}
    /\ UNCHANGED memo

CacheNext ==
    \/ \E c \in Contents : Put(c) \/ PutFails(c) \/ Get(c)
    \/ Reopen
    \/ StoredElsewhere

CacheSpec == CacheInit /\ [][CacheNext]_cacheVars
=============================================================================
