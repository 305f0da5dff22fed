---------------------------- MODULE SessionStore ----------------------------
(***************************************************************************)
(* The session store of src/session/mod.rs (SessionManager): an in-memory  *)
(* cache (Arc<RwLock<HashMap<String, Session>>>) in front of one JSON file *)
(* per session under storage_path, shared by concurrent tokio tasks.       *)
(*                                                                         *)
(* Every await point of a method is a step of its own, so the steps of     *)
(* different tasks interleave exactly where the runtime lets them: the     *)
(* RwLock is held only for one map operation and never across an await,   *)
(* so each cache access is atomic and nothing else is.                     *)
(*                                                                         *)
(* The callers are tasks that run the pattern of the agent loop and of the *)
(* tests: a round (get_or_create, add_message, save), get, delete, list;   *)
(* clear_cache and a process crash/restart happen at any time.  With       *)
(* KeyLock the callers hold a per-key mutual-exclusion token around every  *)
(* call on a key, the discipline the agent loop is meant to provide.       *)
(***************************************************************************)
EXTENDS Naturals, Sequences, FiniteSets

CONSTANTS
    Tasks,       \* concurrent tokio tasks calling the manager
    Keys,        \* session keys, as sequences of one-character strings
    MaxMsgs,     \* bound on the number of rounds (each appends one message)
    MaxCrashes,  \* bound on process crashes/restarts
    KeyLock,     \* TRUE iff callers serialise their calls per key
    None,        \* no entry in the cache
    NoFile,      \* no file on disk
    Empty,       \* a file just truncated by tokio::fs::write, not yet written
    Corrupt      \* a file whose bytes are not a serialized session

ASSUME TasksAssumption == Tasks # {} /\ IsFiniteSet(Tasks)
ASSUME KeysAssumption == Keys # {} /\ Keys \subseteq Seq(STRING)
ASSUME MaxMsgsAssumption == MaxMsgs \in Nat \ {0}
ASSUME MaxCrashesAssumption == MaxCrashes \in Nat
ASSUME KeyLockAssumption == KeyLock \in BOOLEAN

VARIABLES
    storage,   \* TRUE iff storage_path is Some (new / with_path)
    cache,     \* cache[k]: the cached Session of key k, or None
    disk,      \* disk[f]: contents of the file f.json, or NoFile
    pc,        \* pc[t]: the await point task t is at
    op,        \* op[t]: the call task t is making (or made last)
    key,       \* key[t]: the key argument of that call
    sess,      \* sess[t]: the Session value task t holds (its clone)
    msg,       \* msg[t]: the message task t's round appends
    handle,    \* handle[t]: the file handle of t's write is still linked
    ret,       \* ret[t]: the result of t's last call
    listed,    \* listed[t]: the keys returned by t's last list()
    nextMsg,   \* next fresh message id
    crashes,   \* crashes so far
    done       \* ghost: done[k] = messages whose save(k) returned Ok since
               \* the last delete(k)

vars == <<storage, cache, disk, pc, op, key, sess, msg, handle, ret, listed,
          nextMsg, crashes, done>>

-----------------------------------------------------------------------------
(* Data *)

\* The characters sanitize_key replaces with "_".
IllegalChars == {"/", "\\", ":", "*", "?", "\"", "<", ">", "|"}

\* SessionManager::sanitize_key: the file stem of a key.
sanitize_key(k) == [i \in DOMAIN k |-> IF k[i] \in IllegalChars THEN "_" ELSE k[i]]

\* File stems of all sessions (the files are <stem>.json under storage_path).
Files == {sanitize_key(k) : k \in Keys}

MsgIds == 1..MaxMsgs

\* A Session (session/types.rs): its key and its ordered messages.
Session == [key : Keys, msgs : Seq(MsgIds)]

\* The sentinels are not sessions and are distinct.
ASSUME SentinelAssumption ==
    /\ {None, NoFile, Empty, Corrupt} \cap Session = {}
    /\ NoFile # Empty /\ NoFile # Corrupt /\ Empty # Corrupt

\* Session::new(key)
NewSession(k) == [key |-> k, msgs |-> <<>>]

\* Session::add_message
AddMessage(s, m) == [s EXCEPT !.msgs = Append(@, m)]

\* The file contents tokio::fs::write leaves when it writes the bytes of s
\* at offset 0 of a file that holds c: s's bytes cover an older, not longer
\* document; a longer one leaves its tail behind (not valid JSON).  Sessions
\* of a file share their key and messages are of one width, so the length of
\* a document grows with its number of messages.
Written(c, s) ==
    IF c \in Session
    THEN IF Len(c.msgs) > Len(s.msgs) THEN {Corrupt} ELSE {s}
    ELSE IF c = Empty THEN {s} ELSE {s, Corrupt}

PCs == {"idle", "load_exists", "load_read", "load_insert", "create_insert",
        "save_cache", "save_truncate", "save_write",
        "del_exists", "del_remove", "list_dir"}
Ops == {"none", "round", "get", "delete", "list"}
Results == {"none", "ok", "absent", "err"}

\* Task t is in a call on key[t] (list() has no key).
InCall(t) == pc[t] \notin {"idle", "list_dir"}

\* Task t may start a call on key k: under KeyLock no other task is in a
\* call on k.
KeyFree(t, k) == KeyLock => \A u \in Tasks \ {t} : ~(InCall(u) /\ key[u] = k)

\* The file of the session t's call is about.
FileOf(t) == sanitize_key(key[t])

-----------------------------------------------------------------------------
(* Initial state: a freshly constructed manager, no files yet. *)

Init ==
    /\ storage \in BOOLEAN
    /\ cache = [k \in Keys |-> None]
    /\ disk = [f \in Files |-> NoFile]
    /\ pc = [t \in Tasks |-> "idle"]
    /\ op = [t \in Tasks |-> "none"]
    /\ key = [t \in Tasks |-> CHOOSE k \in Keys : TRUE]
    /\ sess = [t \in Tasks |-> NewSession(key[t])]
    /\ msg = [t \in Tasks |-> 1]
    /\ handle = [t \in Tasks |-> FALSE]
    /\ ret = [t \in Tasks |-> "none"]
    /\ listed = [t \in Tasks |-> {}]
    /\ nextMsg = 1
    /\ crashes = 0
    /\ done = [k \in Keys |-> {}]

-----------------------------------------------------------------------------
(* get_or_create / get *)

\* Variant: get_or_create that never looks on disk after a cache miss.
StartRoundNoDiskLoad(t, k) ==
    /\ pc[t] = "idle"
    /\ KeyFree(t, k)
    /\ nextMsg <= MaxMsgs
    /\ op' = [op EXCEPT ![t] = "round"]
    /\ key' = [key EXCEPT ![t] = k]
    /\ msg' = [msg EXCEPT ![t] = nextMsg]
    /\ nextMsg' = nextMsg + 1
    /\ ret' = [ret EXCEPT ![t] = "none"]
    /\ \/ /\ cache[k] # None
          /\ sess' = [sess EXCEPT ![t] = cache[k]]
          /\ pc' = [pc EXCEPT ![t] = "save_cache"]
       \/ /\ cache[k] = None
          /\ pc' = [pc EXCEPT ![t] = "create_insert"]
          /\ UNCHANGED sess
    /\ UNCHANGED <<storage, cache, disk, handle, listed, crashes, done>>

\* A round starts: get_or_create(k) looks k up in the cache (read lock).
StartRound(t, k) ==
    /\ pc[t] = "idle"
    /\ KeyFree(t, k)
    /\ nextMsg <= MaxMsgs
    /\ op' = [op EXCEPT ![t] = "round"]
    /\ key' = [key EXCEPT ![t] = k]
    /\ msg' = [msg EXCEPT ![t] = nextMsg]
    /\ nextMsg' = nextMsg + 1
    /\ ret' = [ret EXCEPT ![t] = "none"]
    /\ \/ /\ cache[k] # None
          /\ sess' = [sess EXCEPT ![t] = cache[k]]
          /\ pc' = [pc EXCEPT ![t] = "save_cache"]
       \/ /\ cache[k] = None
          /\ storage
          /\ pc' = [pc EXCEPT ![t] = "load_exists"]
          /\ UNCHANGED sess
       \/ /\ cache[k] = None
          /\ ~storage
          /\ pc' = [pc EXCEPT ![t] = "create_insert"]
          /\ UNCHANGED sess
    /\ UNCHANGED <<storage, cache, disk, handle, listed, crashes, done>>

\* get(k): the same cache lookup; a miss goes to disk or returns None.
StartGet(t, k) ==
    /\ pc[t] = "idle"
    /\ KeyFree(t, k)
    /\ op' = [op EXCEPT ![t] = "get"]
    /\ key' = [key EXCEPT ![t] = k]
    /\ \/ /\ cache[k] # None
          /\ ret' = [ret EXCEPT ![t] = "ok"]
          /\ UNCHANGED pc
       \/ /\ cache[k] = None
          /\ storage
          /\ pc' = [pc EXCEPT ![t] = "load_exists"]
          /\ ret' = [ret EXCEPT ![t] = "none"]
       \/ /\ cache[k] = None
          /\ ~storage
          /\ ret' = [ret EXCEPT ![t] = "absent"]
          /\ UNCHANGED pc
    /\ UNCHANGED <<storage, cache, disk, sess, msg, handle, listed, nextMsg,
                   crashes, done>>

\* file_path.exists(): a missing file means a new session (get_or_create)
\* or None (get).
LoadExists(t) ==
    /\ pc[t] = "load_exists"
    /\ \/ /\ disk[FileOf(t)] # NoFile
          /\ pc' = [pc EXCEPT ![t] = "load_read"]
          /\ UNCHANGED ret
       \/ /\ disk[FileOf(t)] = NoFile
          /\ op[t] = "round"
          /\ pc' = [pc EXCEPT ![t] = "create_insert"]
          /\ UNCHANGED ret
       \/ /\ disk[FileOf(t)] = NoFile
          /\ op[t] = "get"
          /\ pc' = [pc EXCEPT ![t] = "idle"]
          /\ ret' = [ret EXCEPT ![t] = "absent"]
    /\ UNCHANGED <<storage, cache, disk, op, key, sess, msg, handle, listed,
                   nextMsg, crashes, done>>

\* Variant: a load that takes whatever the file holds as the session.
LoadReadUnchecked(t) ==
    /\ pc[t] = "load_read"
    /\ sess' = [sess EXCEPT ![t] = disk[FileOf(t)]]
    /\ pc' = [pc EXCEPT ![t] = "load_insert"]
    /\ UNCHANGED <<storage, cache, disk, op, key, msg, handle, ret, listed,
                   nextMsg, crashes, done>>

\* read_to_string + serde_json::from_str: a file removed since the check,
\* truncated or corrupt is an error (the `?` returns it to the caller).
LoadRead(t) ==
    /\ pc[t] = "load_read"
    /\ \/ /\ disk[FileOf(t)] \in Session
          /\ sess' = [sess EXCEPT ![t] = disk[FileOf(t)]]
          /\ pc' = [pc EXCEPT ![t] = "load_insert"]
          /\ UNCHANGED ret
       \/ /\ disk[FileOf(t)] \notin Session
          /\ pc' = [pc EXCEPT ![t] = "idle"]
          /\ ret' = [ret EXCEPT ![t] = "err"]
          /\ UNCHANGED sess
    /\ UNCHANGED <<storage, cache, disk, op, key, msg, handle, listed,
                   nextMsg, crashes, done>>

\* sessions.insert(key, session.clone()) under the write lock, whatever the
\* cache holds for key by now.
LoadInsert(t) ==
    /\ pc[t] = "load_insert"
    /\ cache' = [cache EXCEPT ![key[t]] = sess[t]]
    /\ pc' = [pc EXCEPT ![t] = IF op[t] = "round" THEN "save_cache" ELSE "idle"]
    /\ ret' = [ret EXCEPT ![t] = IF op[t] = "round" THEN "none" ELSE "ok"]
    /\ UNCHANGED <<storage, disk, op, key, sess, msg, handle, listed,
                   nextMsg, crashes, done>>

\* Session::new(key) inserted under the write lock, whatever the cache holds.
CreateInsert(t) ==
    /\ pc[t] = "create_insert"
    /\ sess' = [sess EXCEPT ![t] = NewSession(key[t])]
    /\ cache' = [cache EXCEPT ![key[t]] = NewSession(key[t])]
    /\ pc' = [pc EXCEPT ![t] = "save_cache"]
    /\ UNCHANGED <<storage, disk, op, key, msg, handle, ret, listed,
                   nextMsg, crashes, done>>

-----------------------------------------------------------------------------
(* save *)

\* Variant: save that writes the file but does not update the cache.
SaveCacheNoCacheUpdate(t) ==
    LET s == AddMessage(sess[t], msg[t]) IN
    /\ pc[t] = "save_cache"
    /\ sess' = [sess EXCEPT ![t] = s]
    /\ \/ /\ storage
          /\ pc' = [pc EXCEPT ![t] = "save_truncate"]
          /\ UNCHANGED <<ret, done>>
       \/ /\ ~storage
          /\ pc' = [pc EXCEPT ![t] = "idle"]
          /\ ret' = [ret EXCEPT ![t] = "ok"]
          /\ done' = [done EXCEPT ![s.key] = @ \cup {msg[t]}]
    /\ UNCHANGED <<storage, cache, disk, op, key, msg, handle, listed, nextMsg,
                   crashes>>

\* Variant: save that caches the new session but serializes the old clone.
SaveCacheStaleClone(t) ==
    LET s == AddMessage(sess[t], msg[t]) IN
    /\ pc[t] = "save_cache"
    /\ cache' = [cache EXCEPT ![s.key] = s]
    /\ \/ /\ storage
          /\ pc' = [pc EXCEPT ![t] = "save_truncate"]
          /\ UNCHANGED <<ret, done>>
       \/ /\ ~storage
          /\ pc' = [pc EXCEPT ![t] = "idle"]
          /\ ret' = [ret EXCEPT ![t] = "ok"]
          /\ done' = [done EXCEPT ![s.key] = @ \cup {msg[t]}]
    /\ UNCHANGED <<storage, sess, disk, op, key, msg, handle, listed, nextMsg,
                   crashes>>

\* The caller's add_message on its clone, then save's cache upsert under
\* session.key; without storage_path save returns Ok here.
SaveCache(t) ==
    LET s == AddMessage(sess[t], msg[t]) IN
    /\ pc[t] = "save_cache"
    /\ sess' = [sess EXCEPT ![t] = s]
    /\ cache' = [cache EXCEPT ![s.key] = s]
    /\ \/ /\ storage
          /\ pc' = [pc EXCEPT ![t] = "save_truncate"]
          /\ UNCHANGED <<ret, done>>
       \/ /\ ~storage
          /\ pc' = [pc EXCEPT ![t] = "idle"]
          /\ ret' = [ret EXCEPT ![t] = "ok"]
          /\ done' = [done EXCEPT ![s.key] = @ \cup {msg[t]}]
    /\ UNCHANGED <<storage, disk, op, key, msg, handle, listed, nextMsg,
                   crashes>>

\* tokio::fs::write, first half: File::create opens the file, creating or
\* truncating it.
SaveTruncate(t) ==
    LET f == sanitize_key(sess[t].key) IN
    /\ pc[t] = "save_truncate"
    /\ disk' = [disk EXCEPT ![f] = Empty]
    /\ handle' = [handle EXCEPT ![t] = TRUE]
    /\ pc' = [pc EXCEPT ![t] = "save_write"]
    /\ UNCHANGED <<storage, cache, op, key, sess, msg, ret, listed, nextMsg,
                   crashes, done>>

\* tokio::fs::write, second half: write_all of the JSON at offset 0.  A
\* file removed since it was opened keeps no trace of the write.
SaveWrite(t) ==
    LET f == sanitize_key(sess[t].key) IN
    /\ pc[t] = "save_write"
    /\ \E c \in IF handle[t] THEN Written(disk[f], sess[t]) ELSE {disk[f]} :
          disk' = [disk EXCEPT ![f] = c]
    /\ handle' = [handle EXCEPT ![t] = FALSE]
    /\ pc' = [pc EXCEPT ![t] = "idle"]
    /\ ret' = [ret EXCEPT ![t] = "ok"]
    /\ done' = [done EXCEPT ![sess[t].key] = @ \cup {msg[t]}]
    /\ UNCHANGED <<storage, cache, op, key, sess, msg, listed, nextMsg,
                   crashes>>

-----------------------------------------------------------------------------
(* delete *)

\* sessions.remove(key) under the write lock.
StartDelete(t, k) ==
    /\ pc[t] = "idle"
    /\ KeyFree(t, k)
    /\ op' = [op EXCEPT ![t] = "delete"]
    /\ key' = [key EXCEPT ![t] = k]
    /\ cache' = [cache EXCEPT ![k] = None]
    /\ done' = [done EXCEPT ![k] = {}]
    /\ \/ /\ storage
          /\ pc' = [pc EXCEPT ![t] = "del_exists"]
          /\ ret' = [ret EXCEPT ![t] = "none"]
       \/ /\ ~storage
          /\ ret' = [ret EXCEPT ![t] = "ok"]
          /\ UNCHANGED pc
    /\ UNCHANGED <<storage, disk, sess, msg, handle, listed, nextMsg, crashes>>

\* if file_path.exists()
DelExists(t) ==
    /\ pc[t] = "del_exists"
    /\ \/ /\ disk[FileOf(t)] # NoFile
          /\ pc' = [pc EXCEPT ![t] = "del_remove"]
          /\ UNCHANGED ret
       \/ /\ disk[FileOf(t)] = NoFile
          /\ pc' = [pc EXCEPT ![t] = "idle"]
          /\ ret' = [ret EXCEPT ![t] = "ok"]
    /\ UNCHANGED <<storage, cache, disk, op, key, sess, msg, handle, listed,
                   nextMsg, crashes, done>>

\* tokio::fs::remove_file: NotFound is returned as an error by `?`.  Open
\* write handles of the file now point at an unlinked inode.
DelRemove(t) ==
    /\ pc[t] = "del_remove"
    /\ disk' = [disk EXCEPT ![FileOf(t)] = NoFile]
    /\ handle' = [u \in Tasks |->
                    IF pc[u] = "save_write" /\ sanitize_key(sess[u].key) = FileOf(t)
                    THEN FALSE ELSE handle[u]]
    /\ ret' = [ret EXCEPT ![t] = IF disk[FileOf(t)] # NoFile THEN "ok" ELSE "err"]
    /\ pc' = [pc EXCEPT ![t] = "idle"]
    /\ UNCHANGED <<storage, cache, op, key, sess, msg, listed, nextMsg,
                   crashes, done>>

-----------------------------------------------------------------------------
(* list, clear_cache, crash *)

\* list(): the cached keys (read lock).
StartList(t) ==
    /\ pc[t] = "idle"
    /\ op' = [op EXCEPT ![t] = "list"]
    /\ listed' = [listed EXCEPT ![t] = {k \in Keys : cache[k] # None}]
    /\ ret' = [ret EXCEPT ![t] = "ok"]
    /\ \/ /\ storage
          /\ pc' = [pc EXCEPT ![t] = "list_dir"]
       \/ /\ ~storage
          /\ UNCHANGED pc
    /\ UNCHANGED <<storage, cache, disk, key, sess, msg, handle, nextMsg,
                   crashes, done>>

\* list(): the stems of the *.json files, added when not already listed;
\* the sort does not change the set.
ListDir(t) ==
    /\ pc[t] = "list_dir"
    /\ listed' = [listed EXCEPT ![t] = @ \cup {f \in Files : disk[f] # NoFile}]
    /\ pc' = [pc EXCEPT ![t] = "idle"]
    /\ UNCHANGED <<storage, cache, disk, op, key, sess, msg, handle, ret,
                   nextMsg, crashes, done>>

\* clear_cache(): empties the map; without storage_path that forgets the
\* sessions, as documented.
ClearCache ==
    /\ cache' = [k \in Keys |-> None]
    /\ done' = IF storage THEN done ELSE [k \in Keys |-> {}]
    /\ UNCHANGED <<storage, disk, pc, op, key, sess, msg, handle, ret, listed,
                   nextMsg, crashes>>

\* The process dies and a new SessionManager is built over the same
\* storage_path: the cache and every call in flight are gone, the files
\* stay as they are (a truncated one stays truncated).
Crash ==
    /\ crashes < MaxCrashes
    /\ crashes' = crashes + 1
    /\ cache' = [k \in Keys |-> None]
    /\ pc' = [t \in Tasks |-> "idle"]
    /\ handle' = [t \in Tasks |-> FALSE]
    /\ done' = IF storage THEN done ELSE [k \in Keys |-> {}]
    /\ UNCHANGED <<storage, disk, op, key, sess, msg, ret, listed, nextMsg>>

-----------------------------------------------------------------------------

Next ==
    \/ \E t \in Tasks, k \in Keys :
          \/ StartRound(t, k)
          \/ StartGet(t, k)
          \/ StartDelete(t, k)
    \/ \E t \in Tasks :
          \/ LoadExists(t)
          \/ LoadRead(t)
          \/ LoadInsert(t)
          \/ CreateInsert(t)
          \/ SaveCache(t)
          \/ SaveTruncate(t)
          \/ SaveWrite(t)
          \/ DelExists(t)
          \/ DelRemove(t)
          \/ StartList(t)
          \/ ListDir(t)
    \/ ClearCache
    \/ Crash

Spec == Init /\ [][Next]_vars


-----------------------------------------------------------------------------
(* Properties *)

TypeOK ==
    /\ storage \in BOOLEAN
    /\ cache \in [Keys -> Session \cup {None}]
    /\ disk \in [Files -> Session \cup {NoFile, Empty, Corrupt}]
    /\ pc \in [Tasks -> PCs]
    /\ op \in [Tasks -> Ops]
    /\ key \in [Tasks -> Keys]
    /\ sess \in [Tasks -> Session]
    /\ msg \in [Tasks -> MsgIds]
    /\ handle \in [Tasks -> BOOLEAN]
    /\ ret \in [Tasks -> Results]
    /\ listed \in [Tasks -> SUBSET (Keys \cup Files)]
    /\ nextMsg \in 1..(MaxMsgs + 1)
    /\ crashes \in 0..MaxCrashes
    /\ done \in [Keys -> SUBSET MsgIds]

\* s is a prefix of u.
PrefixOf(s, u) == Len(s) <= Len(u) /\ \A i \in 1..Len(s) : s[i] = u[i]

\* The messages of a sequence, as a set.
MsgSet(s) == {s[i] : i \in DOMAIN s}

\* Some call on key k is in flight.
Busy(k) == \E t \in Tasks : InCall(t) /\ key[t] = k

\* The messages get_or_create(k) would hand out now: the cached session,
\* else the file's, else none.
Current(k) ==
    IF cache[k] # None THEN cache[k].msgs
    ELSE IF disk[sanitize_key(k)] \in Session THEN disk[sanitize_key(k)].msgs
    ELSE <<>>

\* The file of a cached session never holds a message the cache lacks, or
\* holds them in another order: save updates the cache before it writes the
\* file, and a load copies the file into the cache.
DiskPrefixOfCache ==
    \A k \in Keys :
        cache[k] # None /\ disk[sanitize_key(k)] \in Session
            => PrefixOf(disk[sanitize_key(k)].msgs, cache[k].msgs)

\* When no call is in flight, a cached session and its file agree (spec
\* sections 4.1 and 7: same-key calls must not corrupt state, and the file
\* is never inconsistent with the cache beyond the last successful save).
QuiescentCoherence ==
    (\A t \in Tasks : pc[t] = "idle") =>
        \A k \in Keys :
            cache[k] # None /\ disk[sanitize_key(k)] # NoFile
                => disk[sanitize_key(k)] = cache[k]

\* A cached session is replaced by another value only by a save: the
\* unconditional sessions.insert of get_or_create/get never overwrites an
\* entry that a concurrent save put there.
CacheReplacedOnlyBySave ==
    [][\A k \in Keys :
         cache[k] # None /\ cache'[k] \notin {None, cache[k]}
            => \E t \in Tasks : pc[t] = "save_cache" /\ pc'[t] # "save_cache"
      ]_vars

\* Every message whose save returned Ok (since the last delete of its key)
\* is still in what get_or_create would return, once no call on the key is
\* in flight (spec section 8, per-key serialisation loses no update; section
\* 5, a round is never half-written).
CompletedRoundsDurable ==
    \A k \in Keys : ~Busy(k) => done[k] \subseteq MsgSet(Current(k))

\* delete() of a session whose file is missing returns Ok (spec section
\* 4.1: missing-on-disk is not an error).
DeleteMissingNotError ==
    \A t \in Tasks : op[t] = "delete" /\ pc[t] = "idle" => ret[t] # "err"

\* Every name a list() call returned is the key of a session, never a file
\* stem that no session has (spec section 4.1: list returns the union of
\* the cached keys and the durable-storage keys, deduplicated).  list()
\* adds the stems of the *.json files (line 337), which are sanitized keys.
ListReturnsSessionKeys ==
    \A t \in Tasks : op[t] = "list" /\ pc[t] = "idle" => listed[t] \subseteq Keys

-----------------------------------------------------------------------------
(* Inductive strengthening of DiskPrefixOfCache, for keys that sanitize_key *)
(* keeps apart and callers that serialise per key.                          *)

\* No two keys share a file.
SanitizeInjective ==
    \A k1, k2 \in Keys : sanitize_key(k1) = sanitize_key(k2) => k1 = k2

\* Under KeyLock at most one task is in a call on a key.
OneCallPerKey ==
    \A t, u \in Tasks : t # u /\ InCall(t) /\ InCall(u) => key[t] # key[u]

\* Cached sessions and files carry the key they belong to, and without
\* storage_path there are no files.
KeysConsistent ==
    /\ \A k \in Keys : cache[k] # None => cache[k].key = k
    /\ \A f \in Files : disk[f] \in Session => sanitize_key(disk[f].key) = f
    /\ ~storage => \A f \in Files : disk[f] = NoFile

\* What a task in a call knows of its key's cache entry and file.
CallState(t) ==
    LET k == key[t]
        f == sanitize_key(key[t])
    IN  /\ pc[t] = "create_insert" => disk[f] = NoFile
        /\ pc[t] = "load_insert" => disk[f] = sess[t]
        /\ pc[t] \in {"save_cache", "save_truncate", "save_write"} => sess[t].key = k
        /\ pc[t] = "save_cache" /\ disk[f] \in Session
               => PrefixOf(disk[f].msgs, sess[t].msgs)
        /\ pc[t] \in {"save_truncate", "save_write"} => cache[k] \in {None, sess[t]}
        /\ pc[t] = "save_write" => disk[f] = Empty
        /\ pc[t] \in {"save_truncate", "save_write"} => storage
        /\ pc[t] \in {"del_exists", "del_remove"} => cache[k] = None

IInv ==
    /\ TypeOK
    /\ DiskPrefixOfCache
    /\ OneCallPerKey
    /\ KeysConsistent
    /\ \A t \in Tasks : CallState(t)

=============================================================================
