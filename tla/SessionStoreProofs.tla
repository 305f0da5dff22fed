------------------------- MODULE SessionStoreProofs -------------------------
(***************************************************************************)
(* Proofs about SessionStore for every value of its constants.             *)
(***************************************************************************)
EXTENDS SessionStore, TLAPS

-----------------------------------------------------------------------------
(* Lemmas about the data operators *)

\* Session::new builds a session.
LEMMA NewSessionType ==
    ASSUME NEW k \in Keys
    PROVE  NewSession(k) \in Session
BY DEF NewSession, Session

\* add_message keeps a session a session.
LEMMA AddMessageType ==
    ASSUME NEW s \in Session, NEW m \in MsgIds
    PROVE  AddMessage(s, m) \in Session
BY DEF AddMessage, Session

\* The file left by a write of a session is that session or corrupt.
LEMMA WrittenType ==
    ASSUME NEW c, NEW s \in Session
    PROVE  Written(c, s) \subseteq Session \cup {Corrupt}
BY DEF Written

\* Every key's file is one of Files.
LEMMA SanitizeInFiles ==
    ASSUME NEW k \in Keys
    PROVE  sanitize_key(k) \in Files
BY DEF Files

-----------------------------------------------------------------------------
(* Type correctness *)

\* Init establishes TypeOK.
LEMMA TypeInit == Init => TypeOK
<1> SUFFICES ASSUME Init PROVE TypeOK
    OBVIOUS
<1>1. (CHOOSE k \in Keys : TRUE) \in Keys
    BY KeysAssumption
<1>2. \A t \in Tasks : NewSession(key[t]) \in Session
    BY <1>1, NewSessionType DEF Init
<1>3. 1 \in MsgIds
    BY MaxMsgsAssumption DEF MsgIds
<1>4. QED
    BY <1>1, <1>2, <1>3, MaxMsgsAssumption, MaxCrashesAssumption
    DEF Init, TypeOK, PCs, Ops, Results

\* Every step keeps TypeOK.
LEMMA TypeStep == TypeOK /\ [Next]_vars => TypeOK'
<1> SUFFICES ASSUME TypeOK, [Next]_vars PROVE TypeOK'
    OBVIOUS
<1>. USE DEF TypeOK, PCs, Ops, Results
<1>1. ASSUME NEW t \in Tasks, NEW k \in Keys, StartRound(t, k)
      PROVE  TypeOK'
    BY <1>1, MaxMsgsAssumption DEF StartRound, MsgIds
<1>2. ASSUME NEW t \in Tasks, NEW k \in Keys, StartGet(t, k)
      PROVE  TypeOK'
    BY <1>2 DEF StartGet
<1>3. ASSUME NEW t \in Tasks, NEW k \in Keys, StartDelete(t, k)
      PROVE  TypeOK'
    BY <1>3 DEF StartDelete
<1>4. ASSUME NEW t \in Tasks, LoadExists(t)
      PROVE  TypeOK'
    BY <1>4 DEF LoadExists
<1>5. ASSUME NEW t \in Tasks, LoadRead(t)
      PROVE  TypeOK'
    BY <1>5, SanitizeInFiles DEF LoadRead, FileOf
<1>6. ASSUME NEW t \in Tasks, LoadInsert(t)
      PROVE  TypeOK'
    BY <1>6 DEF LoadInsert
<1>7. ASSUME NEW t \in Tasks, CreateInsert(t)
      PROVE  TypeOK'
    BY <1>7, NewSessionType DEF CreateInsert
<1>8. ASSUME NEW t \in Tasks, SaveCache(t)
      PROVE  TypeOK'
    <2> DEFINE s == AddMessage(sess[t], msg[t])
    <2>1. s \in Session
        BY AddMessageType
    <2>2. s.key \in Keys
        BY <2>1 DEF Session
    <2>3. cache' \in [Keys -> Session \cup {None}] /\ sess' \in [Tasks -> Session]
        BY <1>8, <2>1, <2>2 DEF SaveCache, TypeOK
    <2>4. pc' \in [Tasks -> PCs] /\ ret' \in [Tasks -> Results]
          /\ done' \in [Keys -> SUBSET MsgIds]
        <3>1. CASE storage
            BY <1>8, <3>1 DEF SaveCache, TypeOK, PCs
        <3>2. CASE ~storage
            <4>1. done' = [done EXCEPT ![s.key] = @ \cup {msg[t]}]
                  /\ pc' = [pc EXCEPT ![t] = "idle"]
                  /\ ret' = [ret EXCEPT ![t] = "ok"]
                BY <1>8, <3>2 DEF SaveCache
            <4>2. done' \in [Keys -> SUBSET MsgIds]
                BY <4>1, <2>2 DEF TypeOK
            <4>3. QED
                BY <4>1, <4>2 DEF TypeOK, PCs, Results
        <3>3. QED
            BY <3>1, <3>2
    <2>5. QED
        BY <1>8, <2>3, <2>4 DEF SaveCache, TypeOK
<1>9. ASSUME NEW t \in Tasks, SaveTruncate(t)
      PROVE  TypeOK'
    <2>1. sanitize_key(sess[t].key) \in Files
        BY SanitizeInFiles DEF Session
    <2>2. QED
        BY <1>9, <2>1 DEF SaveTruncate
<1>10. ASSUME NEW t \in Tasks, SaveWrite(t)
       PROVE  TypeOK'
    <2> DEFINE f == sanitize_key(sess[t].key)
    <2>1. f \in Files
        BY SanitizeInFiles DEF Session
    <2>2. PICK c \in IF handle[t] THEN Written(disk[f], sess[t]) ELSE {disk[f]} :
              disk' = [disk EXCEPT ![f] = c]
        BY <1>10 DEF SaveWrite
    <2>3. c \in Session \cup {NoFile, Empty, Corrupt}
        BY <2>1, WrittenType
    <2>4. sess[t].key \in Keys
        BY DEF Session
    <2>5. QED
        BY <1>10, <2>1, <2>2, <2>3, <2>4 DEF SaveWrite
<1>11. ASSUME NEW t \in Tasks, DelExists(t)
       PROVE  TypeOK'
    BY <1>11 DEF DelExists
<1>12. ASSUME NEW t \in Tasks, DelRemove(t)
       PROVE  TypeOK'
    BY <1>12, SanitizeInFiles DEF DelRemove, FileOf
<1>13. ASSUME NEW t \in Tasks, StartList(t)
       PROVE  TypeOK'
    BY <1>13 DEF StartList
<1>14. ASSUME NEW t \in Tasks, ListDir(t)
       PROVE  TypeOK'
    BY <1>14 DEF ListDir
<1>15. CASE ClearCache
    BY <1>15 DEF ClearCache
<1>16. CASE Crash
    BY <1>16, MaxCrashesAssumption DEF Crash
<1>17. CASE UNCHANGED vars
    BY <1>17 DEF vars
<1>18. QED
    BY <1>1, <1>2, <1>3, <1>4, <1>5, <1>6, <1>7, <1>8, <1>9, <1>10,
       <1>11, <1>12, <1>13, <1>14, <1>15, <1>16, <1>17 DEF Next

\* TypeOK holds in every reachable state: the cache holds sessions, files
\* hold sessions or the sentinels, every task's clone is a session and its
\* message id is fresh and in range.
THEOREM TypeCorrect == Spec => []TypeOK
BY TypeInit, TypeStep, PTL DEF Spec


-----------------------------------------------------------------------------
(* Lemmas about PrefixOf *)

\* A sequence is a prefix of itself.
LEMMA PrefixRefl ==
    ASSUME NEW S, NEW s \in Seq(S)
    PROVE  PrefixOf(s, s)
BY DEF PrefixOf

\* A prefix of u is a prefix of u with one more element.
LEMMA PrefixAppend ==
    ASSUME NEW S, NEW s \in Seq(S), NEW u \in Seq(S), NEW m \in S,
           PrefixOf(s, u)
    PROVE  PrefixOf(s, Append(u, m))
BY DEF PrefixOf

-----------------------------------------------------------------------------
(* Safety of the file/cache relation under per-key serialisation *)

\* The strengthening holds initially.
LEMMA IInvInit == Init => IInv
<1> SUFFICES ASSUME Init PROVE IInv
    OBVIOUS
<1>1. TypeOK
    BY TypeInit
<1>2. QED
    BY <1>1, SentinelAssumption DEF Init, IInv, DiskPrefixOfCache, OneCallPerKey, KeysConsistent,
               CallState, InCall

\* What a task's await point knows depends only on its own locals, the
\* cache entry of its key, the file of its key and storage: a step that
\* leaves these alone preserves it.
LEMMA CallStateFrame ==
    ASSUME NEW u \in Tasks, CallState(u),
           pc'[u] = pc[u], key'[u] = key[u], sess'[u] = sess[u],
           storage' = storage, cache'[key[u]] = cache[key[u]],
           disk'[sanitize_key(key[u])] = disk[sanitize_key(key[u])]
    PROVE  CallState(u)'
BY DEF CallState

\* A task that is in no call on a key knows nothing about it.
LEMMA CallStateIdle ==
    ASSUME NEW u \in Tasks, pc'[u] \in {"idle", "list_dir"}
    PROVE  CallState(u)'
BY DEF CallState

\* Two tasks in a call have different keys, hence (keys sanitizing apart)
\* different files.
LEMMA OtherCallOtherFile ==
    ASSUME SanitizeInjective, OneCallPerKey, key \in [Tasks -> Keys],
           NEW t \in Tasks, NEW u \in Tasks, u # t, InCall(t), InCall(u)
    PROVE  /\ key[u] # key[t]
           /\ sanitize_key(key[u]) # sanitize_key(key[t])
           /\ sanitize_key(key[u]) \in Files
<1>1. key[u] # key[t]
    BY DEF OneCallPerKey
<1>2. QED
    BY <1>1, SanitizeInFiles DEF SanitizeInjective

\* Every step keeps the strengthening, when callers serialise per key and
\* sanitize_key keeps keys apart.
LEMMA IInvStep ==
    ASSUME KeyLock, SanitizeInjective
    PROVE  IInv /\ [Next]_vars => IInv'
<1> SUFFICES ASSUME IInv, [Next]_vars PROVE IInv'
    OBVIOUS
<1>0. TypeOK'
    BY TypeStep DEF IInv
<1>. USE SentinelAssumption DEF IInv, TypeOK
<1>1. ASSUME NEW t \in Tasks, NEW k \in Keys, StartRound(t, k)
      PROVE  IInv'
    <2>1. DiskPrefixOfCache' /\ KeysConsistent'
        BY <1>1 DEF StartRound, DiskPrefixOfCache, KeysConsistent
    <2>2. OneCallPerKey'
        BY <1>1 DEF StartRound, KeyFree, OneCallPerKey, InCall
    <2>3. ASSUME NEW u \in Tasks PROVE CallState(u)'
        <3>1. CASE u # t
            BY <1>1, <3>1 DEF StartRound, CallState
        <3>2. CASE u = t /\ cache[k] # None
            BY <1>1, <3>2 DEF StartRound, CallState, KeysConsistent,
                              DiskPrefixOfCache
        <3>3. CASE u = t /\ cache[k] = None /\ storage
            BY <1>1, <3>3 DEF StartRound, CallState
        <3>4. CASE u = t /\ cache[k] = None /\ ~storage
            <4>1. disk[sanitize_key(k)] = NoFile
                BY <3>4, SanitizeInFiles DEF KeysConsistent
            <4>2. QED
                BY <1>1, <3>4, <4>1 DEF StartRound, CallState
        <3>5. QED
            BY <3>1, <3>2, <3>3, <3>4
    <2>4. QED
        BY <1>0, <2>1, <2>2, <2>3
<1>2. ASSUME NEW t \in Tasks, NEW k \in Keys, StartGet(t, k)
      PROVE  IInv'
    <2>1. /\ UNCHANGED <<storage, cache, disk, sess>>
          /\ pc'[t] \in {"idle", "load_exists"}
          /\ \A u \in Tasks \ {t} : pc'[u] = pc[u] /\ key'[u] = key[u]
        BY <1>2 DEF StartGet
    <2>2. DiskPrefixOfCache' /\ KeysConsistent'
        BY <2>1 DEF DiskPrefixOfCache, KeysConsistent
    <2>3. OneCallPerKey'
        BY <1>2 DEF StartGet, KeyFree, OneCallPerKey, InCall
    <2>4. ASSUME NEW u \in Tasks PROVE CallState(u)'
        <3>1. CASE u = t
            BY <2>1, <3>1 DEF CallState
        <3>2. CASE u # t
            BY <2>1, <3>2, CallStateFrame
        <3>3. QED
            BY <3>1, <3>2
    <2>5. QED
        BY <1>0, <2>2, <2>3, <2>4
<1>3. ASSUME NEW t \in Tasks, NEW k \in Keys, StartDelete(t, k)
      PROVE  IInv'
    <2>1. /\ UNCHANGED <<storage, disk, sess>>
          /\ cache' = [cache EXCEPT ![k] = None]
          /\ key' = [key EXCEPT ![t] = k]
          /\ pc'[t] \in {"idle", "del_exists"}
          /\ \A u \in Tasks \ {t} : pc'[u] = pc[u]
        BY <1>3 DEF StartDelete
    <2>2. DiskPrefixOfCache' /\ KeysConsistent'
        BY <2>1 DEF DiskPrefixOfCache, KeysConsistent
    <2>3. OneCallPerKey'
        BY <1>3 DEF StartDelete, KeyFree, OneCallPerKey, InCall
    <2>4. ASSUME NEW u \in Tasks PROVE CallState(u)'
        <3>1. CASE u = t
            BY <2>1, <3>1 DEF CallState
        <3>2. CASE u # t /\ ~InCall(u)
            BY <2>1, <3>2, CallStateIdle DEF InCall
        <3>3. CASE u # t /\ InCall(u)
            <4>1. key[u] # k
                BY <1>3, <3>3 DEF StartDelete, KeyFree
            <4>2. QED
                BY <2>1, <3>3, <4>1, CallStateFrame
        <3>4. QED
            BY <3>1, <3>2, <3>3
    <2>5. QED
        BY <1>0, <2>2, <2>3, <2>4
<1>4. ASSUME NEW t \in Tasks, LoadExists(t)
      PROVE  IInv'
    <2>1. /\ UNCHANGED <<storage, cache, disk, key, sess>>
          /\ \A u \in Tasks \ {t} : pc'[u] = pc[u]
          /\ pc'[t] \in {"load_read", "create_insert", "idle"}
          /\ pc'[t] = "create_insert" => disk[FileOf(t)] = NoFile
        BY <1>4 DEF LoadExists
    <2>2. DiskPrefixOfCache' /\ KeysConsistent'
        BY <2>1 DEF DiskPrefixOfCache, KeysConsistent
    <2>3. OneCallPerKey'
        BY <1>4, <2>1 DEF LoadExists, OneCallPerKey, InCall
    <2>4. ASSUME NEW u \in Tasks PROVE CallState(u)'
        <3>1. CASE u = t
            BY <2>1, <3>1 DEF CallState, FileOf
        <3>2. CASE u # t
            BY <2>1, <3>2, CallStateFrame
        <3>3. QED
            BY <3>1, <3>2
    <2>5. QED
        BY <1>0, <2>2, <2>3, <2>4
<1>5. ASSUME NEW t \in Tasks, LoadRead(t)
      PROVE  IInv'
    <2>1. DiskPrefixOfCache' /\ KeysConsistent'
        BY <1>5 DEF LoadRead, DiskPrefixOfCache, KeysConsistent
    <2>2. OneCallPerKey'
        BY <1>5 DEF LoadRead, OneCallPerKey, InCall
    <2>3. ASSUME NEW u \in Tasks PROVE CallState(u)'
        <3>1. CASE u # t
            BY <1>5, <3>1 DEF LoadRead, CallState
        <3>2. CASE u = t
            BY <1>5, <3>2 DEF LoadRead, FileOf, CallState
        <3>3. QED
            BY <3>1, <3>2
    <2>4. QED
        BY <1>0, <2>1, <2>2, <2>3
<1>6. ASSUME NEW t \in Tasks, LoadInsert(t)
      PROVE  IInv'
    <2> DEFINE f == sanitize_key(key[t])
    <2>1. sess[t] = disk[f] /\ sess[t] \in Session
        BY <1>6 DEF LoadInsert, CallState
    <2>2. sess[t].key = key[t]
        BY <2>1, SanitizeInjective, SanitizeInFiles DEF KeysConsistent, Session,
                                                       SanitizeInjective
    <2>3. DiskPrefixOfCache'
        BY <1>6, <2>1, PrefixRefl DEF LoadInsert, DiskPrefixOfCache, Session
    <2>4. KeysConsistent'
        BY <1>6, <2>2 DEF LoadInsert, KeysConsistent
    <2>5. OneCallPerKey'
        BY <1>6 DEF LoadInsert, OneCallPerKey, InCall
    <2>6. ASSUME NEW u \in Tasks PROVE CallState(u)'
        <3>1. CASE u # t
            BY <1>6, <3>1 DEF LoadInsert, CallState, OneCallPerKey, InCall
        <3>2. CASE u = t
            BY <1>6, <2>1, <2>2, <3>2, PrefixRefl DEF LoadInsert, CallState, Session
        <3>3. QED
            BY <3>1, <3>2
    <2>7. QED
        BY <1>0, <2>3, <2>4, <2>5, <2>6
<1>7. ASSUME NEW t \in Tasks, CreateInsert(t)
      PROVE  IInv'
    <2> DEFINE k == key[t]
               f == sanitize_key(key[t])
    <2>1. /\ UNCHANGED <<storage, disk, key>>
          /\ cache' = [cache EXCEPT ![k] = NewSession(k)]
          /\ sess' = [sess EXCEPT ![t] = NewSession(k)]
          /\ pc' = [pc EXCEPT ![t] = "save_cache"]
          /\ disk[f] = NoFile
        BY <1>7 DEF CreateInsert, CallState
    <2>2. DiskPrefixOfCache'
        BY <2>1, SentinelAssumption DEF DiskPrefixOfCache, Session
    <2>3. KeysConsistent'
        BY <2>1 DEF KeysConsistent, NewSession
    <2>4. OneCallPerKey'
        BY <1>7, <2>1 DEF CreateInsert, OneCallPerKey, InCall
    <2>5. ASSUME NEW u \in Tasks PROVE CallState(u)'
        <3>1. CASE u = t
            BY <2>1, <3>1, SentinelAssumption DEF CallState, NewSession, Session
        <3>2. CASE u # t /\ ~InCall(u)
            BY <2>1, <3>2, CallStateIdle DEF InCall
        <3>3. CASE u # t /\ InCall(u)
            <4>1. key[u] # k
                BY <1>7, <3>3 DEF CreateInsert, OneCallPerKey, InCall
            <4>2. QED
                BY <2>1, <3>3, <4>1, CallStateFrame
        <3>4. QED
            BY <3>1, <3>2, <3>3
    <2>6. QED
        BY <1>0, <2>2, <2>3, <2>4, <2>5
<1>8. ASSUME NEW t \in Tasks, SaveCache(t)
      PROVE  IInv'
    <2> DEFINE s == AddMessage(sess[t], msg[t])
               f == sanitize_key(key[t])
    <2>1. s.key = key[t] /\ s.msgs = Append(sess[t].msgs, msg[t])
        BY <1>8 DEF SaveCache, CallState, AddMessage, Session
    <2>2. disk[f] \in Session => PrefixOf(disk[f].msgs, s.msgs)
        <3>1. SUFFICES ASSUME disk[f] \in Session
                       PROVE  PrefixOf(disk[f].msgs, Append(sess[t].msgs, msg[t]))
            BY <2>1
        <3>2. PrefixOf(disk[f].msgs, sess[t].msgs)
            BY <1>8, <3>1 DEF SaveCache, CallState
        <3>3. disk[f].msgs \in Seq(MsgIds) /\ sess[t].msgs \in Seq(MsgIds)
            BY <3>1, SanitizeInFiles DEF Session
        <3>4. QED
            BY <3>2, <3>3, PrefixAppend
    <2>3. DiskPrefixOfCache'
        BY <1>8, <2>1, <2>2 DEF SaveCache, DiskPrefixOfCache
    <2>4. KeysConsistent'
        BY <1>8, <2>1 DEF SaveCache, KeysConsistent
    <2>5. OneCallPerKey'
        BY <1>8 DEF SaveCache, OneCallPerKey, InCall
    <2>6. ASSUME NEW u \in Tasks PROVE CallState(u)'
        <3>1. CASE u # t
            BY <1>8, <2>1, <3>1 DEF SaveCache, CallState, OneCallPerKey, InCall
        <3>2. CASE u = t
            BY <1>8, <2>1, <3>2 DEF SaveCache, CallState
        <3>3. QED
            BY <3>1, <3>2
    <2>7. QED
        BY <1>0, <2>3, <2>4, <2>5, <2>6
<1>9. ASSUME NEW t \in Tasks, SaveTruncate(t)
      PROVE  IInv'
    <2> DEFINE f == sanitize_key(key[t])
    <2>1. sanitize_key(sess[t].key) = f /\ storage
        BY <1>9 DEF SaveTruncate, CallState
    <2>2. \A k \in Keys : k # key[t] => sanitize_key(k) # f
        BY DEF SanitizeInjective
    <2>3. DiskPrefixOfCache' /\ KeysConsistent'
        BY <1>9, <2>1, <2>2 DEF SaveTruncate, DiskPrefixOfCache, KeysConsistent, Files
    <2>4. OneCallPerKey'
        BY <1>9 DEF SaveTruncate, OneCallPerKey, InCall
    <2>5. ASSUME NEW u \in Tasks PROVE CallState(u)'
        <3>1. CASE u # t
            <4>1. CASE ~InCall(u)
                BY <1>9, <3>1, <4>1, CallStateIdle DEF SaveTruncate, InCall
            <4>2. CASE InCall(u)
                <5>1. sanitize_key(key[u]) # f /\ sanitize_key(key[u]) \in Files
                    BY <1>9, <3>1, <4>2, OtherCallOtherFile DEF SaveTruncate, InCall
                <5>2. disk'[sanitize_key(key[u])] = disk[sanitize_key(key[u])]
                    BY <1>9, <2>1, <5>1 DEF SaveTruncate
                <5>3. QED
                    BY <1>9, <3>1, <5>2, CallStateFrame DEF SaveTruncate
            <4>3. QED
                BY <4>1, <4>2
        <3>2. CASE u = t
            BY <1>9, <2>1, <3>2, SanitizeInFiles DEF SaveTruncate, CallState
        <3>3. QED
            BY <3>1, <3>2
    <2>6. QED
        BY <1>0, <2>3, <2>4, <2>5
<1>10. ASSUME NEW t \in Tasks, SaveWrite(t)
       PROVE  IInv'
    <2> DEFINE f == sanitize_key(key[t])
    <2>1. sanitize_key(sess[t].key) = f /\ storage /\ disk[f] = Empty
          /\ cache[key[t]] \in {None, sess[t]} /\ sess[t].key = key[t]
        BY <1>10 DEF SaveWrite, CallState
    <2>2. disk' = [disk EXCEPT ![f] = sess[t]] \/ disk' = disk
        BY <1>10, <2>1 DEF SaveWrite, Written
    <2>3. \A k \in Keys : k # key[t] => sanitize_key(k) # f
        BY DEF SanitizeInjective
    <2>4. DiskPrefixOfCache'
        BY <1>10, <2>1, <2>2, <2>3, PrefixRefl, SanitizeInFiles
        DEF SaveWrite, DiskPrefixOfCache, Session
    <2>5. KeysConsistent'
        BY <1>10, <2>1, <2>2 DEF SaveWrite, KeysConsistent
    <2>6. OneCallPerKey'
        BY <1>10 DEF SaveWrite, OneCallPerKey, InCall
    <2>7. ASSUME NEW u \in Tasks PROVE CallState(u)'
        <3>1. CASE u # t
            <4>1. CASE ~InCall(u)
                BY <1>10, <3>1, <4>1, CallStateIdle DEF SaveWrite, InCall
            <4>2. CASE InCall(u)
                <5>1. sanitize_key(key[u]) # f /\ sanitize_key(key[u]) \in Files
                    BY <1>10, <3>1, <4>2, OtherCallOtherFile DEF SaveWrite, InCall
                <5>2. disk'[sanitize_key(key[u])] = disk[sanitize_key(key[u])]
                    BY <2>2, <5>1
                <5>3. QED
                    BY <1>10, <3>1, <5>2, CallStateFrame DEF SaveWrite
            <4>3. QED
                BY <4>1, <4>2
        <3>2. CASE u = t
            BY <1>10, <3>2 DEF SaveWrite, CallState
        <3>3. QED
            BY <3>1, <3>2
    <2>8. QED
        BY <1>0, <2>4, <2>5, <2>6, <2>7
<1>11. ASSUME NEW t \in Tasks, DelExists(t)
       PROVE  IInv'
    <2>1. /\ UNCHANGED <<storage, cache, disk, key, sess>>
          /\ \A u \in Tasks \ {t} : pc'[u] = pc[u]
          /\ pc'[t] \in {"del_remove", "idle"}
          /\ cache[key[t]] = None
        BY <1>11 DEF DelExists, CallState
    <2>2. DiskPrefixOfCache' /\ KeysConsistent'
        BY <2>1 DEF DiskPrefixOfCache, KeysConsistent
    <2>3. OneCallPerKey'
        BY <1>11, <2>1 DEF DelExists, OneCallPerKey, InCall
    <2>4. ASSUME NEW u \in Tasks PROVE CallState(u)'
        <3>1. CASE u = t
            BY <2>1, <3>1 DEF CallState
        <3>2. CASE u # t
            BY <2>1, <3>2, CallStateFrame
        <3>3. QED
            BY <3>1, <3>2
    <2>5. QED
        BY <1>0, <2>2, <2>3, <2>4
<1>12. ASSUME NEW t \in Tasks, DelRemove(t)
       PROVE  IInv'
    <2> DEFINE f == sanitize_key(key[t])
    <2>1. \A k \in Keys : k # key[t] => sanitize_key(k) # f
        BY DEF SanitizeInjective
    <2>0. /\ disk' = [disk EXCEPT ![f] = NoFile]
          /\ UNCHANGED <<cache, storage>>
        BY <1>12 DEF DelRemove, FileOf
    <2>2. DiskPrefixOfCache' /\ KeysConsistent'
        <3>1. DiskPrefixOfCache'
            <4> SUFFICES ASSUME NEW k \in Keys,
                                cache'[k] # None,
                                disk'[sanitize_key(k)] \in Session
                         PROVE  PrefixOf(disk'[sanitize_key(k)].msgs, cache'[k].msgs)
                BY DEF DiskPrefixOfCache
            <4>1. CASE sanitize_key(k) = f
                <5>1. disk'[sanitize_key(k)] = NoFile
                    BY <2>0, <4>1, SanitizeInFiles
                <5>2. QED
                    BY <5>1
            <4>2. CASE sanitize_key(k) # f
                <5>1. disk'[sanitize_key(k)] = disk[sanitize_key(k)]
                    BY <2>0, <4>2, SanitizeInFiles
                <5>2. QED
                    BY <2>0, <5>1 DEF DiskPrefixOfCache
            <4>3. QED
                BY <4>1, <4>2
        <3>2. KeysConsistent'
            BY <2>0 DEF KeysConsistent
        <3>3. QED
            BY <3>1, <3>2
    <2>3. OneCallPerKey'
        BY <1>12 DEF DelRemove, OneCallPerKey, InCall
    <2>4. ASSUME NEW u \in Tasks PROVE CallState(u)'
        <3>1. CASE u # t
            <4>1. CASE ~InCall(u)
                BY <1>12, <3>1, <4>1, CallStateIdle DEF DelRemove, InCall
            <4>2. CASE InCall(u)
                <5>1. sanitize_key(key[u]) # f /\ sanitize_key(key[u]) \in Files
                    BY <1>12, <3>1, <4>2, OtherCallOtherFile DEF DelRemove, InCall
                <5>2. disk'[sanitize_key(key[u])] = disk[sanitize_key(key[u])]
                    BY <2>0, <5>1
                <5>3. QED
                    BY <1>12, <3>1, <5>2, CallStateFrame DEF DelRemove
            <4>3. QED
                BY <4>1, <4>2
        <3>2. CASE u = t
            BY <1>12, <3>2 DEF DelRemove, CallState
        <3>3. QED
            BY <3>1, <3>2
    <2>5. QED
        BY <1>0, <2>2, <2>3, <2>4
<1>13. ASSUME NEW t \in Tasks, StartList(t)
       PROVE  IInv'
    <2>1. /\ UNCHANGED <<storage, cache, disk, key, sess>>
          /\ pc'[t] \in {"idle", "list_dir"}
          /\ \A u \in Tasks \ {t} : pc'[u] = pc[u]
          /\ pc' \in [Tasks -> PCs]
        BY <1>13, <1>0 DEF StartList
    <2>2. DiskPrefixOfCache' /\ KeysConsistent'
        BY <2>1 DEF DiskPrefixOfCache, KeysConsistent
    <2>3. OneCallPerKey'
        BY <1>13, <2>1 DEF StartList, OneCallPerKey, InCall
    <2>4. ASSUME NEW u \in Tasks PROVE CallState(u)'
        <3>1. CASE u = t
            BY <2>1, <3>1, CallStateIdle
        <3>2. CASE u # t
            BY <2>1, <3>2, CallStateFrame
        <3>3. QED
            BY <3>1, <3>2
    <2>5. QED
        BY <1>0, <2>2, <2>3, <2>4
<1>14. ASSUME NEW t \in Tasks, ListDir(t)
       PROVE  IInv'
    <2>1. /\ UNCHANGED <<storage, cache, disk, key, sess>>
          /\ pc' = [pc EXCEPT ![t] = "idle"]
        BY <1>14 DEF ListDir
    <2>2. DiskPrefixOfCache' /\ KeysConsistent'
        BY <2>1 DEF DiskPrefixOfCache, KeysConsistent
    <2>3. OneCallPerKey'
        BY <1>14, <2>1 DEF ListDir, OneCallPerKey, InCall
    <2>4. ASSUME NEW u \in Tasks PROVE CallState(u)'
        <3>1. CASE u = t
            BY <2>1, <3>1, CallStateIdle
        <3>2. CASE u # t
            BY <2>1, <3>2, CallStateFrame
        <3>3. QED
            BY <3>1, <3>2
    <2>5. QED
        BY <1>0, <2>2, <2>3, <2>4
<1>15. CASE ClearCache
    <2>1. /\ UNCHANGED <<storage, disk, pc, key, sess>>
          /\ cache' = [k \in Keys |-> None]
        BY <1>15 DEF ClearCache
    <2>2. DiskPrefixOfCache' /\ KeysConsistent'
        BY <2>1 DEF DiskPrefixOfCache, KeysConsistent
    <2>3. OneCallPerKey'
        BY <2>1 DEF OneCallPerKey, InCall
    <2>4. ASSUME NEW u \in Tasks PROVE CallState(u)'
        BY <2>1 DEF CallState
    <2>5. QED
        BY <1>0, <2>2, <2>3, <2>4
<1>16. CASE Crash
    <2>1. /\ UNCHANGED <<storage, disk>>
          /\ cache' = [k \in Keys |-> None]
          /\ pc' = [u \in Tasks |-> "idle"]
        BY <1>16 DEF Crash
    <2>2. DiskPrefixOfCache' /\ KeysConsistent'
        BY <2>1 DEF DiskPrefixOfCache, KeysConsistent
    <2>3. OneCallPerKey'
        BY <2>1 DEF OneCallPerKey, InCall
    <2>4. ASSUME NEW u \in Tasks PROVE CallState(u)'
        BY <2>1, CallStateIdle
    <2>5. QED
        BY <1>0, <2>2, <2>3, <2>4
<1>17. CASE UNCHANGED vars
    <2>1. UNCHANGED <<storage, cache, disk, pc, key, sess>>
        BY <1>17 DEF vars
    <2>2. DiskPrefixOfCache' /\ KeysConsistent'
        BY <2>1 DEF DiskPrefixOfCache, KeysConsistent
    <2>3. OneCallPerKey'
        BY <2>1 DEF OneCallPerKey, InCall
    <2>4. ASSUME NEW u \in Tasks PROVE CallState(u)'
        BY <2>1, CallStateFrame
    <2>5. QED
        BY <1>0, <2>2, <2>3, <2>4
<1>18. QED
    BY <1>1, <1>2, <1>3, <1>4, <1>5, <1>6, <1>7, <1>8, <1>9, <1>10,
       <1>11, <1>12, <1>13, <1>14, <1>15, <1>16, <1>17 DEF Next

\* When callers serialise their calls per key and no two keys share a file,
\* the file of a cached session always holds a prefix of the cached
\* messages: save's cache-then-file order and get_or_create's load never
\* let the file run ahead of, or diverge from, the cache.
THEOREM DiskPrefixSafe ==
    ASSUME KeyLock, SanitizeInjective
    PROVE  Spec => []DiskPrefixOfCache
<1>1. Init => IInv
    BY IInvInit
<1>2. IInv /\ [Next]_vars => IInv'
    BY IInvStep
<1>3. IInv => DiskPrefixOfCache
    BY DEF IInv
<1>4. QED
    BY <1>1, <1>2, <1>3, PTL DEF Spec

=============================================================================
