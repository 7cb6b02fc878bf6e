------------------------ MODULE SessionStore_proofs ------------------------
(***************************************************************************)
(* Proofs about SessionStore, for any number of callers, sessions and      *)
(* messages and any session length.                                        *)
(***************************************************************************)
EXTENDS SessionStore, SequenceTheorems, TLAPS

-----------------------------------------------------------------------------
(***************************************************************************)
(* Prefixes                                                                *)
(***************************************************************************)
\* A prefix agrees with the whole at each of its positions, and conversely.
LEMMA PrefixPointwise ==
  ASSUME NEW S, NEW s \in Seq(S), NEW t \in Seq(S)
  PROVE  IsPrefix(s, t) <=> /\ Len(s) <= Len(t)
                            /\ \A i \in 1 .. Len(s) : s[i] = t[i]
<1>1. Len(s) \in Nat /\ Len(t) \in Nat
  BY LenProperties
<1>2. SubSeq(s, 1, Len(s)) = s
  BY SubSeqFull
<1>3. ASSUME Len(s) <= Len(t)
      PROVE  /\ SubSeq(t, 1, Len(s)) \in Seq(S)
             /\ Len(SubSeq(t, 1, Len(s))) = Len(s)
             /\ \A i \in 1 .. Len(s) : SubSeq(t, 1, Len(s))[i] = t[i]
  BY <1>1, <1>3
<1>4. QED
  BY <1>1, <1>2, <1>3, SeqEqual DEF IsPrefix

LEMMA PrefixEmpty ==
  ASSUME NEW S, NEW t \in Seq(S)
  PROVE  IsPrefix(<< >>, t)
<1>1. << >> \in Seq(S) /\ Len(<< >>) = 0 /\ Len(t) \in Nat
  BY EmptySeq, LenProperties
<1>2. Len(<< >>) <= Len(t) /\ \A i \in 1 .. Len(<< >>) : << >>[i] = t[i]
  BY <1>1
<1>3. QED
  BY <1>1, <1>2, PrefixPointwise, Zenon

LEMMA PrefixReflexive ==
  ASSUME NEW S, NEW s \in Seq(S)
  PROVE  IsPrefix(s, s)
BY PrefixPointwise, LenProperties

LEMMA AppendNotEmpty ==
  ASSUME NEW S, NEW s \in Seq(S), NEW e \in S
  PROVE  Append(s, e) # << >>
<1>1. Len(Append(s, e)) = Len(s) + 1 /\ Len(s) \in Nat
  BY AppendProperties, LenProperties
<1>2. Len(<< >>) = 0
  BY EmptySeq
<1>3. QED
  BY <1>1, <1>2

LEMMA PrefixTransitive ==
  ASSUME NEW S, NEW s \in Seq(S), NEW t \in Seq(S), NEW u \in Seq(S),
         IsPrefix(s, t), IsPrefix(t, u)
  PROVE  IsPrefix(s, u)
BY PrefixPointwise, LenProperties

LEMMA PrefixAppend ==
  ASSUME NEW S, NEW s \in Seq(S), NEW t \in Seq(S), NEW e \in S, IsPrefix(s, t)
  PROVE  IsPrefix(s, Append(t, e))
<1>1. Append(t, e) \in Seq(S) /\ IsPrefix(t, Append(t, e))
  <2>1. /\ Append(t, e) \in Seq(S)
        /\ Len(t) <= Len(Append(t, e))
        /\ \A i \in 1 .. Len(t) : t[i] = Append(t, e)[i]
    BY AppendProperties, LenProperties
  <2>2. QED
    BY <2>1, PrefixPointwise, Zenon
<1>2. QED
  BY <1>1, PrefixTransitive

-----------------------------------------------------------------------------
(***************************************************************************)
(* Types                                                                   *)
(***************************************************************************)
LEMMA UnmarshalType ==
  ASSUME NEW content \in Content \union {NoFile, Torn}, NEW k \in Keys
  PROVE  Unmarshal(content, k) \in Seq(Messages)
BY EmptySeq DEF Unmarshal, Content

LEMMA StoredType ==
  ASSUME TypeOK, NEW k \in Keys
  PROVE  Stored(k) \in Seq(Messages)
<1>1. FileName[k] \in Files
  BY FileNameAssumption
<1>2. QED
  BY <1>1, UnmarshalType DEF TypeOK, Stored

LEMMA ReturnType ==
  ASSUME TypeOK, NEW c \in Callers, Return(c)
  PROVE  /\ pc' \in [Callers -> Phases]
         /\ snapshot' \in [Callers -> Seq(Messages)]
         /\ temp' \in [Callers -> Content \union {NoFile, Torn}]
         /\ base' \in [Callers -> Seq(Messages)]
BY EmptySeq DEF TypeOK, Return, Goto, Phases

LEMMA TypeInit == Init => TypeOK
BY EmptySeq DEF Init, TypeOK, Phases

LEMMA TypeStep ==
  ASSUME TypeOK, [Next]_vars
  PROVE  TypeOK'
<1>1. ASSUME NEW c \in Callers, NEW k \in Keys, NEW m \in Messages, AddMessage(c, k, m)
      PROVE  TypeOK'
  <2>1. sessions' \in [Keys -> Seq(Messages)]
    BY <1>1, AppendProperties DEF TypeOK, AddMessage
  <2>2. (IF k \in unread THEN << >> ELSE Stored(k)) \in Seq(Messages)
    BY StoredType, EmptySeq
  <2>3. base' \in [Callers -> Seq(Messages)]
    BY <1>1, <2>2 DEF TypeOK, AddMessage
  <2>4. pc' \in [Callers -> Phases] /\ target' \in [Callers -> Keys]
    BY <1>1 DEF TypeOK, AddMessage, Goto, Phases
  <2>5. QED
    BY <1>1, <2>1, <2>3, <2>4 DEF TypeOK, AddMessage
<1>2. ASSUME NEW c \in Callers, SkipSave(c)
      PROVE  TypeOK'
  BY <1>2, ReturnType DEF TypeOK, SkipSave
<1>3. ASSUME NEW c \in Callers, CopySession(c)
      PROVE  TypeOK'
  BY <1>3 DEF TypeOK, CopySession, Goto, Phases
<1>4. ASSUME NEW c \in Callers, CreateTemp(c)
      PROVE  TypeOK'
  BY <1>4 DEF TypeOK, CreateTemp, Goto, Phases
<1>5. ASSUME NEW c \in Callers, WriteTemp(c)
      PROVE  TypeOK'
  <2>1. [key |-> target[c], messages |-> snapshot[c]] \in Content
    BY DEF TypeOK, Content
  <2>2. QED
    BY <1>5, <2>1 DEF TypeOK, WriteTemp, Goto, Phases
<1>6. ASSUME NEW c \in Callers, Rename(c)
      PROVE  TypeOK'
  <2>1. disk' \in [Files -> Content \union {NoFile, Torn}]
    BY <1>6 DEF TypeOK, Rename
  <2>2. unread' \in SUBSET Keys
    BY <1>6 DEF TypeOK, Rename
  <2>3. QED
    BY <1>6, <2>1, <2>2, ReturnType DEF TypeOK, Rename
<1>7. ASSUME NEW c \in Callers, FailSave(c)
      PROVE  TypeOK'
  BY <1>7, ReturnType DEF TypeOK, FailSave
<1>8. CASE Crash
  BY <1>8, EmptySeq DEF TypeOK, Crash, Phases
<1>9. ASSUME NEW unreadable \in SUBSET Files, LoadSessions(unreadable)
      PROVE  TypeOK'
  <2>1. sessions' \in [Keys -> Seq(Messages)]
    BY <1>9, StoredType, EmptySeq DEF LoadSessions
  <2>2. unread' \in SUBSET Keys
    BY <1>9 DEF LoadSessions
  <2>3. QED
    BY <1>9, <2>1, <2>2 DEF TypeOK, LoadSessions
<1>10. CASE UNCHANGED vars
  BY <1>10 DEF TypeOK, vars
<1>11. QED
  BY <1>1, <1>2, <1>3, <1>4, <1>5, <1>6, <1>7, <1>8, <1>9, <1>10 DEF Next, Step

\* Every variable of the store keeps its type in every behaviour: session
\* entries hold messages, files hold whole or torn content.
THEOREM TypeCorrect == Spec => []TypeOK
<1>1. QED
  BY TypeInit, TypeStep, PTL DEF Spec

-----------------------------------------------------------------------------
(***************************************************************************)
(* The inductive invariant                                                 *)
(***************************************************************************)
\* A whole file that is named for its key reads back as the messages in it.
LEMMA UnmarshalWhole ==
  ASSUME NEW k \in Keys, NEW s \in Seq(Messages)
  PROVE  /\ Unmarshal([key |-> k, messages |-> s], k) = s
         /\ [key |-> k, messages |-> s] # NoFile
         /\ [key |-> k, messages |-> s] # Torn
<1>1. [key |-> k, messages |-> s] \in Content
  BY DEF Content
<1>2. [key |-> k, messages |-> s] \notin {NoFile, Torn}
  BY <1>1, SentinelAssumption
<1>3. QED
  BY <1>2 DEF Unmarshal

LEMMA StoreInvInit == Init => StoreInv
<1>1. SUFFICES ASSUME Init
               PROVE  StoreInv
  OBVIOUS
<1>2. FilesWhole
  BY <1>1 DEF Init, FilesWhole
<1>3. ASSUME NEW k \in Keys
      PROVE  IsPrefix(Stored(k), sessions[k])
  <2>1. Stored(k) = << >> /\ sessions[k] = << >>
    BY <1>1, FileNameAssumption DEF Init, Stored, Unmarshal
  <2>2. << >> \in Seq(Messages)
    BY EmptySeq
  <2>3. QED
    BY <2>1, <2>2, PrefixEmpty
<1>4. DiskIsEarlierState
  BY <1>3 DEF DiskIsEarlierState
<1>5. \A c \in Callers : pc[c] = "idle"
  BY <1>1 DEF Init
<1>6. QED
  BY <1>2, <1>4, <1>5 DEF StoreInv, CallInv

\* The steps that leave memory and files alone leave the first two parts of
\* the invariant alone.
LEMMA FilesUnchanged ==
  ASSUME FilesWhole, DiskIsEarlierState,
         UNCHANGED <<up, sessions, disk, unread>>
  PROVE  FilesWhole' /\ DiskIsEarlierState'
BY DEF FilesWhole, DiskIsEarlierState, Stored, Unmarshal

\* A step of c that leaves the memory alone leaves the calls of the others
\* alone, as long as it changes only its own locals.
LEMMA OtherCalls ==
  ASSUME TypeOK, NEW c \in Callers, NEW d \in Callers, CallInv(d), c # d,
         UNCHANGED <<up, sessions, target>>,
         pc'[d] = pc[d], snapshot'[d] = snapshot[d],
         temp'[d] = temp[d], base'[d] = base[d]
  PROVE  CallInv(d)'
BY DEF CallInv

LEMMA ReturnCalls ==
  ASSUME TypeOK, NEW c \in Callers, Return(c), \A d \in Callers : CallInv(d),
         UNCHANGED <<up, sessions, target>>
  PROVE  \A d \in Callers : CallInv(d)'
<1>1. CallInv(c)'
  <2>1. pc'[c] = "idle"
    BY DEF TypeOK, Return, Goto
  <2>2. QED
    BY <2>1 DEF CallInv
<1>2. ASSUME NEW d \in Callers, c # d
      PROVE  CallInv(d)'
  BY <1>2, OtherCalls DEF TypeOK, Return, Goto
<1>3. QED
  BY <1>1, <1>2

LEMMA AddMessageKeeps ==
  ASSUME TypeOK, StoreInv,
         NEW c \in Callers, NEW k \in Keys, NEW m \in Messages, AddMessage(c, k, m)
  PROVE  StoreInv'
<1>1. \A j \in Keys : /\ sessions[j] \in Seq(Messages)
                      /\ sessions'[j] = IF j = k THEN Append(sessions[k], m) ELSE sessions[j]
                      /\ sessions'[j] \in Seq(Messages)
  BY AppendProperties DEF TypeOK, AddMessage
<1>2. ASSUME NEW j \in Keys, NEW s \in Seq(Messages), IsPrefix(s, sessions[j])
      PROVE  IsPrefix(s, sessions'[j])
  <2>1. CASE j = k
    <3>1. IsPrefix(s, Append(sessions[k], m))
      BY <1>1, <1>2, <2>1, PrefixAppend
    <3>2. QED
      BY <1>1, <2>1, <3>1
  <2>2. CASE j # k
    BY <1>1, <1>2, <2>2
  <2>3. QED
    BY <2>1, <2>2
<1>3. FilesWhole'
  BY DEF StoreInv, FilesWhole, AddMessage
<1>4. DiskIsEarlierState'
  <2>1. SUFFICES ASSUME NEW j \in Keys \ unread
                 PROVE  IsPrefix(Stored(j), sessions'[j])
    BY DEF DiskIsEarlierState, Stored, Unmarshal, AddMessage
  <2>2. IsPrefix(Stored(j), sessions[j])
    BY DEF StoreInv, DiskIsEarlierState, AddMessage
  <2>3. QED
    BY <1>2, <2>2, StoredType
<1>5. CallInv(c)'
  <2>1. pc'[c] = "appended" /\ target'[c] = k /\ up'
    BY DEF AddMessage, Goto, TypeOK
  <2>2. base'[c] = IF k \in unread THEN << >> ELSE Stored(k)
    BY DEF AddMessage, TypeOK
  <2>3. IsPrefix(base'[c], sessions[k])
    <3>1. CASE k \in unread
      BY <1>1, <2>2, <3>1, PrefixEmpty
    <3>2. CASE k \notin unread
      BY <2>2, <3>2 DEF StoreInv, DiskIsEarlierState, AddMessage
    <3>3. QED
      BY <3>1, <3>2
  <2>4. base'[c] \in Seq(Messages)
    BY <2>2, StoredType, EmptySeq
  <2>5. IsPrefix(base'[c], sessions'[k])
    BY <1>2, <2>3, <2>4
  <2>6. sessions'[k] # << >>
    BY <1>1, AppendNotEmpty
  <2>7. QED
    BY <2>1, <2>5, <2>6 DEF CallInv
<1>6. ASSUME NEW d \in Callers, d # c
      PROVE  CallInv(d)'
  <2>1. /\ CallInv(d)
        /\ pc'[d] = pc[d] /\ target'[d] = target[d] /\ snapshot'[d] = snapshot[d]
        /\ temp'[d] = temp[d] /\ base'[d] = base[d] /\ up' = up
    BY <1>6 DEF StoreInv, AddMessage, Goto, TypeOK
  <2>2. target[d] \in Keys /\ base[d] \in Seq(Messages) /\ snapshot[d] \in Seq(Messages)
    BY DEF TypeOK
  <2>3. \A j \in Keys : sessions[j] # << >> => sessions'[j] # << >>
    BY <1>1, AppendNotEmpty
  <2>4. QED
    BY <1>2, <2>1, <2>2, <2>3 DEF CallInv
<1>7. QED
  BY <1>3, <1>4, <1>5, <1>6 DEF StoreInv

LEMMA CopySessionKeeps ==
  ASSUME TypeOK, StoreInv, NEW c \in Callers, CopySession(c)
  PROVE  StoreInv'
<1>1. FilesWhole' /\ DiskIsEarlierState'
  BY FilesUnchanged DEF StoreInv, CopySession
<1>2. CallInv(c)'
  <2>1. /\ pc'[c] = "copied" /\ up' = up /\ target'[c] = target[c] /\ base'[c] = base[c]
        /\ snapshot'[c] = sessions[target[c]]
        /\ sessions'[target[c]] = sessions[target[c]]
    BY DEF CopySession, Goto, TypeOK
  <2>2. up /\ sessions[target[c]] # << >> /\ IsPrefix(base[c], sessions[target[c]])
    BY DEF StoreInv, CallInv, CopySession
  <2>3. IsPrefix(sessions[target[c]], sessions[target[c]])
    BY PrefixReflexive DEF TypeOK
  <2>4. QED
    BY <2>1, <2>2, <2>3 DEF CallInv
<1>3. ASSUME NEW d \in Callers, d # c
      PROVE  CallInv(d)'
  BY <1>3, OtherCalls DEF StoreInv, CopySession, Goto, TypeOK
<1>4. QED
  BY <1>1, <1>2, <1>3 DEF StoreInv

LEMMA TempKeeps ==
  ASSUME TypeOK, StoreInv, NEW c \in Callers, CreateTemp(c) \/ WriteTemp(c)
  PROVE  StoreInv'
<1>1. FilesWhole' /\ DiskIsEarlierState'
  BY FilesUnchanged DEF StoreInv, CreateTemp, WriteTemp
<1>2. CallInv(c)'
  BY DEF StoreInv, CallInv, CreateTemp, WriteTemp, Goto, TypeOK
<1>3. ASSUME NEW d \in Callers, d # c
      PROVE  CallInv(d)'
  BY <1>3, OtherCalls DEF StoreInv, CreateTemp, WriteTemp, Goto, TypeOK
<1>4. QED
  BY <1>1, <1>2, <1>3 DEF StoreInv

\* SkipSave and FailSave.
LEMMA ReturnKeeps ==
  ASSUME TypeOK, StoreInv, NEW c \in Callers, Return(c),
         UNCHANGED <<up, sessions, disk, target, unread>>
  PROVE  StoreInv'
<1>1. FilesWhole' /\ DiskIsEarlierState'
  BY FilesUnchanged DEF StoreInv
<1>2. \A d \in Callers : CallInv(d)'
  BY ReturnCalls DEF StoreInv
<1>3. QED
  BY <1>1, <1>2 DEF StoreInv

\* A rename changes one stored history, to the copy the save made.
LEMMA RenameStores ==
  ASSUME TypeOK, StoreInv, NEW c \in Callers, Rename(c)
  PROVE  /\ target[c] \in Keys
         /\ snapshot[c] \in Seq(Messages)
         /\ disk' = [disk EXCEPT ![FileName[target[c]]] =
                                    [key |-> target[c], messages |-> snapshot[c]]]
         /\ \A k \in Keys : Stored(k)' = IF k = target[c] THEN snapshot[c] ELSE Stored(k)
<1>1. target[c] \in Keys /\ snapshot[c] \in Seq(Messages)
  BY DEF TypeOK
<1>2. disk' = [disk EXCEPT ![FileName[target[c]]] =
                             [key |-> target[c], messages |-> snapshot[c]]]
  BY DEF Rename, StoreInv, CallInv
<1>3. ASSUME NEW k \in Keys
      PROVE  Stored(k)' = IF k = target[c] THEN snapshot[c] ELSE Stored(k)
  <2>1. CASE k = target[c]
    <3>1. disk'[FileName[k]] = [key |-> k, messages |-> snapshot[c]]
      BY <1>1, <1>2, <2>1, FileNameAssumption DEF TypeOK
    <3>2. QED
      BY <1>1, <2>1, <3>1, UnmarshalWhole DEF Stored
  <2>2. CASE k # target[c]
    <3>1. disk'[FileName[k]] = disk[FileName[k]]
      BY <1>1, <1>2, <2>2, FileNameAssumption DEF TypeOK
    <3>2. QED
      BY <2>2, <3>1 DEF Stored
  <2>3. QED
    BY <2>1, <2>2
<1>4. QED
  BY <1>1, <1>2, <1>3

LEMMA RenameKeeps ==
  ASSUME TypeOK, StoreInv, NEW c \in Callers, Rename(c)
  PROVE  StoreInv'
<1>1. /\ target[c] \in Keys
      /\ snapshot[c] \in Seq(Messages)
      /\ disk' = [disk EXCEPT ![FileName[target[c]]] =
                                [key |-> target[c], messages |-> snapshot[c]]]
      /\ \A k \in Keys : Stored(k)' = IF k = target[c] THEN snapshot[c] ELSE Stored(k)
  BY RenameStores
<1>2. FilesWhole'
  <2>1. SUFFICES ASSUME NEW f \in Files, disk'[f] # NoFile
                 PROVE  disk'[f] # Torn /\ f = FileName[disk'[f].key]
    BY DEF FilesWhole
  <2>2. CASE f = FileName[target[c]]
    <3>1. disk'[f] = [key |-> target[c], messages |-> snapshot[c]]
      BY <1>1, <2>2 DEF TypeOK
    <3>2. QED
      BY <1>1, <2>2, <3>1, UnmarshalWhole
  <2>3. CASE f # FileName[target[c]]
    <3>1. disk'[f] = disk[f]
      BY <1>1, <2>3 DEF TypeOK
    <3>2. QED
      BY <2>1, <3>1 DEF StoreInv, FilesWhole
  <2>4. QED
    BY <2>2, <2>3
<1>3. DiskIsEarlierState'
  <2>1. SUFFICES ASSUME up, NEW k \in Keys \ unread'
                 PROVE  IsPrefix(Stored(k)', sessions[k])
    BY DEF DiskIsEarlierState, Rename
  <2>2. CASE k = target[c]
    BY <1>1, <2>2 DEF StoreInv, CallInv, Rename
  <2>3. CASE k # target[c]
    <3>1. k \in Keys \ unread
      BY <2>3 DEF Rename
    <3>2. QED
      BY <1>1, <2>1, <2>3, <3>1 DEF StoreInv, DiskIsEarlierState
  <2>4. QED
    BY <2>2, <2>3
<1>4. \A d \in Callers : CallInv(d)'
  BY ReturnCalls DEF StoreInv, Rename
<1>5. QED
  BY <1>2, <1>3, <1>4 DEF StoreInv

LEMMA CrashKeeps ==
  ASSUME StoreInv, Crash
  PROVE  StoreInv'
<1>1. FilesWhole'
  BY DEF StoreInv, FilesWhole, Crash
<1>2. DiskIsEarlierState'
  BY DEF DiskIsEarlierState, Crash
<1>3. \A c \in Callers : CallInv(c)'
  BY DEF CallInv, Crash
<1>4. QED
  BY <1>1, <1>2, <1>3 DEF StoreInv

\* No call is in progress while the process is down.
LEMMA LoadSessionsKeeps ==
  ASSUME TypeOK, StoreInv, NEW unreadable \in SUBSET Files, LoadSessions(unreadable)
  PROVE  StoreInv'
<1>1. FilesWhole'
  BY DEF StoreInv, FilesWhole, LoadSessions
<1>2. DiskIsEarlierState'
  <2>1. SUFFICES ASSUME NEW k \in Keys \ unread'
                 PROVE  IsPrefix(Stored(k), sessions'[k])
    BY DEF DiskIsEarlierState, LoadSessions, Stored, Unmarshal
  <2>2. Stored(k) \in Seq(Messages)
    BY StoredType
  <2>3. CASE FileName[k] \in unreadable
    <3>1. disk[FileName[k]] = NoFile
      BY <2>3 DEF LoadSessions
    <3>2. Stored(k) = << >> /\ sessions'[k] = << >>
      BY <2>3, <3>1 DEF LoadSessions, Stored, Unmarshal
    <3>3. QED
      BY <2>2, <3>2, PrefixReflexive
  <2>4. CASE FileName[k] \notin unreadable
    <3>1. sessions'[k] = Stored(k)
      BY <2>4 DEF LoadSessions
    <3>2. QED
      BY <2>2, <3>1, PrefixReflexive
  <2>5. QED
    BY <2>3, <2>4
<1>3. \A c \in Callers : CallInv(c)'
  BY DEF StoreInv, CallInv, LoadSessions
<1>4. QED
  BY <1>1, <1>2, <1>3 DEF StoreInv

LEMMA StoreInvStep ==
  ASSUME TypeOK, StoreInv, [Next]_vars
  PROVE  StoreInv'
<1>1. ASSUME NEW c \in Callers, NEW k \in Keys, NEW m \in Messages, AddMessage(c, k, m)
      PROVE  StoreInv'
  BY <1>1, AddMessageKeeps
<1>2. ASSUME NEW c \in Callers, SkipSave(c)
      PROVE  StoreInv'
  BY <1>2, ReturnKeeps DEF SkipSave
<1>3. ASSUME NEW c \in Callers, CopySession(c)
      PROVE  StoreInv'
  BY <1>3, CopySessionKeeps
<1>4. ASSUME NEW c \in Callers, CreateTemp(c) \/ WriteTemp(c)
      PROVE  StoreInv'
  BY <1>4, TempKeeps
<1>5. ASSUME NEW c \in Callers, Rename(c)
      PROVE  StoreInv'
  BY <1>5, RenameKeeps
<1>6. ASSUME NEW c \in Callers, FailSave(c)
      PROVE  StoreInv'
  BY <1>6, ReturnKeeps DEF FailSave
<1>7. CASE Crash
  BY <1>7, CrashKeeps
<1>8. ASSUME NEW unreadable \in SUBSET Files, LoadSessions(unreadable)
      PROVE  StoreInv'
  BY <1>8, LoadSessionsKeeps
<1>9. CASE UNCHANGED vars
  <2>1. FilesWhole' /\ DiskIsEarlierState'
    BY <1>9, FilesUnchanged DEF vars, StoreInv
  <2>2. \A c \in Callers : CallInv(c)'
    BY <1>9 DEF vars, StoreInv, CallInv
  <2>3. QED
    BY <2>1, <2>2 DEF StoreInv
<1>10. QED
  BY <1>1, <1>2, <1>3, <1>4, <1>5, <1>6, <1>7, <1>8, <1>9 DEF Next, Step

LEMMA StoreInvariant == Spec => [](TypeOK /\ StoreInv)
<1>1. Init => TypeOK /\ StoreInv
  BY TypeInit, StoreInvInit
<1>2. TypeOK /\ StoreInv /\ [Next]_vars => (TypeOK /\ StoreInv)'
  BY TypeStep, StoreInvStep
<1>3. QED
  BY <1>1, <1>2, PTL DEF Spec

-----------------------------------------------------------------------------
(***************************************************************************)
(* The results                                                             *)
(***************************************************************************)
\* However many saves are under way and wherever the process stopped, every
\* session file holds whole JSON that names the session it is for.
THEOREM FilesStayWhole == Spec => []FilesWhole
<1>1. StoreInv => FilesWhole
  BY DEF StoreInv
<1>2. QED
  BY <1>1, StoreInvariant, PTL

\* While the process runs, every session file it could read, or has saved,
\* holds an earlier state of that session.
THEOREM DiskFollowsMemory == Spec => []DiskIsEarlierState
<1>1. StoreInv => DiskIsEarlierState
  BY DEF StoreInv
<1>2. QED
  BY <1>1, StoreInvariant, PTL

\* The file a save leaves holds all that was on disk when its call began.
THEOREM SavesKeepEarlierSaves == Spec => SaveKeepsEarlierSaves
<1>1. ASSUME TypeOK, StoreInv, [Next]_vars, NEW c \in Callers,
             pc[c] = "written", pc'[c] = "idle", disk' # disk
      PROVE  IsPrefix(base[c], Stored(target[c])')
  <2>1. PICK d \in Callers : Rename(d)
    BY <1>1 DEF Next, Step, vars, AddMessage, SkipSave, CopySession, CreateTemp,
                WriteTemp, FailSave, Crash, LoadSessions
  <2>2. c = d
    BY <1>1, <2>1 DEF Rename, Return, Goto, TypeOK
  <2>3. Stored(target[c])' = snapshot[c]
    <3>1. target[c] \in Keys /\ target' = target
      BY <1>1, <2>1 DEF Rename, TypeOK
    <3>2. disk' = [disk EXCEPT ![FileName[target[c]]] =
                                 [key |-> target[c], messages |-> snapshot[c]]]
      BY <1>1, <2>1, <2>2, RenameStores
    <3>3. disk'[FileName[target[c]]] = [key |-> target[c], messages |-> snapshot[c]]
      BY <1>1, <3>1, <3>2, FileNameAssumption DEF TypeOK
    <3>4. snapshot[c] \in Seq(Messages)
      BY <1>1 DEF TypeOK
    <3>5. QED
      BY <3>1, <3>3, <3>4, UnmarshalWhole DEF Stored
  <2>4. QED
    BY <1>1, <2>3 DEF StoreInv, CallInv
<1>2. TypeOK /\ StoreInv /\ [Next]_vars =>
        [\A c \in Callers :
           pc[c] = "written" /\ pc'[c] = "idle" /\ disk' # disk
             => IsPrefix(base[c], Stored(target[c])')]_vars
  BY <1>1
<1>3. QED
  BY <1>2, StoreInvariant, PTL DEF Spec, SaveKeepsEarlierSaves

-----------------------------------------------------------------------------
(***************************************************************************)
(* The store implements the durable log                                    *)
(***************************************************************************)
LEMMA DurableInit == Init => Durable!Init
<1>1. SUFFICES ASSUME Init
               PROVE  Durable!Init
  OBVIOUS
<1>2. \A k \in Keys : Stored(k) = << >>
  BY <1>1, FileNameAssumption DEF Init, Stored, Unmarshal
<1>3. QED
  BY <1>1, <1>2 DEF Init, Durable!Init, SavedLog

\* A prefix that is not empty is the first n messages, for some n.
LEMMA PrefixSubSeq ==
  ASSUME NEW S, NEW s \in Seq(S), NEW t \in Seq(S), IsPrefix(s, t), s # << >>
  PROVE  \E n \in 1 .. Len(t) : s = SubSeq(t, 1, n)
<1>1. Len(s) \in Nat /\ Len(t) \in Nat /\ Len(s) <= Len(t)
  BY LenProperties, PrefixPointwise
<1>2. Len(s) # 0
  BY EmptySeq
<1>3. s = SubSeq(t, 1, Len(s))
  BY SubSeqFull DEF IsPrefix
<1>4. Len(s) \in 1 .. Len(t)
  BY <1>1, <1>2
<1>5. QED
  BY <1>3, <1>4, Zenon

\* A step that leaves the files alone leaves the saved logs alone.
LEMMA SavedLogUnchanged == UNCHANGED disk => UNCHANGED SavedLog
BY DEF SavedLog, Stored

LEMMA DurableRename ==
  ASSUME TypeOK, StoreInv, NEW c \in Callers, Rename(c)
  PROVE  \E k \in Keys : \E n \in 1 .. Len(sessions[k]) : Durable!Persist(k, n)
<1>1. /\ target[c] \in Keys
      /\ snapshot[c] \in Seq(Messages)
      /\ \A k \in Keys : Stored(k)' = IF k = target[c] THEN snapshot[c] ELSE Stored(k)
  BY RenameStores
<1>2. PICK n \in 1 .. Len(sessions[target[c]]) :
        snapshot[c] = SubSeq(sessions[target[c]], 1, n)
  <2>1. IsPrefix(snapshot[c], sessions[target[c]]) /\ snapshot[c] # << >>
    BY DEF StoreInv, CallInv, Rename
  <2>2. QED
    BY <1>1, <2>1, PrefixSubSeq DEF TypeOK
<1>3. SavedLog' = [SavedLog EXCEPT ![target[c]] = SubSeq(sessions[target[c]], 1, n)]
  <2>1. SavedLog' = [k \in Keys |-> Stored(k)']
    BY DEF SavedLog
  <2>2. SavedLog = [k \in Keys |-> Stored(k)]
    BY DEF SavedLog
  <2>3. QED
    BY <1>1, <1>2, <2>1, <2>2
<1>4. up /\ UNCHANGED <<up, sessions>>
  BY DEF StoreInv, CallInv, Rename
<1>5. Durable!Persist(target[c], n)
  BY <1>3, <1>4 DEF Durable!Persist
<1>6. QED
  BY <1>1, <1>2, <1>5

LEMMA DurableLoad ==
  ASSUME NEW unreadable \in SUBSET Files, LoadSessions(unreadable)
  PROVE  \E lost \in SUBSET Keys : Durable!Recover(lost)
<1> DEFINE lost == {k \in Keys : FileName[k] \in unreadable}
<1>1. sessions' = [k \in Keys |-> IF k \in lost THEN << >> ELSE SavedLog[k]]
  BY DEF LoadSessions, SavedLog
<1>2. UNCHANGED SavedLog
  BY SavedLogUnchanged DEF LoadSessions
<1>3. Durable!Recover(lost)
  BY <1>1, <1>2 DEF LoadSessions, Durable!Recover
<1>4. QED
  BY <1>3

LEMMA DurableStep ==
  ASSUME TypeOK, StoreInv, [Next]_vars
  PROVE  [Durable!Next]_(Durable!vars)
<1>1. ASSUME NEW c \in Callers, NEW k \in Keys, NEW m \in Messages, AddMessage(c, k, m)
      PROVE  Durable!Next
  <2>1. UNCHANGED SavedLog
    BY <1>1, SavedLogUnchanged DEF AddMessage
  <2>2. Durable!Add(k, m)
    BY <1>1, <2>1 DEF AddMessage, Durable!Add
  <2>3. QED
    BY <2>2 DEF Durable!Next
<1>2. ASSUME NEW c \in Callers,
             SkipSave(c) \/ CopySession(c) \/ CreateTemp(c) \/ WriteTemp(c) \/ FailSave(c)
      PROVE  UNCHANGED Durable!vars
  BY <1>2, SavedLogUnchanged
  DEF SkipSave, CopySession, CreateTemp, WriteTemp, FailSave, Durable!vars
<1>3. ASSUME NEW c \in Callers, Rename(c)
      PROVE  Durable!Next
  BY <1>3, DurableRename DEF Durable!Next
<1>4. CASE Crash
  <2>1. UNCHANGED SavedLog
    BY <1>4, SavedLogUnchanged DEF Crash
  <2>2. Durable!Stop
    BY <1>4, <2>1 DEF Crash, Durable!Stop
  <2>3. QED
    BY <2>2 DEF Durable!Next
<1>5. ASSUME NEW unreadable \in SUBSET Files, LoadSessions(unreadable)
      PROVE  Durable!Next
  BY <1>5, DurableLoad DEF Durable!Next
<1>6. CASE UNCHANGED vars
  BY <1>6, SavedLogUnchanged DEF vars, Durable!vars
<1>7. QED
  BY <1>1, <1>2, <1>3, <1>4, <1>5, <1>6 DEF Next, Step

\* Every behaviour of the store, its memory and what its files hold taken
\* together, is one the durable log allows.
THEOREM StoreImplementsDurableLog == Spec => ImplementsDurableLog
<1>1. QED
  BY DurableInit, DurableStep, StoreInvariant, PTL DEF Spec, ImplementsDurableLog, Durable!Spec
=============================================================================
