-------------------------- MODULE PeerHashesProofs --------------------------
(***************************************************************************)
(* Proofs about PeerHashes for any number of goroutines, peers, hashes and *)
(* process incarnations: the inductive invariant HashesInv, the safety     *)
(* properties that follow from it, and that recordPeerHash implements the  *)
(* atomic register of module HashRegister.                                 *)
(***************************************************************************)
EXTENDS PeerHashes, TLAPS

\* The steps that run under peerHashesMu, and those before the outcome.
Locked  == {"read", "create", "write", "rename", "unlock"}
Pending == {"init", "clear", "lock", "read", "create", "write", "rename"}

\* What a reader sees.
View == IF file = Absent THEN Empty ELSE file

\* peerHashesMu is held throughout a read-modify-write.
MutexInv == \A g \in Goroutines : pc[g] \in Locked => peerHashesMu = g

\* Nobody gets past peerHashesInit before the closure has run, and one
\* goroutine runs it.
ClearInv ==
    /\ \A g \in Goroutines :
          /\ pc[g] = "clear" => peerHashesInit = "running"
          /\ pc[g] \in Locked \cup {"lock"} => peerHashesInit = "done"
    /\ \A g, h \in Goroutines : pc[g] = "clear" /\ pc[h] = "clear" => g = h

\* A goroutine has a call until its outcome is known, made by this process.
CallInv ==
    \A g \in Goroutines :
        /\ pc[g] \in Pending <=> call[g] # NoCall
        /\ call[g] # NoCall => call[g].val.incarnation = incarnation

\* The map about to be written is the file with one entry replaced: nobody
\* changed the file since it was read.
SnapshotInv ==
    \A g \in Goroutines : pc[g] \in {"create", "write", "rename"} =>
        hashes[g] = [View EXCEPT ![call[g].peer] = call[g].val]

\* The temporary file at each step.
TempInv ==
    \A g \in Goroutines :
        /\ pc[g] = "rename" => tmp[g] = hashes[g]
        /\ pc[g] \notin {"write", "rename"} => tmp[g] = Absent

\* What is on disk and what this process has recorded of it.
FileInv ==
    /\ NeverTorn
    /\ peerHashesInit # "done" => recorded = {}
    /\ RecordedStays
    /\ NoStaleEntry

HashesInv ==
    /\ TypeOK
    /\ MutexInv
    /\ ClearInv
    /\ CallInv
    /\ SnapshotInv
    /\ TempInv
    /\ FileInv

------------------------------------------------------------------------------

\* The empty map is what a file may hold.
LEMMA EmptyType == Empty \in Contents
  BY DEF Empty, Contents

\* There is a first incarnation.
LEMMA OneIsIncarnation == 1 \in 1 .. MaxIncarnation
  BY HashesAssumption

\* The initial state satisfies the invariant.
LEMMA InitInv == Init => HashesInv
  <1> SUFFICES ASSUME Init PROVE HashesInv
    OBVIOUS
  <1> USE HashesAssumption DEF Init
  <1>1. TypeOK
    BY EmptyType, OneIsIncarnation DEF TypeOK
  <1>2. MutexInv /\ ClearInv
    BY DEF MutexInv, ClearInv, Locked
  <1>3. CallInv
    BY DEF CallInv, Pending
  <1>4. SnapshotInv /\ TempInv
    BY DEF SnapshotInv, TempInv
  <1>5. FileInv
    BY DEF FileInv, NeverTorn, RecordedStays, NoStaleEntry
  <1> QED
    BY <1>1, <1>2, <1>3, <1>4, <1>5 DEF HashesInv

\* Every step keeps the variables in their types.
LEMMA TypeStep == HashesInv /\ [Next]_vars => TypeOK'
  <1> SUFFICES ASSUME HashesInv, [Next]_vars PROVE TypeOK'
    OBVIOUS
  <1> USE HashesAssumption DEF HashesInv, TypeOK, Goto
  <1>1. ASSUME NEW g \in Goroutines, NEW p \in Peers, NEW h \in Hashes,
                   Begin(g, p, h)
        PROVE  TypeOK'
    BY <1>1
       DEF Begin, fileVars, procVars, pastVars, Contents, Call, Entry, Empty,
           CallInv, Pending
  <1>2. ASSUME NEW g \in Goroutines, ReturnEarly(g) PROVE TypeOK'
    BY <1>2
       DEF ReturnEarly, fileVars, procVars, pastVars, Contents, Call, Entry,
           Empty, CallInv, Pending
  <1>3. ASSUME NEW g \in Goroutines, BeginClear(g) PROVE TypeOK'
    BY <1>3
       DEF BeginClear, fileVars, procVars, pastVars, Contents, Call, Entry,
           Empty, CallInv, Pending
  <1>4. ASSUME NEW g \in Goroutines, Remove(g) PROVE TypeOK'
    BY <1>4
       DEF Remove, procVars, Contents, Call, Entry, Empty, CallInv, Pending
  <1>5. ASSUME NEW g \in Goroutines, JoinClear(g) PROVE TypeOK'
    BY <1>5
       DEF JoinClear, fileVars, procVars, pastVars, Contents, Call, Entry,
           Empty, CallInv, Pending
  <1>6. ASSUME NEW g \in Goroutines, Lock(g) PROVE TypeOK'
    BY <1>6
       DEF Lock, fileVars, procVars, pastVars, Contents, Call, Entry, Empty,
           CallInv, Pending
  <1>7. ASSUME NEW g \in Goroutines, Read(g) PROVE TypeOK'
    BY <1>7
       DEF Read, fileVars, procVars, pastVars, Contents, Call, Entry, Empty,
           CallInv, Pending
  <1>8. ASSUME NEW g \in Goroutines, CreateTemp(g) PROVE TypeOK'
    BY <1>8
       DEF CreateTemp, procVars, pastVars, Contents, Call, Entry, Empty,
           CallInv, Pending
  <1>9. ASSUME NEW g \in Goroutines, WriteTemp(g) PROVE TypeOK'
    BY <1>9
       DEF WriteTemp, procVars, pastVars, Contents, Call, Entry, Empty,
           CallInv, Pending
  <1>10. ASSUME NEW g \in Goroutines, Rename(g) PROVE TypeOK'
    BY <1>10
       DEF Rename, procVars, Contents, Call, Entry, Empty, CallInv, Pending
  <1>11. ASSUME NEW g \in Goroutines, Fail(g) PROVE TypeOK'
    BY <1>11
       DEF Fail, procVars, pastVars, Contents, Call, Entry, Empty, CallInv,
           Pending
  <1>12. ASSUME NEW g \in Goroutines, Unlock(g) PROVE TypeOK'
    BY <1>12
       DEF Unlock, fileVars, procVars, pastVars, Contents, Call, Entry, Empty,
           CallInv, Pending
  <1>13. CASE Crash
    <2>1. incarnation' \in 1 .. MaxIncarnation
      BY <1>13 DEF Crash
    <2> QED
      BY <1>13, <2>1, EmptyType DEF Crash
  <1>14. CASE UNCHANGED vars
    BY <1>14
       DEF vars, fileVars, callVars, procVars, pastVars, Contents, Call, Entry,
           Empty, CallInv, Pending
  <1> QED
    BY <1>1, <1>2, <1>3, <1>4, <1>5, <1>6, <1>7, <1>8, <1>9, <1>10, <1>11,
       <1>12, <1>13, <1>14 DEF Next, CallStep

\* Every step keeps MutexInv: only Lock enters, from a free mutex, and only
\* Unlock leaves.
LEMMA MutexStep == HashesInv /\ TypeOK' /\ [Next]_vars => MutexInv'
  <1> SUFFICES ASSUME HashesInv, TypeOK', [Next]_vars PROVE MutexInv'
    OBVIOUS
  <1> USE HashesAssumption DEF HashesInv, TypeOK, Goto
  <1>1. ASSUME NEW g \in Goroutines, NEW p \in Peers, NEW h \in Hashes,
                   Begin(g, p, h)
        PROVE  MutexInv'
    BY <1>1 DEF Begin, fileVars, procVars, pastVars, MutexInv, Locked
  <1>2. ASSUME NEW g \in Goroutines, ReturnEarly(g) PROVE MutexInv'
    BY <1>2 DEF ReturnEarly, fileVars, procVars, pastVars, MutexInv, Locked
  <1>3. ASSUME NEW g \in Goroutines, BeginClear(g) PROVE MutexInv'
    BY <1>3 DEF BeginClear, fileVars, procVars, pastVars, MutexInv, Locked
  <1>4. ASSUME NEW g \in Goroutines, Remove(g) PROVE MutexInv'
    BY <1>4 DEF Remove, procVars, MutexInv, Locked
  <1>5. ASSUME NEW g \in Goroutines, JoinClear(g) PROVE MutexInv'
    BY <1>5 DEF JoinClear, fileVars, procVars, pastVars, MutexInv, Locked
  <1>6. ASSUME NEW g \in Goroutines, Lock(g) PROVE MutexInv'
    BY <1>6 DEF Lock, fileVars, procVars, pastVars, MutexInv, Locked
  <1>7. ASSUME NEW g \in Goroutines, Read(g) PROVE MutexInv'
    BY <1>7 DEF Read, fileVars, procVars, pastVars, MutexInv, Locked
  <1>8. ASSUME NEW g \in Goroutines, CreateTemp(g) PROVE MutexInv'
    BY <1>8 DEF CreateTemp, procVars, pastVars, MutexInv, Locked
  <1>9. ASSUME NEW g \in Goroutines, WriteTemp(g) PROVE MutexInv'
    BY <1>9 DEF WriteTemp, procVars, pastVars, MutexInv, Locked
  <1>10. ASSUME NEW g \in Goroutines, Rename(g) PROVE MutexInv'
    BY <1>10 DEF Rename, procVars, MutexInv, Locked
  <1>11. ASSUME NEW g \in Goroutines, Fail(g) PROVE MutexInv'
    BY <1>11 DEF Fail, procVars, pastVars, MutexInv, Locked
  <1>12. ASSUME NEW g \in Goroutines, Unlock(g) PROVE MutexInv'
    BY <1>12 DEF Unlock, fileVars, procVars, pastVars, MutexInv, Locked
  <1>13. CASE Crash
    BY <1>13 DEF Crash, MutexInv, Locked
  <1>14. CASE UNCHANGED vars
    BY <1>14 DEF vars, fileVars, callVars, procVars, pastVars, MutexInv, Locked
  <1> QED
    BY <1>1, <1>2, <1>3, <1>4, <1>5, <1>6, <1>7, <1>8, <1>9, <1>10, <1>11,
       <1>12, <1>13, <1>14 DEF Next, CallStep

\* Every step keeps ClearInv: the closure is entered once, and JoinClear waits
\* for its end.
LEMMA ClearStep == HashesInv /\ TypeOK' /\ [Next]_vars => ClearInv'
  <1> SUFFICES ASSUME HashesInv, TypeOK', [Next]_vars PROVE ClearInv'
    OBVIOUS
  <1> USE HashesAssumption DEF HashesInv, TypeOK, Goto
  <1>1. ASSUME NEW g \in Goroutines, NEW p \in Peers, NEW h \in Hashes,
                   Begin(g, p, h)
        PROVE  ClearInv'
    BY <1>1 DEF Begin, fileVars, procVars, pastVars, ClearInv, Locked
  <1>2. ASSUME NEW g \in Goroutines, ReturnEarly(g) PROVE ClearInv'
    BY <1>2 DEF ReturnEarly, fileVars, procVars, pastVars, ClearInv, Locked
  <1>3. ASSUME NEW g \in Goroutines, BeginClear(g) PROVE ClearInv'
    BY <1>3 DEF BeginClear, fileVars, procVars, pastVars, ClearInv, Locked
  <1>4. ASSUME NEW g \in Goroutines, Remove(g) PROVE ClearInv'
    BY <1>4 DEF Remove, procVars, ClearInv, Locked
  <1>5. ASSUME NEW g \in Goroutines, JoinClear(g) PROVE ClearInv'
    BY <1>5 DEF JoinClear, fileVars, procVars, pastVars, ClearInv, Locked
  <1>6. ASSUME NEW g \in Goroutines, Lock(g) PROVE ClearInv'
    BY <1>6 DEF Lock, fileVars, procVars, pastVars, ClearInv, Locked
  <1>7. ASSUME NEW g \in Goroutines, Read(g) PROVE ClearInv'
    BY <1>7 DEF Read, fileVars, procVars, pastVars, ClearInv, Locked
  <1>8. ASSUME NEW g \in Goroutines, CreateTemp(g) PROVE ClearInv'
    BY <1>8 DEF CreateTemp, procVars, pastVars, ClearInv, Locked
  <1>9. ASSUME NEW g \in Goroutines, WriteTemp(g) PROVE ClearInv'
    BY <1>9 DEF WriteTemp, procVars, pastVars, ClearInv, Locked
  <1>10. ASSUME NEW g \in Goroutines, Rename(g) PROVE ClearInv'
    BY <1>10 DEF Rename, procVars, ClearInv, Locked
  <1>11. ASSUME NEW g \in Goroutines, Fail(g) PROVE ClearInv'
    BY <1>11 DEF Fail, procVars, pastVars, ClearInv, Locked
  <1>12. ASSUME NEW g \in Goroutines, Unlock(g) PROVE ClearInv'
    BY <1>12 DEF Unlock, fileVars, procVars, pastVars, ClearInv, Locked
  <1>13. CASE Crash
    BY <1>13 DEF Crash, ClearInv, Locked
  <1>14. CASE UNCHANGED vars
    BY <1>14 DEF vars, fileVars, callVars, procVars, pastVars, ClearInv, Locked
  <1> QED
    BY <1>1, <1>2, <1>3, <1>4, <1>5, <1>6, <1>7, <1>8, <1>9, <1>10, <1>11,
       <1>12, <1>13, <1>14 DEF Next, CallStep

\* Every step keeps CallInv: Rename and Fail decide a call, and Crash drops it.
LEMMA CallInvStep == HashesInv /\ TypeOK' /\ [Next]_vars => CallInv'
  <1> SUFFICES ASSUME HashesInv, TypeOK', [Next]_vars PROVE CallInv'
    OBVIOUS
  <1> USE HashesAssumption DEF HashesInv, TypeOK, Goto
  <1>1. ASSUME NEW g \in Goroutines, NEW p \in Peers, NEW h \in Hashes,
                   Begin(g, p, h)
        PROVE  CallInv'
    <2> DEFINE v == [hash |-> h, incarnation |-> incarnation]
               c == [peer |-> p, val |-> v]
    <2>1. v \in Entry
      BY DEF Entry
    <2>2. c \in Call
      BY <2>1 DEF Call
    <2>3. c # NoCall /\ c.val.incarnation = incarnation
      BY <2>2
    <2>4. /\ call' = [call EXCEPT ![g] = c]
          /\ pc' = [pc EXCEPT ![g] = "init"]
          /\ incarnation' = incarnation
      BY <1>1 DEF Begin, procVars
    <2> HIDE DEF c
    <2> QED
      BY <2>3, <2>4 DEF CallInv, Pending
  <1>2. ASSUME NEW g \in Goroutines, ReturnEarly(g) PROVE CallInv'
    BY <1>2
       DEF ReturnEarly, fileVars, procVars, pastVars, CallInv, Pending, Call
  <1>3. ASSUME NEW g \in Goroutines, BeginClear(g) PROVE CallInv'
    BY <1>3
       DEF BeginClear, fileVars, procVars, pastVars, CallInv, Pending, Call
  <1>4. ASSUME NEW g \in Goroutines, Remove(g) PROVE CallInv'
    BY <1>4 DEF Remove, procVars, CallInv, Pending, Call
  <1>5. ASSUME NEW g \in Goroutines, JoinClear(g) PROVE CallInv'
    BY <1>5 DEF JoinClear, fileVars, procVars, pastVars, CallInv, Pending, Call
  <1>6. ASSUME NEW g \in Goroutines, Lock(g) PROVE CallInv'
    BY <1>6 DEF Lock, fileVars, procVars, pastVars, CallInv, Pending, Call
  <1>7. ASSUME NEW g \in Goroutines, Read(g) PROVE CallInv'
    BY <1>7 DEF Read, fileVars, procVars, pastVars, CallInv, Pending, Call
  <1>8. ASSUME NEW g \in Goroutines, CreateTemp(g) PROVE CallInv'
    BY <1>8 DEF CreateTemp, procVars, pastVars, CallInv, Pending, Call
  <1>9. ASSUME NEW g \in Goroutines, WriteTemp(g) PROVE CallInv'
    BY <1>9 DEF WriteTemp, procVars, pastVars, CallInv, Pending, Call
  <1>10. ASSUME NEW g \in Goroutines, Rename(g) PROVE CallInv'
    BY <1>10 DEF Rename, procVars, CallInv, Pending, Call
  <1>11. ASSUME NEW g \in Goroutines, Fail(g) PROVE CallInv'
    BY <1>11 DEF Fail, procVars, pastVars, CallInv, Pending, Call
  <1>12. ASSUME NEW g \in Goroutines, Unlock(g) PROVE CallInv'
    BY <1>12 DEF Unlock, fileVars, procVars, pastVars, CallInv, Pending, Call
  <1>13. CASE Crash
    BY <1>13 DEF Crash, CallInv, Pending, Call
  <1>14. CASE UNCHANGED vars
    BY <1>14
       DEF vars, fileVars, callVars, procVars, pastVars, CallInv, Pending, Call
  <1> QED
    BY <1>1, <1>2, <1>3, <1>4, <1>5, <1>6, <1>7, <1>8, <1>9, <1>10, <1>11,
       <1>12, <1>13, <1>14 DEF Next, CallStep

\* Every step keeps SnapshotInv: the file changes in Rename, by the holder of
\* the mutex, and in Remove, when nobody has read it.
LEMMA SnapshotStep == HashesInv /\ TypeOK' /\ [Next]_vars => SnapshotInv'
  <1> SUFFICES ASSUME HashesInv, TypeOK', [Next]_vars PROVE SnapshotInv'
    OBVIOUS
  <1> USE HashesAssumption DEF HashesInv, TypeOK, Goto
  <1>1. ASSUME NEW g \in Goroutines, NEW p \in Peers, NEW h \in Hashes,
                   Begin(g, p, h)
        PROVE  SnapshotInv'
    BY <1>1
       DEF Begin, fileVars, procVars, pastVars, SnapshotInv, View, MutexInv,
           Locked, ClearInv
  <1>2. ASSUME NEW g \in Goroutines, ReturnEarly(g) PROVE SnapshotInv'
    BY <1>2
       DEF ReturnEarly, fileVars, procVars, pastVars, SnapshotInv, View,
           MutexInv, Locked, ClearInv
  <1>3. ASSUME NEW g \in Goroutines, BeginClear(g) PROVE SnapshotInv'
    BY <1>3
       DEF BeginClear, fileVars, procVars, pastVars, SnapshotInv, View,
           MutexInv, Locked, ClearInv
  <1>4. ASSUME NEW g \in Goroutines, Remove(g) PROVE SnapshotInv'
    BY <1>4 DEF Remove, procVars, SnapshotInv, View, MutexInv, Locked, ClearInv
  <1>5. ASSUME NEW g \in Goroutines, JoinClear(g) PROVE SnapshotInv'
    BY <1>5
       DEF JoinClear, fileVars, procVars, pastVars, SnapshotInv, View,
           MutexInv, Locked, ClearInv
  <1>6. ASSUME NEW g \in Goroutines, Lock(g) PROVE SnapshotInv'
    BY <1>6
       DEF Lock, fileVars, procVars, pastVars, SnapshotInv, View, MutexInv,
           Locked, ClearInv
  <1>7. ASSUME NEW g \in Goroutines, Read(g) PROVE SnapshotInv'
    BY <1>7
       DEF Read, fileVars, procVars, pastVars, SnapshotInv, View, MutexInv,
           Locked, ClearInv
  <1>8. ASSUME NEW g \in Goroutines, CreateTemp(g) PROVE SnapshotInv'
    BY <1>8
       DEF CreateTemp, procVars, pastVars, SnapshotInv, View, MutexInv, Locked,
           ClearInv
  <1>9. ASSUME NEW g \in Goroutines, WriteTemp(g) PROVE SnapshotInv'
    BY <1>9
       DEF WriteTemp, procVars, pastVars, SnapshotInv, View, MutexInv, Locked,
           ClearInv
  <1>10. ASSUME NEW g \in Goroutines, Rename(g) PROVE SnapshotInv'
    BY <1>10
       DEF Rename, procVars, SnapshotInv, View, MutexInv, Locked, ClearInv
  <1>11. ASSUME NEW g \in Goroutines, Fail(g) PROVE SnapshotInv'
    BY <1>11
       DEF Fail, procVars, pastVars, SnapshotInv, View, MutexInv, Locked,
           ClearInv
  <1>12. ASSUME NEW g \in Goroutines, Unlock(g) PROVE SnapshotInv'
    BY <1>12
       DEF Unlock, fileVars, procVars, pastVars, SnapshotInv, View, MutexInv,
           Locked, ClearInv
  <1>13. CASE Crash
    BY <1>13 DEF Crash, SnapshotInv, View, MutexInv, Locked, ClearInv
  <1>14. CASE UNCHANGED vars
    BY <1>14
       DEF vars, fileVars, callVars, procVars, pastVars, SnapshotInv, View,
           MutexInv, Locked, ClearInv
  <1> QED
    BY <1>1, <1>2, <1>3, <1>4, <1>5, <1>6, <1>7, <1>8, <1>9, <1>10, <1>11,
       <1>12, <1>13, <1>14 DEF Next, CallStep

\* Every step keeps TempInv: Rename and Fail take the temporary file away.
LEMMA TempStep == HashesInv /\ TypeOK' /\ [Next]_vars => TempInv'
  <1> SUFFICES ASSUME HashesInv, TypeOK', [Next]_vars PROVE TempInv'
    OBVIOUS
  <1> USE HashesAssumption DEF HashesInv, TypeOK, Goto
  <1>1. ASSUME NEW g \in Goroutines, NEW p \in Peers, NEW h \in Hashes,
                   Begin(g, p, h)
        PROVE  TempInv'
    BY <1>1 DEF Begin, fileVars, procVars, pastVars, TempInv
  <1>2. ASSUME NEW g \in Goroutines, ReturnEarly(g) PROVE TempInv'
    BY <1>2 DEF ReturnEarly, fileVars, procVars, pastVars, TempInv
  <1>3. ASSUME NEW g \in Goroutines, BeginClear(g) PROVE TempInv'
    BY <1>3 DEF BeginClear, fileVars, procVars, pastVars, TempInv
  <1>4. ASSUME NEW g \in Goroutines, Remove(g) PROVE TempInv'
    BY <1>4 DEF Remove, procVars, TempInv
  <1>5. ASSUME NEW g \in Goroutines, JoinClear(g) PROVE TempInv'
    BY <1>5 DEF JoinClear, fileVars, procVars, pastVars, TempInv
  <1>6. ASSUME NEW g \in Goroutines, Lock(g) PROVE TempInv'
    BY <1>6 DEF Lock, fileVars, procVars, pastVars, TempInv
  <1>7. ASSUME NEW g \in Goroutines, Read(g) PROVE TempInv'
    BY <1>7 DEF Read, fileVars, procVars, pastVars, TempInv
  <1>8. ASSUME NEW g \in Goroutines, CreateTemp(g) PROVE TempInv'
    BY <1>8 DEF CreateTemp, procVars, pastVars, TempInv
  <1>9. ASSUME NEW g \in Goroutines, WriteTemp(g) PROVE TempInv'
    BY <1>9 DEF WriteTemp, procVars, pastVars, TempInv
  <1>10. ASSUME NEW g \in Goroutines, Rename(g) PROVE TempInv'
    BY <1>10 DEF Rename, procVars, TempInv
  <1>11. ASSUME NEW g \in Goroutines, Fail(g) PROVE TempInv'
    BY <1>11 DEF Fail, procVars, pastVars, TempInv
  <1>12. ASSUME NEW g \in Goroutines, Unlock(g) PROVE TempInv'
    BY <1>12 DEF Unlock, fileVars, procVars, pastVars, TempInv
  <1>13. CASE Crash
    BY <1>13 DEF Crash, TempInv
  <1>14. CASE UNCHANGED vars
    BY <1>14 DEF vars, fileVars, callVars, procVars, pastVars, TempInv
  <1> QED
    BY <1>1, <1>2, <1>3, <1>4, <1>5, <1>6, <1>7, <1>8, <1>9, <1>10, <1>11,
       <1>12, <1>13, <1>14 DEF Next, CallStep

\* Every step keeps FileInv: Rename publishes a complete map that differs from
\* the file in one entry, and Remove runs before anything was recorded.
LEMMA FileStep == HashesInv /\ TypeOK' /\ [Next]_vars => FileInv'
  <1> SUFFICES ASSUME HashesInv, TypeOK', [Next]_vars PROVE FileInv'
    OBVIOUS
  <1> USE HashesAssumption DEF HashesInv, TypeOK, Goto
  <1>1. ASSUME NEW g \in Goroutines, NEW p \in Peers, NEW h \in Hashes,
                   Begin(g, p, h)
        PROVE  FileInv'
    BY <1>1
       DEF Begin, fileVars, procVars, pastVars, FileInv, NeverTorn,
           RecordedStays, NoStaleEntry
  <1>2. ASSUME NEW g \in Goroutines, ReturnEarly(g) PROVE FileInv'
    BY <1>2
       DEF ReturnEarly, fileVars, procVars, pastVars, FileInv, NeverTorn,
           RecordedStays, NoStaleEntry
  <1>3. ASSUME NEW g \in Goroutines, BeginClear(g) PROVE FileInv'
    BY <1>3
       DEF BeginClear, fileVars, procVars, pastVars, FileInv, NeverTorn,
           RecordedStays, NoStaleEntry
  <1>4. ASSUME NEW g \in Goroutines, Remove(g) PROVE FileInv'
    <2>1. recorded = {} /\ recorded' = {}
      BY <1>4 DEF Remove, ClearInv, FileInv
    <2>2. CASE file' = Absent
      BY <2>1, <2>2 DEF FileInv, NeverTorn, RecordedStays, NoStaleEntry
    <2>3. CASE clearFailed' /\ file' = file
      BY <2>1, <2>3 DEF FileInv, NeverTorn, RecordedStays, NoStaleEntry
    <2> QED
      BY <1>4, <2>2, <2>3 DEF Remove
  <1>5. ASSUME NEW g \in Goroutines, JoinClear(g) PROVE FileInv'
    BY <1>5
       DEF JoinClear, fileVars, procVars, pastVars, FileInv, NeverTorn,
           RecordedStays, NoStaleEntry
  <1>6. ASSUME NEW g \in Goroutines, Lock(g) PROVE FileInv'
    BY <1>6
       DEF Lock, fileVars, procVars, pastVars, FileInv, NeverTorn,
           RecordedStays, NoStaleEntry
  <1>7. ASSUME NEW g \in Goroutines, Read(g) PROVE FileInv'
    BY <1>7
       DEF Read, fileVars, procVars, pastVars, FileInv, NeverTorn,
           RecordedStays, NoStaleEntry
  <1>8. ASSUME NEW g \in Goroutines, CreateTemp(g) PROVE FileInv'
    BY <1>8
       DEF CreateTemp, procVars, pastVars, FileInv, NeverTorn, RecordedStays,
           NoStaleEntry
  <1>9. ASSUME NEW g \in Goroutines, WriteTemp(g) PROVE FileInv'
    BY <1>9
       DEF WriteTemp, procVars, pastVars, FileInv, NeverTorn, RecordedStays,
           NoStaleEntry
  <1>10. ASSUME NEW g \in Goroutines, Rename(g) PROVE FileInv'
    <2> DEFINE c == call[g]
    <2>1. /\ c \in Call
          /\ c.val.incarnation = incarnation
          /\ peerHashesInit = "done"
      BY <1>10 DEF Rename, CallInv, Pending, ClearInv, Locked
    <2>2. View \in Contents
      BY EmptyType DEF View, FileInv, NeverTorn
    <2>3. file' = [View EXCEPT ![c.peer] = c.val]
      BY <1>10 DEF Rename, TempInv, SnapshotInv
    <2>4. /\ recorded' = recorded \cup {c.peer}
          /\ UNCHANGED <<peerHashesInit, incarnation, clearFailed>>
      BY <1>10 DEF Rename, procVars
    <2>5. c.peer \in Peers /\ c.val \in Entry
      BY <2>1 DEF Call
    <2>6. file' \in Contents
      BY <2>2, <2>3, <2>5 DEF Contents
    <2>7. /\ file'[c.peer] = c.val
          /\ \A q \in Peers : q # c.peer => file'[q] = View[q]
      BY <2>2, <2>3, <2>5 DEF Contents
    <2> HIDE DEF c
    <2>8. NeverTorn'
      BY <2>6 DEF NeverTorn
    <2>9. RecordedStays'
      <3> SUFFICES ASSUME NEW q \in recorded'
                   PROVE  /\ file'[q] # NoEntry
                          /\ file'[q].incarnation = incarnation
        BY <2>4, <2>6 DEF RecordedStays
      <3>1. CASE q = c.peer
        BY <2>1, <2>5, <2>7, <3>1
      <3>2. CASE q # c.peer
        BY <2>4, <2>7, <3>2 DEF FileInv, RecordedStays, View
      <3> QED
        BY <3>1, <3>2
    <2>10. NoStaleEntry'
      <3> SUFFICES ASSUME ~ clearFailed, NEW q \in Peers, file'[q] # NoEntry
                   PROVE  file'[q].incarnation = incarnation
        BY <2>4 DEF NoStaleEntry
      <3>1. CASE q = c.peer
        BY <2>1, <2>7, <3>1
      <3>2. CASE q # c.peer
        BY <2>1, <2>7, <3>2 DEF FileInv, NoStaleEntry, View, Empty
      <3> QED
        BY <3>1, <3>2
    <2> QED
      BY <2>1, <2>4, <2>8, <2>9, <2>10 DEF FileInv
  <1>11. ASSUME NEW g \in Goroutines, Fail(g) PROVE FileInv'
    BY <1>11
       DEF Fail, procVars, pastVars, FileInv, NeverTorn, RecordedStays,
           NoStaleEntry
  <1>12. ASSUME NEW g \in Goroutines, Unlock(g) PROVE FileInv'
    BY <1>12
       DEF Unlock, fileVars, procVars, pastVars, FileInv, NeverTorn,
           RecordedStays, NoStaleEntry
  <1>13. CASE Crash
    BY <1>13 DEF Crash, FileInv, NeverTorn, RecordedStays, NoStaleEntry
  <1>14. CASE UNCHANGED vars
    BY <1>14
       DEF vars, fileVars, callVars, procVars, pastVars, FileInv, NeverTorn,
           RecordedStays, NoStaleEntry
  <1> QED
    BY <1>1, <1>2, <1>3, <1>4, <1>5, <1>6, <1>7, <1>8, <1>9, <1>10, <1>11,
       <1>12, <1>13, <1>14 DEF Next, CallStep

------------------------------------------------------------------------------

\* HashesInv is an invariant of recordPeerHash.
THEOREM HashesInvariant == Spec => []HashesInv
  <1>1. HashesInv /\ [Next]_vars => HashesInv'
    BY TypeStep, MutexStep, ClearStep, CallInvStep, SnapshotStep, TempStep,
       FileStep
       DEF HashesInv
  <1> QED
    BY InitInv, <1>1, PTL DEF Spec

\* Type correctness.
THEOREM TypeCorrect == Spec => []TypeOK
  <1>1. HashesInv => TypeOK
    BY DEF HashesInv
  <1> QED
    BY HashesInvariant, <1>1, PTL

\* The broker never reads a half-written file: writePeerHashes publishes by
\* rename what it has written completely.
THEOREM FileIsNeverTorn == Spec => []NeverTorn
  <1>1. HashesInv => NeverTorn
    BY DEF HashesInv, FileInv
  <1> QED
    BY HashesInvariant, <1>1, PTL

\* No entry that this process recorded is lost, to a concurrent update or to
\* the clearing of the old file.
THEOREM RecordsAreKept == Spec => []RecordedStays
  <1>1. HashesInv => RecordedStays
    BY DEF HashesInv, FileInv
  <1> QED
    BY HashesInvariant, <1>1, PTL

\* After peerHashesInit has removed the old file, no entry of an earlier
\* process comes back.
THEOREM StaleEntriesAreGone == Spec => []NoStaleEntry
  <1>1. HashesInv => NoStaleEntry
    BY DEF HashesInv, FileInv
  <1> QED
    BY HashesInvariant, <1>1, PTL

\* At most one temporary file exists, while its writer holds peerHashesMu.
THEOREM TempFilesAreRemoved == Spec => []OneTempFile
  <1>1. HashesInv => OneTempFile
    BY DEF HashesInv, TempInv, MutexInv, Locked, OneTempFile
  <1> QED
    BY HashesInvariant, <1>1, PTL

------------------------------------------------------------------------------

\* The initial state of the file is that of the register.
LEMMA RegisterInit == Init => Register!Init
  BY DEF Init, Register!Init, Empty, Register!Empty

\* Every step of recordPeerHash is a step of the register or leaves it alone.
LEMMA RegisterStep ==
    HashesInv /\ [Next]_vars => [Register!Next]_(Register!vars)
  <1> SUFFICES ASSUME HashesInv, [Next]_vars
               PROVE  [Register!Next]_(Register!vars)
    OBVIOUS
  <1> USE HashesAssumption DEF HashesInv, TypeOK, Goto
  <1>1. ASSUME NEW g \in Goroutines, NEW p \in Peers, NEW h \in Hashes,
               Begin(g, p, h)
        PROVE  Register!Call(g)
    <2>1. [hash |-> h, incarnation |-> incarnation] \in Entry
      BY DEF Entry
    <2>2. call[g] = NoCall
      BY <1>1 DEF Begin, CallInv, Pending
    <2> QED
      BY <1>1, <2>1, <2>2 DEF Begin, fileVars, Register!Call
  <1>2. ASSUME NEW g \in Goroutines, ReturnEarly(g)
        PROVE  Register!ReturnEarly(g)
    BY <1>2
       DEF ReturnEarly, fileVars, CallInv, Pending, Register!ReturnEarly
  <1>3. ASSUME NEW g \in Goroutines, BeginClear(g)
        PROVE  UNCHANGED Register!vars
    BY <1>3 DEF BeginClear, fileVars, Register!vars
  <1>4. ASSUME NEW g \in Goroutines, Remove(g) PROVE Register!Clear
    <2>1. peerHashesInit = "running"
      BY <1>4 DEF Remove, ClearInv
    <2> QED
      BY <1>4, <2>1 DEF Remove, Register!Clear, Register!Empty, Empty
  <1>5. ASSUME NEW g \in Goroutines, JoinClear(g)
        PROVE  UNCHANGED Register!vars
    BY <1>5 DEF JoinClear, fileVars, Register!vars
  <1>6. ASSUME NEW g \in Goroutines, Lock(g) PROVE UNCHANGED Register!vars
    BY <1>6 DEF Lock, fileVars, Register!vars
  <1>7. ASSUME NEW g \in Goroutines, Read(g) PROVE UNCHANGED Register!vars
    BY <1>7 DEF Read, fileVars, Register!vars
  <1>8. ASSUME NEW g \in Goroutines, CreateTemp(g)
        PROVE  UNCHANGED Register!vars
    BY <1>8 DEF CreateTemp, Register!vars
  <1>9. ASSUME NEW g \in Goroutines, WriteTemp(g)
        PROVE  UNCHANGED Register!vars
    BY <1>9 DEF WriteTemp, Register!vars
  <1>10. ASSUME NEW g \in Goroutines, Rename(g) PROVE Register!TakeEffect(g)
    <2>1. call[g] # NoCall /\ peerHashesInit = "done"
      BY <1>10 DEF Rename, CallInv, Pending, ClearInv, Locked
    <2>2. file' = [View EXCEPT ![call[g].peer] = call[g].val]
      BY <1>10 DEF Rename, TempInv, SnapshotInv
    <2>3. file' # Absent
      <3>1. hashes[g] \in Contents /\ file' = hashes[g]
        BY <1>10 DEF Rename, TempInv
      <3> QED
        BY <3>1
    <2> QED
      BY <1>10, <2>1, <2>2, <2>3 DEF Rename, View, Register!TakeEffect
  <1>11. ASSUME NEW g \in Goroutines, Fail(g) PROVE Register!Fail(g)
    BY <1>11 DEF Fail, CallInv, Pending, ClearInv, Locked, Register!Fail
  <1>12. ASSUME NEW g \in Goroutines, Unlock(g)
         PROVE  UNCHANGED Register!vars
    BY <1>12 DEF Unlock, fileVars, Register!vars
  <1>13. CASE Crash
    <2>1. Register!Restart
      BY <1>13 DEF Crash, Register!Restart
    <2> QED
      BY <2>1 DEF Register!Next
  <1>14. CASE UNCHANGED vars
    BY <1>14 DEF vars, fileVars, callVars, Register!vars
  <1> QED
    BY <1>1, <1>2, <1>3, <1>4, <1>5, <1>6, <1>7, <1>8, <1>9, <1>10, <1>11,
       <1>12, <1>13, <1>14 DEF Next, CallStep, Register!Next

\* recordPeerHash implements the atomic register: under any interleaving,
\* failure and crash its calls take effect one at a time, each at its rename,
\* or not at all.
THEOREM Refinement == Spec => ImplementsRegister
  <1> QED
    BY HashesInvariant, RegisterInit, RegisterStep, PTL
       DEF Spec, ImplementsRegister, Register!Spec
=============================================================================
