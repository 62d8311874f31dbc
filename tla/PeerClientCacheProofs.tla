------------------------ MODULE PeerClientCacheProofs ------------------------
(***************************************************************************)
(* Proofs about PeerClientCache for any number of goroutines, peers,       *)
(* entries and cards.  The safety properties rest on one inductive         *)
(* invariant, CacheInv, whose parts say what the cache relies on at each   *)
(* point of a call.                                                        *)
(***************************************************************************)
EXTENDS PeerClientCache, TLAPS

InCall(g) == pc[g] # "idle"

\* Only allocated entries are in the map, in a call or in the history, and an
\* entry belongs to one name.
Ownership ==
    /\ \A e \in Entries :
          e >= nextEntry => /\ entry[e] = NewEntry
                            /\ e \notin forgotten
                            /\ e \notin reported
    /\ \A p \in Peers : peerClients[p] < nextEntry
    /\ \A g \in Goroutines : held[g] < nextEntry
    /\ \A p, q \in Peers :
          peerClients[p] = peerClients[q] /\ peerClients[p] # NoEntry => p = q
    /\ \A g \in Goroutines : InCall(g) =>
          /\ arg[g] \in Peers
          /\ held[g] # NoEntry
          /\ \A q \in Peers : peerClients[q] = held[g] => q = arg[g]
    /\ \A g, h \in Goroutines :
          InCall(g) /\ InCall(h) /\ held[g] = held[h] => arg[g] = arg[h]

\* sync.Once: a running build has exactly one builder, a finished one none.
OnceInv ==
    /\ \A g \in Goroutines :
          /\ pc[g] \in BuildSteps => entry[held[g]].once = "running"
          /\ pc[g] = "check" => entry[held[g]].once = "done"
          /\ pc[g] \in {"construct", "record"}
                 => entry[held[g]].card # Unresolved
    /\ \A g, h \in Goroutines :
          pc[g] \in BuildSteps /\ pc[h] \in BuildSteps /\ held[g] = held[h]
              => g = h
    /\ \A e \in Entries :
          /\ entry[e].outcome # "none" => entry[e].once = "done"
          /\ entry[e].outcome = "ok" => entry[e].card # Unresolved

\* An allocated entry leaves the map only by ForgetPeer or after it failed,
\* and one whose error was returned has left it.
KeptInv ==
    /\ \A e \in Entries :
          e < nextEntry /\ e \notin forgotten /\ entry[e].outcome # "err"
              => \E p \in Peers : peerClients[p] = e
    /\ \A e \in reported : entry[e].outcome = "err"
    /\ FailureNotCached

\* Entries that calls may still use were resolved after the ForgetPeer that
\* preceded the call.
FreshInv ==
    /\ \A p \in Peers : lastForget[p] =< liveCard[p]
    /\ \A p \in Peers : peerClients[p] # NoEntry =>
          \/ entry[peerClients[p]].card = Unresolved
          \/ entry[peerClients[p]].card >= lastForget[p]
    /\ \A g \in Goroutines : InCall(g) =>
          /\ floor[g] =< liveCard[arg[g]]
          /\ \/ entry[held[g]].card = Unresolved
             \/ entry[held[g]].card >= floor[g]
          /\ ret[g] = "none"
    /\ \A g \in Goroutines : ret[g] = "client" =>
          /\ held[g] # NoEntry
          /\ entry[held[g]].once = "done"
          /\ entry[held[g]].card >= floor[g]

\* While no ForgetPeer overlapped a build, the entry in the map is the only
\* one of its peer that can still record a hash.
HashInv ==
    /\ \A p \in Peers : ~ busyForget[p] =>
          \A g \in Goroutines : arg[g] = p /\ MayBuild(g) =>
              entry[held[g]].once = "done" \/ peerClients[p] = held[g]
    /\ HashMatchesCachedClient

CacheInv == TypeOK /\ Ownership /\ OnceInv /\ KeptInv /\ FreshInv /\ HashInv

------------------------------------------------------------------------------

\* The initial state satisfies the invariant.
LEMMA InitInv == Init => CacheInv
  <1> SUFFICES ASSUME Init PROVE CacheInv
    OBVIOUS
  <1> USE CacheAssumption DEF Init, Entries, NoEntry, Unresolved, Cards
  <1>1. TypeOK
    BY DEF TypeOK, Entry, NewEntry
  <1>2. Ownership
    BY DEF Ownership, InCall
  <1>3. OnceInv
    BY DEF OnceInv, BuildSteps, NewEntry
  <1>4. KeptInv
    BY DEF KeptInv, FailureNotCached
  <1>5. FreshInv
    BY DEF FreshInv, InCall
  <1>6. HashInv
    BY DEF HashInv, HashMatchesCachedClient, MayBuild, BuildSteps
  <1> QED
    BY <1>1, <1>2, <1>3, <1>4, <1>5, <1>6 DEF CacheInv

\* Assigning the fields of one entry keeps the entries in their type.
LEMMA AssignEntry ==
    ASSUME entry \in [Entries -> Entry],
           NEW e \in Entries,
           NEW r, entry[e] \in Entry => r \in Entry,
           entry' = [entry EXCEPT ![e] = r]
    PROVE  entry' \in [Entries -> Entry]
  <1>1. r \in Entry
    OBVIOUS
  <1> QED
    BY <1>1

\* Every step keeps the variables in their types, given that a call under way
\* has an argument and an entry.
LEMMA TypeStep == CacheInv /\ [Next]_vars => TypeOK'
  <1> SUFFICES ASSUME CacheInv, [Next]_vars PROVE TypeOK'
    OBVIOUS
  <1> USE CacheAssumption DEF CacheInv, TypeOK, Entries, NoEntry, Unresolved,
                              Cards, BuildSteps, Goto
  <1>1. ASSUME NEW g \in Goroutines, NEW p \in Peers, Lookup(g, p)
        PROVE  TypeOK'
    <2>1. /\ peerClients' \in [Peers -> Entries \cup {NoEntry}]
          /\ nextEntry' \in 1 .. MaxEntries + 1
      <3>1. CASE UNCHANGED <<peerClients, nextEntry>>
        BY <3>1
      <3>2. CASE /\ nextEntry \in Entries
                 /\ peerClients' = [peerClients EXCEPT ![p] = nextEntry]
                 /\ nextEntry' = nextEntry + 1
        BY <3>2
      <3> QED
        BY <1>1, <3>1, <3>2 DEF Lookup
    <2>2. held' \in [Goroutines -> Entries \cup {NoEntry}]
      BY <1>1, <2>1 DEF Lookup
    <2> QED
      BY <1>1, <2>1, <2>2 DEF Lookup, pastVars
  <1>2. ASSUME NEW g \in Goroutines, BeginBuild(g) PROVE TypeOK'
    <2>1. arg[g] \in Peers /\ held[g] \in Entries
      BY <1>2 DEF BeginBuild, Ownership, InCall
    <2>2. entry' \in [Entries -> Entry]
      <3> DEFINE r == [entry[held[g]] EXCEPT !.once = "running"]
      <3>1. entry[held[g]] \in Entry => r \in Entry
        BY <2>1 DEF Entry
      <3>2. entry' = [entry EXCEPT ![held[g]] = r]
        BY <1>2 DEF BeginBuild
      <3> HIDE DEF r
      <3> QED
        BY <2>1, <3>1, <3>2, AssignEntry
    <2> QED
      BY <1>2, <2>2 DEF BeginBuild, pastVars
  <1>3. ASSUME NEW g \in Goroutines, JoinBuild(g) PROVE TypeOK'
    BY <1>3 DEF JoinBuild, pastVars, cacheVars
  <1>4. ASSUME NEW g \in Goroutines, ResolveCard(g) PROVE TypeOK'
    <2>1. arg[g] \in Peers /\ held[g] \in Entries
      BY <1>4 DEF ResolveCard, Ownership, InCall
    <2>2. entry' \in [Entries -> Entry]
      <3> DEFINE r == [entry[held[g]] EXCEPT !.card = liveCard[arg[g]]]
      <3>1. entry[held[g]] \in Entry => r \in Entry
        BY <2>1 DEF Entry
      <3>2. entry' = [entry EXCEPT ![held[g]] = r]
        BY <1>4 DEF ResolveCard
      <3> HIDE DEF r
      <3> QED
        BY <2>1, <3>1, <3>2, AssignEntry
    <2> QED
      BY <1>4, <2>2 DEF ResolveCard, pastVars
  <1>5. ASSUME NEW g \in Goroutines, NewFromCard(g) PROVE TypeOK'
    BY <1>5 DEF NewFromCard, pastVars, cacheVars
  <1>6. ASSUME NEW g \in Goroutines, BuildFails(g) PROVE TypeOK'
    <2>1. arg[g] \in Peers /\ held[g] \in Entries
      BY <1>6 DEF BuildFails, Ownership, InCall
    <2>2. entry' \in [Entries -> Entry]
      <3> DEFINE r == [entry[held[g]] EXCEPT !.once = "done", !.outcome = "err"]
      <3>1. entry[held[g]] \in Entry => r \in Entry
        BY <2>1 DEF Entry
      <3>2. entry' = [entry EXCEPT ![held[g]] = r]
        BY <1>6 DEF BuildFails
      <3> HIDE DEF r
      <3> QED
        BY <2>1, <3>1, <3>2, AssignEntry
    <2> QED
      BY <1>6, <2>2 DEF BuildFails, pastVars
  <1>7. ASSUME NEW g \in Goroutines, BuildPanics(g) PROVE TypeOK'
    <2>1. arg[g] \in Peers /\ held[g] \in Entries
      BY <1>7 DEF BuildPanics, Ownership, InCall
    <2>2. entry' \in [Entries -> Entry]
      <3> DEFINE r == [entry[held[g]] EXCEPT !.once = "done"]
      <3>1. entry[held[g]] \in Entry => r \in Entry
        BY <2>1 DEF Entry
      <3>2. entry' = [entry EXCEPT ![held[g]] = r]
        BY <1>7 DEF BuildPanics
      <3> HIDE DEF r
      <3> QED
        BY <2>1, <3>1, <3>2, AssignEntry
    <2> QED
      BY <1>7, <2>2 DEF BuildPanics, pastVars
  <1>8. ASSUME NEW g \in Goroutines, RecordPeerHash(g) PROVE TypeOK'
    <2>1. arg[g] \in Peers /\ held[g] \in Entries
      BY <1>8 DEF RecordPeerHash, Ownership, InCall
    <2>2. PICK written \in BOOLEAN :
             /\ entry' = [entry EXCEPT ![held[g]] =
                    [@ EXCEPT !.once = "done", !.outcome = "ok",
                              !.recorded = written]]
             /\ hashes' = IF written
                          THEN [hashes EXCEPT ![arg[g]] = entry[held[g]].card]
                          ELSE hashes
      BY <1>8 DEF RecordPeerHash
    <2>3. entry' \in [Entries -> Entry]
      <3> DEFINE r == [entry[held[g]] EXCEPT !.once = "done", !.outcome = "ok",
                                             !.recorded = written]
      <3>1. entry[held[g]] \in Entry
        BY <2>1
      <3>2. r \in Entry
        BY <3>1 DEF Entry
      <3>3. entry' = [entry EXCEPT ![held[g]] = r]
        BY <2>2
      <3> HIDE DEF r
      <3> QED
        BY <3>2, <3>3
    <2>4. hashes' \in [Peers -> Cards \cup {Unresolved}]
      BY <2>1, <2>2 DEF Entry
    <2> QED
      BY <1>8, <2>3, <2>4 DEF RecordPeerHash, pastVars
  <1>9. ASSUME NEW g \in Goroutines, ReturnClient(g) PROVE TypeOK'
    BY <1>9 DEF ReturnClient, pastVars, cacheVars
  <1>10. ASSUME NEW g \in Goroutines, ReturnError(g) PROVE TypeOK'
    <2>1. held[g] \in Entries
      BY <1>10 DEF ReturnError, Ownership, InCall
    <2> QED
      BY <1>10, <2>1 DEF ReturnError, forgetEntry
  <1>11. ASSUME NEW p \in Peers, ForgetPeer(p) PROVE TypeOK'
    BY <1>11 DEF ForgetPeer, callVars
  <1>12. ASSUME NEW p \in Peers, ChangeCard(p) PROVE TypeOK'
    BY <1>12 DEF ChangeCard, pastVars, cacheVars, callVars
  <1>13. CASE UNCHANGED vars
    BY <1>13 DEF vars, pastVars, cacheVars, callVars
  <1> QED
    BY <1>1, <1>2, <1>3, <1>4, <1>5, <1>6, <1>7, <1>8, <1>9, <1>10, <1>11,
       <1>12, <1>13 DEF Next, CallStep

\* Every step keeps Ownership: a lookup that misses puts a fresh entry in the
\* map, and no other step gives an entry a second name.
LEMMA OwnershipStep == CacheInv /\ TypeOK' /\ [Next]_vars => Ownership'
  <1> SUFFICES ASSUME CacheInv, TypeOK', [Next]_vars PROVE Ownership'
    OBVIOUS
  <1> USE CacheAssumption DEF CacheInv, TypeOK, Entries, NoEntry, Unresolved,
                              Cards, BuildSteps, Goto
  <1>1. ASSUME NEW g \in Goroutines, NEW p \in Peers, Lookup(g, p)
        PROVE  Ownership'
    <2>1. CASE /\ peerClients[p] # NoEntry
               /\ UNCHANGED <<peerClients, nextEntry>>
      <3>1. held' = [held EXCEPT ![g] = peerClients[p]]
        BY <1>1, <2>1 DEF Lookup
      <3> QED
        BY <1>1, <2>1, <3>1 DEF Lookup, pastVars, Ownership, InCall
    <2>2. CASE /\ peerClients[p] = NoEntry
               /\ nextEntry \in Entries
               /\ peerClients' = [peerClients EXCEPT ![p] = nextEntry]
               /\ nextEntry' = nextEntry + 1
      <3>1. held' = [held EXCEPT ![g] = nextEntry]
        BY <1>1, <2>2 DEF Lookup
      <3>2. UNCHANGED <<entry, forgotten, reported>>
        BY <1>1 DEF Lookup, pastVars
      <3>3. /\ arg' = [arg EXCEPT ![g] = p]
            /\ pc' = [pc EXCEPT ![g] = "once"]
        BY <1>1 DEF Lookup
      <3>4. \A h \in Goroutines : held[h] # nextEntry
        BY DEF Ownership
      <3>5. \A q \in Peers : peerClients[q] # nextEntry
        BY DEF Ownership
      <3>6. \A q \in Peers : peerClients'[q] < nextEntry'
        BY <2>2 DEF Ownership
      <3>7. \A h \in Goroutines : held'[h] < nextEntry'
        BY <2>2, <3>1 DEF Ownership
      <3>8. \A q, r \in Peers :
               peerClients'[q] = peerClients'[r] /\ peerClients'[q] # NoEntry
                   => q = r
        BY <2>2, <3>5 DEF Ownership
      <3>9. \A h \in Goroutines : InCall(h)' =>
               /\ arg'[h] \in Peers
               /\ held'[h] # NoEntry
               /\ \A q \in Peers : peerClients'[q] = held'[h] => q = arg'[h]
        BY <2>2, <3>1, <3>3, <3>4, <3>5 DEF Ownership, InCall
      <3>10. \A h, k \in Goroutines :
                InCall(h)' /\ InCall(k)' /\ held'[h] = held'[k]
                    => arg'[h] = arg'[k]
        BY <2>2, <3>1, <3>3, <3>4 DEF Ownership, InCall
      <3>11. \A e \in Entries : e >= nextEntry' =>
                entry[e] = NewEntry /\ e \notin forgotten /\ e \notin reported
        BY <2>2 DEF Ownership
      <3> QED
        BY <3>2, <3>6, <3>7, <3>8, <3>9, <3>10, <3>11 DEF Ownership
    <2> QED
      BY <1>1, <2>1, <2>2 DEF Lookup
  <1>2. ASSUME NEW g \in Goroutines, BeginBuild(g) PROVE Ownership'
    BY <1>2 DEF BeginBuild, pastVars, Ownership, InCall
  <1>3. ASSUME NEW g \in Goroutines, JoinBuild(g) PROVE Ownership'
    BY <1>3 DEF JoinBuild, pastVars, cacheVars, Ownership, InCall
  <1>4. ASSUME NEW g \in Goroutines, ResolveCard(g) PROVE Ownership'
    BY <1>4 DEF ResolveCard, pastVars, Ownership, InCall
  <1>5. ASSUME NEW g \in Goroutines, NewFromCard(g) PROVE Ownership'
    BY <1>5 DEF NewFromCard, pastVars, cacheVars, Ownership, InCall
  <1>6. ASSUME NEW g \in Goroutines, BuildFails(g) PROVE Ownership'
    BY <1>6 DEF BuildFails, pastVars, Ownership, InCall
  <1>7. ASSUME NEW g \in Goroutines, BuildPanics(g) PROVE Ownership'
    BY <1>7 DEF BuildPanics, pastVars, Ownership, InCall
  <1>8. ASSUME NEW g \in Goroutines, RecordPeerHash(g) PROVE Ownership'
    BY <1>8 DEF RecordPeerHash, pastVars, Ownership, InCall
  <1>9. ASSUME NEW g \in Goroutines, ReturnClient(g) PROVE Ownership'
    BY <1>9 DEF ReturnClient, pastVars, cacheVars, Ownership, InCall
  <1>10. ASSUME NEW g \in Goroutines, ReturnError(g) PROVE Ownership'
    BY <1>10 DEF ReturnError, forgetEntry, Ownership, InCall
  <1>11. ASSUME NEW p \in Peers, ForgetPeer(p) PROVE Ownership'
    BY <1>11 DEF ForgetPeer, callVars, Ownership, InCall
  <1>12. ASSUME NEW p \in Peers, ChangeCard(p) PROVE Ownership'
    BY <1>12 DEF ChangeCard, pastVars, cacheVars, callVars, Ownership, InCall
  <1>13. CASE UNCHANGED vars
    BY <1>13 DEF vars, pastVars, cacheVars, callVars, Ownership, InCall
  <1> QED
    BY <1>1, <1>2, <1>3, <1>4, <1>5, <1>6, <1>7, <1>8, <1>9, <1>10, <1>11,
       <1>12, <1>13 DEF Next, CallStep

\* Every step keeps OnceInv: the first caller alone enters the build, and only
\* the builder ends it.
LEMMA OnceStep == CacheInv /\ TypeOK' /\ [Next]_vars => OnceInv'
  <1> SUFFICES ASSUME CacheInv, TypeOK', [Next]_vars PROVE OnceInv'
    OBVIOUS
  <1> USE CacheAssumption DEF CacheInv, TypeOK, Entries, NoEntry, Unresolved,
                              Cards, BuildSteps, Goto
  <1>1. ASSUME NEW g \in Goroutines, NEW p \in Peers, Lookup(g, p)
        PROVE  OnceInv'
    BY <1>1 DEF Lookup, pastVars, Ownership, InCall, OnceInv
  <1>2. ASSUME NEW g \in Goroutines, BeginBuild(g) PROVE OnceInv'
    BY <1>2 DEF BeginBuild, pastVars, Ownership, InCall, OnceInv
  <1>3. ASSUME NEW g \in Goroutines, JoinBuild(g) PROVE OnceInv'
    BY <1>3 DEF JoinBuild, pastVars, cacheVars, Ownership, InCall, OnceInv
  <1>4. ASSUME NEW g \in Goroutines, ResolveCard(g) PROVE OnceInv'
    BY <1>4 DEF ResolveCard, pastVars, Ownership, InCall, OnceInv
  <1>5. ASSUME NEW g \in Goroutines, NewFromCard(g) PROVE OnceInv'
    BY <1>5 DEF NewFromCard, pastVars, cacheVars, Ownership, InCall, OnceInv
  <1>6. ASSUME NEW g \in Goroutines, BuildFails(g) PROVE OnceInv'
    BY <1>6 DEF BuildFails, pastVars, Ownership, InCall, OnceInv
  <1>7. ASSUME NEW g \in Goroutines, BuildPanics(g) PROVE OnceInv'
    BY <1>7 DEF BuildPanics, pastVars, Ownership, InCall, OnceInv
  <1>8. ASSUME NEW g \in Goroutines, RecordPeerHash(g) PROVE OnceInv'
    BY <1>8 DEF RecordPeerHash, pastVars, Ownership, InCall, OnceInv
  <1>9. ASSUME NEW g \in Goroutines, ReturnClient(g) PROVE OnceInv'
    BY <1>9 DEF ReturnClient, pastVars, cacheVars, Ownership, InCall, OnceInv
  <1>10. ASSUME NEW g \in Goroutines, ReturnError(g) PROVE OnceInv'
    BY <1>10 DEF ReturnError, forgetEntry, Ownership, InCall, OnceInv
  <1>11. ASSUME NEW p \in Peers, ForgetPeer(p) PROVE OnceInv'
    BY <1>11 DEF ForgetPeer, callVars, Ownership, InCall, OnceInv
  <1>12. ASSUME NEW p \in Peers, ChangeCard(p) PROVE OnceInv'
    BY <1>12
       DEF ChangeCard, pastVars, cacheVars, callVars, Ownership, InCall,
           OnceInv
  <1>13. CASE UNCHANGED vars
    BY <1>13
       DEF vars, pastVars, cacheVars, callVars, Ownership, InCall, OnceInv
  <1> QED
    BY <1>1, <1>2, <1>3, <1>4, <1>5, <1>6, <1>7, <1>8, <1>9, <1>10, <1>11,
       <1>12, <1>13 DEF Next, CallStep

\* Every step keeps KeptInv: ReturnError drops an entry that failed and no
\* other, and RecordPeerHash finishes an entry that had no outcome yet.
LEMMA KeptStep == CacheInv /\ TypeOK' /\ [Next]_vars => KeptInv'
  <1> SUFFICES ASSUME CacheInv, TypeOK', [Next]_vars PROVE KeptInv'
    OBVIOUS
  <1> USE CacheAssumption DEF CacheInv, TypeOK, Entries, NoEntry, Unresolved,
                              Cards, BuildSteps, Goto
  <1>1. ASSUME NEW g \in Goroutines, NEW p \in Peers, Lookup(g, p)
        PROVE  KeptInv'
    <2>1. UNCHANGED <<entry, forgotten, reported>>
      BY <1>1 DEF Lookup, pastVars
    <2>2. CASE UNCHANGED <<peerClients, nextEntry>>
      BY <2>1, <2>2 DEF KeptInv, FailureNotCached
    <2>3. CASE /\ peerClients[p] = NoEntry
               /\ nextEntry \in Entries
               /\ peerClients' = [peerClients EXCEPT ![p] = nextEntry]
               /\ nextEntry' = nextEntry + 1
      <3>1. ASSUME NEW e \in Entries, e < nextEntry', e \notin forgotten,
                   entry[e].outcome # "err"
            PROVE  \E q \in Peers : peerClients'[q] = e
        <4>1. CASE e = nextEntry
          BY <2>3, <4>1
        <4>2. CASE e < nextEntry
          <5>1. PICK q \in Peers : peerClients[q] = e
            BY <3>1, <4>2 DEF KeptInv
          <5>2. q # p
            BY <2>3, <5>1
          <5> QED
            BY <2>3, <5>1, <5>2
        <4> QED
          BY <2>3, <3>1, <4>1, <4>2
      <3>2. FailureNotCached'
        BY <2>1, <2>3 DEF Ownership, KeptInv, FailureNotCached
      <3> QED
        BY <2>1, <3>1, <3>2 DEF KeptInv
    <2> QED
      BY <1>1, <2>2, <2>3 DEF Lookup
  <1>2. ASSUME NEW g \in Goroutines, BeginBuild(g) PROVE KeptInv'
    BY <1>2
       DEF BeginBuild, pastVars, Ownership, InCall, OnceInv, KeptInv,
           FailureNotCached
  <1>3. ASSUME NEW g \in Goroutines, JoinBuild(g) PROVE KeptInv'
    BY <1>3
       DEF JoinBuild, pastVars, cacheVars, Ownership, InCall, OnceInv, KeptInv,
           FailureNotCached
  <1>4. ASSUME NEW g \in Goroutines, ResolveCard(g) PROVE KeptInv'
    BY <1>4
       DEF ResolveCard, pastVars, Ownership, InCall, OnceInv, KeptInv,
           FailureNotCached
  <1>5. ASSUME NEW g \in Goroutines, NewFromCard(g) PROVE KeptInv'
    BY <1>5
       DEF NewFromCard, pastVars, cacheVars, Ownership, InCall, OnceInv,
           KeptInv, FailureNotCached
  <1>6. ASSUME NEW g \in Goroutines, BuildFails(g) PROVE KeptInv'
    BY <1>6
       DEF BuildFails, pastVars, Ownership, InCall, OnceInv, KeptInv,
           FailureNotCached
  <1>7. ASSUME NEW g \in Goroutines, BuildPanics(g) PROVE KeptInv'
    BY <1>7
       DEF BuildPanics, pastVars, Ownership, InCall, OnceInv, KeptInv,
           FailureNotCached
  <1>8. ASSUME NEW g \in Goroutines, RecordPeerHash(g) PROVE KeptInv'
    <2>1. arg[g] \in Peers /\ held[g] \in Entries
      BY <1>8 DEF RecordPeerHash, Ownership, InCall
    <2>2. entry[held[g]].outcome = "none"
      BY <1>8, <2>1 DEF RecordPeerHash, OnceInv, Entry
    <2>3. PICK written \in BOOLEAN :
             /\ entry' = [entry EXCEPT ![held[g]] =
                    [@ EXCEPT !.once = "done", !.outcome = "ok",
                              !.recorded = written]]
             /\ hashes' = IF written
                          THEN [hashes EXCEPT ![arg[g]] = entry[held[g]].card]
                          ELSE hashes
      BY <1>8 DEF RecordPeerHash
    <2>4. /\ \A e \in Entries \ {held[g]} : entry'[e] = entry[e]
          /\ entry'[held[g]].once = "done"
          /\ entry'[held[g]].outcome = "ok"
          /\ entry'[held[g]].card = entry[held[g]].card
          /\ entry'[held[g]].recorded = written
      BY <2>1, <2>3 DEF Entry
    <2>5. UNCHANGED <<peerClients, nextEntry, forgotten, reported>>
      BY <1>8 DEF RecordPeerHash, pastVars
    <2>6. held[g] < nextEntry /\ held[g] \notin reported
      BY <1>8, <2>2 DEF Ownership, KeptInv
    <2>7. ASSUME NEW e \in Entries, e < nextEntry, e \notin forgotten,
                 entry'[e].outcome # "err"
          PROVE  \E p \in Peers : peerClients[p] = e
      <3>1. entry[e].outcome # "err"
        BY <2>2, <2>4, <2>7
      <3> QED
        BY <2>7, <3>1 DEF KeptInv
    <2>8. ASSUME NEW e \in reported PROVE entry'[e].outcome = "err"
      BY <2>4, <2>6, <2>8 DEF KeptInv
    <2> QED
      BY <2>5, <2>7, <2>8 DEF KeptInv, FailureNotCached
  <1>9. ASSUME NEW g \in Goroutines, ReturnClient(g) PROVE KeptInv'
    BY <1>9
       DEF ReturnClient, pastVars, cacheVars, Ownership, InCall, OnceInv,
           KeptInv, FailureNotCached
  <1>10. ASSUME NEW g \in Goroutines, ReturnError(g) PROVE KeptInv'
    BY <1>10
       DEF ReturnError, forgetEntry, Ownership, InCall, OnceInv, KeptInv,
           FailureNotCached
  <1>11. ASSUME NEW p \in Peers, ForgetPeer(p) PROVE KeptInv'
    BY <1>11
       DEF ForgetPeer, callVars, Ownership, InCall, OnceInv, KeptInv,
           FailureNotCached
  <1>12. ASSUME NEW p \in Peers, ChangeCard(p) PROVE KeptInv'
    BY <1>12
       DEF ChangeCard, pastVars, cacheVars, callVars, Ownership, InCall,
           OnceInv, KeptInv, FailureNotCached
  <1>13. CASE UNCHANGED vars
    BY <1>13
       DEF vars, pastVars, cacheVars, callVars, Ownership, InCall, OnceInv,
           KeptInv, FailureNotCached
  <1> QED
    BY <1>1, <1>2, <1>3, <1>4, <1>5, <1>6, <1>7, <1>8, <1>9, <1>10, <1>11,
       <1>12, <1>13 DEF Next, CallStep

\* Every step keeps FreshInv: a card is resolved from a peer whose card only
\* gets newer, and a call takes its entry from a map ForgetPeer has emptied.
LEMMA FreshStep == CacheInv /\ TypeOK' /\ [Next]_vars => FreshInv'
  <1> SUFFICES ASSUME CacheInv, TypeOK', [Next]_vars PROVE FreshInv'
    OBVIOUS
  <1> USE CacheAssumption DEF CacheInv, TypeOK, Entries, NoEntry, Unresolved,
                              Cards, BuildSteps, Goto
  <1>1. ASSUME NEW g \in Goroutines, NEW p \in Peers, Lookup(g, p)
        PROVE  FreshInv'
    <2>1. CASE /\ peerClients[p] # NoEntry
               /\ UNCHANGED <<peerClients, nextEntry>>
      <3>1. held' = [held EXCEPT ![g] = peerClients[p]]
        BY <1>1, <2>1 DEF Lookup
      <3> QED
        BY <1>1, <2>1, <3>1 DEF Lookup, pastVars, Ownership, InCall, OnceInv,
                                      FreshInv
    <2>2. CASE /\ peerClients[p] = NoEntry
               /\ nextEntry \in Entries
               /\ peerClients' = [peerClients EXCEPT ![p] = nextEntry]
               /\ nextEntry' = nextEntry + 1
      <3>1. held' = [held EXCEPT ![g] = nextEntry]
        BY <1>1, <2>2 DEF Lookup
      <3> QED
        BY <1>1, <2>2, <3>1
           DEF Lookup, pastVars, NewEntry, Ownership, InCall, OnceInv,
                                      FreshInv
    <2> QED
      BY <1>1, <2>1, <2>2 DEF Lookup
  <1>2. ASSUME NEW g \in Goroutines, BeginBuild(g) PROVE FreshInv'
    BY <1>2 DEF BeginBuild, pastVars, Ownership, InCall, OnceInv, FreshInv
  <1>3. ASSUME NEW g \in Goroutines, JoinBuild(g) PROVE FreshInv'
    BY <1>3
       DEF JoinBuild, pastVars, cacheVars, Ownership, InCall, OnceInv, FreshInv
  <1>4. ASSUME NEW g \in Goroutines, ResolveCard(g) PROVE FreshInv'
    BY <1>4 DEF ResolveCard, pastVars, Ownership, InCall, OnceInv, FreshInv
  <1>5. ASSUME NEW g \in Goroutines, NewFromCard(g) PROVE FreshInv'
    BY <1>5
       DEF NewFromCard, pastVars, cacheVars, Ownership, InCall, OnceInv,
           FreshInv
  <1>6. ASSUME NEW g \in Goroutines, BuildFails(g) PROVE FreshInv'
    BY <1>6 DEF BuildFails, pastVars, Ownership, InCall, OnceInv, FreshInv
  <1>7. ASSUME NEW g \in Goroutines, BuildPanics(g) PROVE FreshInv'
    BY <1>7 DEF BuildPanics, pastVars, Ownership, InCall, OnceInv, FreshInv
  <1>8. ASSUME NEW g \in Goroutines, RecordPeerHash(g) PROVE FreshInv'
    BY <1>8 DEF RecordPeerHash, pastVars, Ownership, InCall, OnceInv, FreshInv
  <1>9. ASSUME NEW g \in Goroutines, ReturnClient(g) PROVE FreshInv'
    BY <1>9
       DEF ReturnClient, pastVars, cacheVars, Ownership, InCall, OnceInv,
           FreshInv
  <1>10. ASSUME NEW g \in Goroutines, ReturnError(g) PROVE FreshInv'
    BY <1>10 DEF ReturnError, forgetEntry, Ownership, InCall, OnceInv, FreshInv
  <1>11. ASSUME NEW p \in Peers, ForgetPeer(p) PROVE FreshInv'
    BY <1>11 DEF ForgetPeer, callVars, Ownership, InCall, OnceInv, FreshInv
  <1>12. ASSUME NEW p \in Peers, ChangeCard(p) PROVE FreshInv'
    BY <1>12
       DEF ChangeCard, pastVars, cacheVars, callVars, Ownership, InCall,
           OnceInv, FreshInv
  <1>13. CASE UNCHANGED vars
    BY <1>13
       DEF vars, pastVars, cacheVars, callVars, Ownership, InCall, OnceInv,
           FreshInv
  <1> QED
    BY <1>1, <1>2, <1>3, <1>4, <1>5, <1>6, <1>7, <1>8, <1>9, <1>10, <1>11,
       <1>12, <1>13 DEF Next, CallStep

\* Every step keeps HashInv: the builder that records is the one whose entry
\* is in the map, or ForgetPeer overlapped it.
LEMMA HashStep == CacheInv /\ TypeOK' /\ [Next]_vars => HashInv'
  <1> SUFFICES ASSUME CacheInv, TypeOK', [Next]_vars PROVE HashInv'
    OBVIOUS
  <1> USE CacheAssumption DEF CacheInv, TypeOK, Entries, NoEntry, Unresolved,
                              Cards, BuildSteps, Goto
  <1>1. ASSUME NEW g \in Goroutines, NEW p \in Peers, Lookup(g, p)
        PROVE  HashInv'
    <2>1. CASE /\ peerClients[p] # NoEntry
               /\ UNCHANGED <<peerClients, nextEntry>>
      <3>1. held' = [held EXCEPT ![g] = peerClients[p]]
        BY <1>1, <2>1 DEF Lookup
      <3> QED
        BY <1>1, <2>1, <3>1
           DEF Lookup, pastVars, Ownership, InCall, OnceInv, HashInv,
               HashMatchesCachedClient, MayBuild
    <2>2. CASE /\ peerClients[p] = NoEntry
               /\ nextEntry \in Entries
               /\ peerClients' = [peerClients EXCEPT ![p] = nextEntry]
               /\ nextEntry' = nextEntry + 1
      <3>1. held' = [held EXCEPT ![g] = nextEntry]
        BY <1>1, <2>2 DEF Lookup
      <3> QED
        BY <1>1, <2>2, <3>1
           DEF Lookup, pastVars, NewEntry, Ownership, InCall, OnceInv, HashInv,
               HashMatchesCachedClient, MayBuild
    <2> QED
      BY <1>1, <2>1, <2>2 DEF Lookup
  <1>2. ASSUME NEW g \in Goroutines, BeginBuild(g) PROVE HashInv'
    BY <1>2
       DEF BeginBuild, pastVars, Ownership, InCall, OnceInv, HashInv,
           HashMatchesCachedClient, MayBuild
  <1>3. ASSUME NEW g \in Goroutines, JoinBuild(g) PROVE HashInv'
    BY <1>3
       DEF JoinBuild, pastVars, cacheVars, Ownership, InCall, OnceInv, HashInv,
           HashMatchesCachedClient, MayBuild
  <1>4. ASSUME NEW g \in Goroutines, ResolveCard(g) PROVE HashInv'
    BY <1>4
       DEF ResolveCard, pastVars, Ownership, InCall, OnceInv, HashInv,
           HashMatchesCachedClient, MayBuild
  <1>5. ASSUME NEW g \in Goroutines, NewFromCard(g) PROVE HashInv'
    BY <1>5
       DEF NewFromCard, pastVars, cacheVars, Ownership, InCall, OnceInv,
           HashInv, HashMatchesCachedClient, MayBuild
  <1>6. ASSUME NEW g \in Goroutines, BuildFails(g) PROVE HashInv'
    BY <1>6
       DEF BuildFails, pastVars, Ownership, InCall, OnceInv, HashInv,
           HashMatchesCachedClient, MayBuild
  <1>7. ASSUME NEW g \in Goroutines, BuildPanics(g) PROVE HashInv'
    BY <1>7
       DEF BuildPanics, pastVars, Ownership, InCall, OnceInv, HashInv,
           HashMatchesCachedClient, MayBuild
  <1>8. ASSUME NEW g \in Goroutines, RecordPeerHash(g) PROVE HashInv'
    <2>1. arg[g] \in Peers /\ held[g] \in Entries
      BY <1>8 DEF RecordPeerHash, Ownership, InCall
    <2>2. entry[held[g]].outcome = "none"
      BY <1>8, <2>1 DEF RecordPeerHash, OnceInv, Entry
    <2>3. PICK written \in BOOLEAN :
             /\ entry' = [entry EXCEPT ![held[g]] =
                    [@ EXCEPT !.once = "done", !.outcome = "ok",
                              !.recorded = written]]
             /\ hashes' = IF written
                          THEN [hashes EXCEPT ![arg[g]] = entry[held[g]].card]
                          ELSE hashes
      BY <1>8 DEF RecordPeerHash
    <2>4. /\ \A e \in Entries \ {held[g]} : entry'[e] = entry[e]
          /\ entry'[held[g]].once = "done"
          /\ entry'[held[g]].outcome = "ok"
          /\ entry'[held[g]].card = entry[held[g]].card
          /\ entry'[held[g]].recorded = written
      BY <2>1, <2>3 DEF Entry
    <2>5. UNCHANGED <<peerClients, arg, held, busyForget>>
      BY <1>8 DEF RecordPeerHash, pastVars
    <2>6. ASSUME NEW p \in Peers, ~ busyForget[p], NEW h \in Goroutines,
                 arg[h] = p, MayBuild(h)'
          PROVE  entry'[held[h]].once = "done" \/ peerClients[p] = held[h]
      <3>1. MayBuild(h) /\ held[h] \in Entries
        BY <1>8, <2>6 DEF RecordPeerHash, MayBuild, Ownership, InCall
      <3> QED
        BY <2>4, <2>6, <3>1 DEF HashInv
    <2>7. ASSUME NEW p \in Peers, peerClients[p] # NoEntry, ~ busyForget[p],
                 entry'[peerClients[p]].outcome = "ok",
                 entry'[peerClients[p]].recorded
          PROVE  hashes'[p] = entry'[peerClients[p]].card
      <3>1. CASE p = arg[g]
        <4>1. peerClients[p] = held[g]
          BY <1>8, <2>1, <2>7, <3>1
             DEF RecordPeerHash, HashInv, MayBuild, OnceInv
        <4>2. written
          BY <2>4, <2>7, <4>1
        <4> QED
          BY <2>1, <2>3, <2>4, <3>1, <4>1, <4>2
      <3>2. CASE p # arg[g]
        <4>1. peerClients[p] # held[g]
          BY <1>8, <3>2 DEF RecordPeerHash, Ownership, InCall
        <4>2. hashes'[p] = hashes[p]
          BY <2>1, <2>3, <3>2
        <4> QED
          BY <2>4, <2>7, <4>1, <4>2 DEF HashInv, HashMatchesCachedClient
      <3> QED
        BY <3>1, <3>2
    <2> QED
      BY <2>5, <2>6, <2>7 DEF HashInv, HashMatchesCachedClient
  <1>9. ASSUME NEW g \in Goroutines, ReturnClient(g) PROVE HashInv'
    BY <1>9
       DEF ReturnClient, pastVars, cacheVars, Ownership, InCall, OnceInv,
           HashInv, HashMatchesCachedClient, MayBuild
  <1>10. ASSUME NEW g \in Goroutines, ReturnError(g) PROVE HashInv'
    BY <1>10
       DEF ReturnError, forgetEntry, Ownership, InCall, OnceInv, HashInv,
           HashMatchesCachedClient, MayBuild
  <1>11. ASSUME NEW p \in Peers, ForgetPeer(p) PROVE HashInv'
    <2>1. ASSUME NEW q \in Peers, ~ busyForget[q]',
                 NEW g \in Goroutines, arg[g] = q, MayBuild(g)
          PROVE  entry[held[g]].once = "done" \/ peerClients'[q] = held[g]
      <3>1. q # p /\ ~ busyForget[q]
        BY <1>11, <2>1 DEF ForgetPeer
      <3> QED
        BY <1>11, <2>1, <3>1 DEF ForgetPeer, HashInv
    <2>2. HashMatchesCachedClient'
      <3>1. ASSUME NEW q \in Peers, q # p PROVE busyForget'[q] = busyForget[q]
        BY <1>11, <3>1 DEF ForgetPeer
      <3> QED
        BY <1>11, <3>1 DEF ForgetPeer, HashInv, HashMatchesCachedClient
    <2>3. UNCHANGED <<entry, callVars>>
      BY <1>11 DEF ForgetPeer
    <2> QED
      BY <2>1, <2>2, <2>3 DEF HashInv, MayBuild, callVars
  <1>12. ASSUME NEW p \in Peers, ChangeCard(p) PROVE HashInv'
    BY <1>12
       DEF ChangeCard, pastVars, cacheVars, callVars, Ownership, InCall,
           OnceInv, HashInv, HashMatchesCachedClient, MayBuild
  <1>13. CASE UNCHANGED vars
    BY <1>13
       DEF vars, pastVars, cacheVars, callVars, Ownership, InCall, OnceInv,
           HashInv, HashMatchesCachedClient, MayBuild
  <1> QED
    BY <1>1, <1>2, <1>3, <1>4, <1>5, <1>6, <1>7, <1>8, <1>9, <1>10, <1>11,
       <1>12, <1>13 DEF Next, CallStep

------------------------------------------------------------------------------

\* CacheInv is an invariant of the cache.
THEOREM CacheInvariant == Spec => []CacheInv
  <1>1. CacheInv /\ [Next]_vars => CacheInv'
    BY TypeStep, OwnershipStep, OnceStep, KeptStep, FreshStep, HashStep
       DEF CacheInv
  <1> QED
    BY InitInv, <1>1, PTL DEF Spec

\* Type correctness.
THEOREM TypeCorrect == Spec => []TypeOK
  <1>1. CacheInv => TypeOK
    BY DEF CacheInv
  <1> QED
    BY CacheInvariant, <1>1, PTL

\* A client that was built stays cached until ForgetPeer drops it: neither a
\* failed build nor a race of first callers in PeerClientWithCardHeaders
\* evicts or replaces it.
THEOREM ClientsAreKept == Spec => []BuiltClientKept
  <1>1. CacheInv => BuiltClientKept
    <2> SUFFICES ASSUME CacheInv, NEW e \in Entries,
                        entry[e].outcome = "ok", e \notin forgotten
                 PROVE  \E p \in Peers : peerClients[p] = e
      BY DEF BuiltClientKept
    <2>1. e < nextEntry
      BY CacheAssumption
         DEF CacheInv, TypeOK, Ownership, NewEntry, Entries
    <2> QED
      BY <2>1 DEF CacheInv, KeptInv
  <1> QED
    BY CacheInvariant, <1>1, PTL

\* An error that a call has returned is never served from the cache again:
\* forgetEntry has dropped its entry and no lookup brings it back.
THEOREM FailuresAreEvicted == Spec => []FailureNotCached
  <1>1. CacheInv => FailureNotCached
    BY DEF CacheInv, KeptInv
  <1> QED
    BY CacheInvariant, <1>1, PTL

\* A call that begins after ForgetPeer never yields a client built from an
\* older card, even when a build was in flight as ForgetPeer ran.
THEOREM ForgetIsEffective == Spec => []ForgetTakesEffect
  <1>1. CacheInv => ForgetTakesEffect
    BY DEF CacheInv, FreshInv, ForgetTakesEffect
  <1> QED
    BY CacheInvariant, <1>1, PTL

\* The recorded hash is the one of the card the cached client was built from,
\* unless ForgetPeer overlapped a build of that peer.
THEOREM HashesMatch == Spec => []HashMatchesCachedClient
  <1>1. CacheInv => HashMatchesCachedClient
    BY DEF CacheInv, HashInv
  <1> QED
    BY CacheInvariant, <1>1, PTL
==============================================================================
