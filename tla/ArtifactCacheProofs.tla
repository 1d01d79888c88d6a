-------------------------- MODULE ArtifactCacheProofs -------------------------
(***************************************************************************)
(* Proofs about ArtifactCache, for any sets of requests, models and        *)
(* locations and any sizes: what overlapping fetches leave at the path     *)
(* agents are served from, and what the cache table lists.                 *)
(***************************************************************************)
EXTENDS ArtifactCache, FiniteSetTheorems, TLAPS

-------------------------------------------------------------------------------
(* The inductive invariant *)

Request == [phase : {"idle", "get", "copy", "touch", "evict", "open"},
            model : Models \cup {NULL}, uri : Uris \cup {NULL},
            fd : Inodes \cup {NULL}, off : 0 .. Chunks]

ArtTypes ==
    /\ registered \in [Models -> Uris \cup {NULL}]
    /\ tmp \in [Models -> Inodes \cup {NULL}]
    /\ dest \in [Models -> Inodes \cup {NULL}]
    /\ data \in [Inodes -> Seq(Uris \cup {"gap"})]
    /\ req \in [Requests -> Request]
    /\ ruined \subseteq Inodes
    /\ rows \in Seq(Models) /\ unevicted \in Nat

\* A request that is under way knows its model, has a file open only while it copies,
\* starts at the beginning of it, and has a file in place once it is past the fetch, unless
\* a Stat error hid that there is none.
Proper(q) ==
    /\ q.phase = "copy" <=> q.fd # NULL
    /\ q.phase # "idle" => q.model \in Models /\ q.uri = registered[q.model] /\ q.uri # NULL
    /\ q.phase = "get" => q.off = 0
    /\ q.phase \in {"touch", "evict", "open"} => dest[q.model] # NULL \/ q.model \in unseen

\* The file is one of model m: at one of its paths, or open in a fetch of it.
Home(i, m) ==
    i \in {tmp[m], dest[m]} \/ \E r \in Requests : req[r].fd = i /\ req[r].model = m

\* No file is one of two models, or at both paths of one.
OneHome ==
    /\ \A i \in Inodes, m, n \in Models : Home(i, m) /\ Home(i, n) => m = n
    /\ \A m \in Models : tmp[m] # NULL => tmp[m] # dest[m]

\* What the request has copied so far is there: nobody truncated the file since.
Filled(r, i, m) ==
    req[r].fd = i /\ req[r].off <= Len(data[i]) /\ \A k \in 1 .. req[r].off : data[i][k] = registered[m]

\* The request that truncated the file last finds all it wrote since, so that the file
\* is whole when it ends, unless it was cut off.  Other requests that write the same file,
\* from offsets of their own, only write what belongs there.
Sound(i, m) ==
    /\ registered[m] # NULL /\ Len(data[i]) <= Chunks
    /\ Whole(m, i) \/ i \in ruined \/ \E r \in Requests : Filled(r, i, m)

FilesInv ==
    /\ ArtTypes /\ OneHome
    /\ \A r \in Requests : Proper(req[r])
    /\ \A i \in Inodes, m \in Models : Home(i, m) => Sound(i, m)

ArtInv == FilesInv /\ RowHasFile /\ CacheBounded

-------------------------------------------------------------------------------
(* The files *)

\* The constants, as the proofs use them.
LEMMA ArtConstants ==
  /\ Chunks \in Nat /\ Chunks # 0 /\ MaxCached \in Nat
  /\ IsFiniteSet(Requests) /\ IsFiniteSet(Models)
  /\ NULL \notin Inodes /\ NULL \notin Models /\ NULL \notin Uris
BY ArtifactAssumption, NullAssumption

\* A request that has copied every chunk leaves a whole file.
LEMMA FilledIsWhole ==
  ASSUME FilesInv, NEW i \in Inodes, NEW m \in Models, NEW r \in Requests,
         Filled(r, i, m), req[r].off = Chunks, Len(data[i]) <= Chunks
  PROVE  Whole(m, i)
<1>1. data[i] \in Seq(Uris \cup {"gap"}) /\ Chunks \in Nat /\ Len(data[i]) \in Nat
  BY ArtConstants DEF FilesInv, ArtTypes
<1>2. Len(data[i]) = Chunks /\ \A k \in 1 .. Chunks : data[i][k] = registered[m]
  BY <1>1 DEF Filled
<1>3. data[i] = [k \in 1 .. Chunks |-> data[i][k]]
  BY <1>1, <1>2
<1> QED BY <1>2, <1>3 DEF Whole

\* No file is written, none gets another home, and no request that copied only a part
\* lets go of its file without the file being ruined: the files stay sound.
LEMMA FilesKeep ==
  ASSUME FilesInv, ArtTypes', UNCHANGED data, ruined \subseteq ruined',
         \A r \in Requests : Proper(req[r])',
         \A m \in Models : registered[m] # NULL => registered'[m] = registered[m],
         \A i \in Inodes, m \in Models : Home(i, m)' => Home(i, m),
         \A m \in Models : tmp'[m] # NULL => tmp'[m] # dest'[m],
         \A r \in Requests :
            \/ req[r].fd = NULL \/ req[r].fd \in ruined' \/ req[r].off = Chunks
            \/ req'[r].fd = req[r].fd /\ req'[r].off = req[r].off
  PROVE  FilesInv'
<1>1. OneHome'
  BY DEF FilesInv, OneHome
<1>2. ASSUME NEW i \in Inodes, NEW m \in Models, Home(i, m)'
      PROVE  Sound(i, m)'
  <2>1. Sound(i, m) /\ i # NULL
    BY <1>2, ArtConstants DEF FilesInv
  <2>2. registered'[m] = registered[m] /\ data' = data
    BY <2>1 DEF Sound
  <2>3. ASSUME NEW r \in Requests, Filled(r, i, m)
        PROVE  Whole(m, i) \/ i \in ruined' \/ Filled(r, i, m)'
    <3>1. CASE req[r].off = Chunks
      BY <2>1, <2>3, <3>1, FilledIsWhole DEF Sound
    <3>2. CASE req'[r].fd = req[r].fd /\ req'[r].off = req[r].off
      BY <2>2, <2>3, <3>2 DEF Filled
    <3> QED BY <2>1, <2>3, <3>1, <3>2 DEF Filled
  <2>4. Whole(m, i) => Whole(m, i)'
    BY <2>2 DEF Whole
  <2> QED BY <2>1, <2>2, <2>3, <2>4 DEF Sound
<1> QED BY <1>1, <1>2 DEF FilesInv

\* One request moves on: it keeps its open file, or closes it at the end of the copy or
\* with the file ruined; a path is only cleared, or <path>.tmp put in place.
LEMMA RequestMoves ==
  ASSUME FilesInv, NEW r \in Requests, NEW q \in Request, req' = [req EXCEPT ![r] = q],
         UNCHANGED <<registered, data>>, ruined \subseteq ruined', ruined' \subseteq Inodes, unseen \subseteq unseen',
         rows' \in Seq(Models), unevicted' \in Nat,
         tmp' \in [Models -> Inodes \cup {NULL}], dest' \in [Models -> Inodes \cup {NULL}],
         \A m \in Models : /\ tmp'[m] \in {tmp[m], NULL}
                           /\ \/ dest'[m] = dest[m]
                              \/ dest'[m] = tmp[m] /\ tmp[m] # NULL /\ tmp'[m] = NULL,
         Proper(q)',
         req[r].fd = NULL => q.fd = NULL,
         req[r].fd # NULL => \/ q.fd = NULL /\ (req[r].off = Chunks \/ req[r].fd \in ruined')
                             \/ q.fd = req[r].fd /\ q.off = req[r].off /\ q.model = req[r].model
  PROVE  FilesInv'
<1>1. \A s \in Requests : req'[s] = IF s = r THEN q ELSE req[s]
  BY DEF FilesInv, ArtTypes
<1>2. ArtTypes'
  BY DEF FilesInv, ArtTypes
<1>3. \A s \in Requests : Proper(req[s])'
  <2>1. ASSUME NEW s \in Requests, s # r
        PROVE  Proper(req[s])'
    <3>1. Proper(req[s]) /\ req'[s] = req[s]
      BY <1>1, <2>1 DEF FilesInv
    <3>2. \A m \in Models : dest[m] # NULL => dest'[m] # NULL
      OBVIOUS
    <3>3. req[s] \in Request
      BY DEF FilesInv, ArtTypes
    <3> QED BY <3>1, <3>2, <3>3 DEF Proper, Request
  <2>2. Proper(req[r])'
    BY <1>1 DEF Proper
  <2> QED BY <2>1, <2>2
<1>4. \A i \in Inodes, m \in Models : Home(i, m)' => Home(i, m)
  <2> SUFFICES ASSUME NEW i \in Inodes, NEW m \in Models, Home(i, m)'
               PROVE  Home(i, m)
    OBVIOUS
  <2>1. i # NULL
    BY ArtConstants
  <2>2. i \in {tmp'[m], dest'[m]} => i \in {tmp[m], dest[m]}
    BY <2>1
  <2>3. ASSUME NEW s \in Requests, req'[s].fd = i, req'[s].model = m
        PROVE  req[s].fd = i /\ req[s].model = m
    BY <1>1, <2>1, <2>3
  <2> QED BY <2>2, <2>3 DEF Home
<1>5. \A m \in Models : tmp'[m] # NULL => tmp'[m] # dest'[m]
  BY DEF FilesInv, OneHome
<1>6. \A s \in Requests :
            \/ req[s].fd = NULL \/ req[s].fd \in ruined' \/ req[s].off = Chunks
            \/ req'[s].fd = req[s].fd /\ req'[s].off = req[s].off
  BY <1>1
<1> QED BY <1>2, <1>3, <1>4, <1>5, <1>6, FilesKeep

\* A new model is no file's yet.
LEMMA CreateModelKeeps ==
  ASSUME FilesInv, NEW m \in Models, NEW uri \in Uris, CreateModel(m, uri)
  PROVE  FilesInv'
<1>1. /\ registered[m] = NULL /\ registered' = [registered EXCEPT ![m] = uri]
      /\ UNCHANGED <<tmp, dest, data, req, rows, unevicted, ruined, unseen>>
  BY DEF CreateModel, InsertModel
<1>2. /\ \A n \in Models : registered[n] # NULL => registered'[n] = registered[n]
      /\ ArtTypes'
  BY <1>1 DEF FilesInv, ArtTypes
<1>3. \A r \in Requests : Proper(req[r])'
  BY <1>1, <1>2 DEF FilesInv, Proper
<1>4. \A i \in Inodes, n \in Models : Home(i, n)' => Home(i, n)
  BY <1>1 DEF Home
<1> QED BY <1>1, <1>2, <1>3, <1>4, FilesKeep DEF FilesInv, OneHome

\* The steps of a request around the fetch, and the ones that end it.
LEMMA RequestKeeps ==
  ASSUME FilesInv, rows' \in Seq(Models), unevicted' \in Nat, NEW r \in Requests,
         \/ \E m \in Models : serveModel(r, m) \/ StatFails(r, m)
         \/ FetchFails(r) \/ CopyFails(r) \/ CloseFails(r) \/ Rename(r)
         \/ Touch(r) \/ EvictLRU(r) \/ CacheStatementFails(r) \/ Serve(r) \/ OpenFails(r)
  PROVE  FilesInv'
<1> DEFINE old == req[r]
           m == old.model
<1>1. /\ old \in Request /\ Proper(old)
      /\ registered \in [Models -> Uris \cup {NULL}] /\ req \in [Requests -> Request]
      /\ tmp \in [Models -> Inodes \cup {NULL}] /\ dest \in [Models -> Inodes \cup {NULL}]
      /\ ruined \subseteq Inodes
  BY DEF FilesInv, ArtTypes
<1>2. Idle \in Request /\ Proper(Idle)' /\ Idle.fd = NULL
  BY ArtConstants DEF Idle, Request, Proper
<1>3. ASSUME NEW n \in Models, serveModel(r, n)
      PROVE  FilesInv'
  <2>0. PICK q \in Request : /\ req' = [req EXCEPT ![r] = q]
                             /\ q.fd = NULL /\ q.off = 0 /\ q.model = n /\ q.uri = registered[n]
                             /\ (q.phase = "get" \/ (q.phase = "touch" /\ dest[n] # NULL))
    <3> DEFINE q1 == [Idle EXCEPT !.model = n]
               q2 == [q1 EXCEPT !.uri = registered[n]]
               q3 == [q2 EXCEPT !.phase = IF dest[n] = NULL THEN "get" ELSE "touch"]
    <3>1. req' = [req EXCEPT ![r] = q3]
      BY <1>3 DEF serveModel, GetByNameVersion
    <3>2. /\ q1 \in Request /\ q1.fd = NULL /\ q1.off = 0 /\ q1.model = n
      BY <1>2 DEF Request, Idle
    <3> HIDE DEF q1
    <3>3. /\ q2 \in Request /\ q2.fd = NULL /\ q2.off = 0 /\ q2.model = n /\ q2.uri = registered[n]
      BY <1>1, <3>2 DEF Request
    <3> HIDE DEF q2
    <3>4. /\ q3 \in Request /\ q3.fd = NULL /\ q3.off = 0 /\ q3.model = n /\ q3.uri = registered[n]
          /\ (q3.phase = "get" \/ (q3.phase = "touch" /\ dest[n] # NULL))
      BY <3>3 DEF Request
    <3> HIDE DEF q3
    <3> QED BY <3>1, <3>4
  <2>1. /\ registered[n] # NULL /\ req[r].fd = NULL
        /\ UNCHANGED <<registered, tmp, dest, data, rows, unevicted, ruined, unseen>>
    BY <1>2, <1>3 DEF serveModel, GetByNameVersion
  <2>2. Proper(q)'
    BY <2>0, <2>1 DEF Proper
  <2> QED BY <1>1, <2>0, <2>1, <2>2, RequestMoves
\* a Stat error: the request goes on without a fetch
<1>12. ASSUME NEW n \in Models, StatFails(r, n)
       PROVE  FilesInv'
  <2>0. PICK q \in Request : /\ req' = [req EXCEPT ![r] = q]
                             /\ q.phase = "touch" /\ q.fd = NULL /\ q.model = n /\ q.uri = registered[n]
    <3> DEFINE q1 == [Idle EXCEPT !.model = n]
               q2 == [q1 EXCEPT !.uri = registered[n]]
               q3 == [q2 EXCEPT !.phase = "touch"]
    <3>1. req' = [req EXCEPT ![r] = q3]
      BY <1>12 DEF StatFails, GetByNameVersion
    <3>2. /\ q1 \in Request /\ q1.fd = NULL /\ q1.model = n
      BY <1>2 DEF Request, Idle
    <3> HIDE DEF q1
    <3>3. /\ q2 \in Request /\ q2.fd = NULL /\ q2.model = n /\ q2.uri = registered[n]
      BY <1>1, <3>2 DEF Request
    <3> HIDE DEF q2
    <3>4. q3 \in Request /\ q3.phase = "touch" /\ q3.fd = NULL /\ q3.model = n /\ q3.uri = registered[n]
      BY <3>3 DEF Request
    <3> HIDE DEF q3
    <3> QED BY <3>1, <3>4
  <2>1. /\ registered[n] # NULL /\ req[r].fd = NULL
        /\ unseen \subseteq unseen' /\ (dest[n] = NULL => n \in unseen')
        /\ UNCHANGED <<registered, tmp, dest, data, rows, unevicted, ruined>>
    BY <1>2, <1>12 DEF StatFails, GetByNameVersion
  <2>2. Proper(q)'
    BY <2>0, <2>1, ArtConstants DEF Proper
  <2> QED BY <1>1, <2>0, <2>1, <2>2, RequestMoves
\* the request ends
<1>4. CASE FetchFails(r) \/ Serve(r) \/ OpenFails(r)
  <2>1. /\ req' = [req EXCEPT ![r] = Idle] /\ req[r].fd = NULL
        /\ UNCHANGED <<registered, tmp, dest, data, rows, unevicted, ruined, unseen>>
    BY <1>1, <1>4 DEF FetchFails, Serve, OpenFails, Proper
  <2> QED BY <1>1, <1>2, <2>1, RequestMoves
<1>5. CASE CopyFails(r)
  <2>1. /\ req' = [req EXCEPT ![r] = Idle] /\ old.fd \in Inodes /\ m \in Models
        /\ ruined' = ruined \cup {old.fd} /\ tmp' = [tmp EXCEPT ![m] = NULL]
        /\ UNCHANGED <<registered, dest, data, rows, unevicted, unseen>>
    BY <1>1, <1>5 DEF CopyFails, Proper, Request
  <2>2. /\ tmp' \in [Models -> Inodes \cup {NULL}]
        /\ \A n \in Models : tmp'[n] \in {tmp[n], NULL}
    BY <1>1, <2>1
  <2>3. old.fd \in ruined' /\ ruined' \subseteq Inodes
    BY <1>1, <2>1
  <2> HIDE DEF m
  <2> QED BY <1>1, <1>2, <2>1, <2>2, <2>3, RequestMoves
<1>6. CASE CloseFails(r)
  <2>1. /\ req' = [req EXCEPT ![r] = Idle] /\ old.off = Chunks
        /\ UNCHANGED <<registered, tmp, dest, data, rows, unevicted, ruined, unseen>>
    BY <1>6 DEF CloseFails
  <2> QED BY <1>1, <1>2, <2>1, RequestMoves
<1>7. CASE Rename(r)
  <2>1. /\ old.phase = "copy" /\ old.off = Chunks /\ m \in Models
        /\ UNCHANGED <<registered, data, rows, unevicted, ruined, unseen>>
        /\ m # NULL /\ old.uri = registered[m] /\ old.uri # NULL
    BY <1>1, <1>7, ArtConstants DEF Rename, Proper
  <2>2. CASE tmp[m] = NULL
    <3>1. req' = [req EXCEPT ![r] = Idle] /\ UNCHANGED <<tmp, dest>>
      BY <1>7, <2>2 DEF Rename
    <3> QED BY <1>1, <1>2, <2>1, <3>1, RequestMoves
  <2>3. CASE tmp[m] # NULL
    <3>1. PICK q \in Request : /\ req' = [req EXCEPT ![r] = q]
                               /\ q.phase = "touch" /\ q.fd = NULL /\ q.model = m /\ q.uri = old.uri
      <4> DEFINE q1 == [old EXCEPT !.phase = "touch"]
                 q2 == [q1 EXCEPT !.fd = NULL]
                 q3 == [q2 EXCEPT !.off = 0]
      <4>1. req' = [req EXCEPT ![r] = q3]
        BY <1>1, <1>7, <2>3 DEF Rename
      <4>2. q1 \in Request /\ q1.phase = "touch" /\ q1.model = m /\ q1.uri = old.uri
        BY <1>1 DEF Request
      <4> HIDE DEF q1
      <4>3. /\ q2 \in Request /\ q2.phase = "touch" /\ q2.fd = NULL /\ q2.model = m
            /\ q2.uri = old.uri
        BY <4>2 DEF Request
      <4> HIDE DEF q2
      <4>4. /\ q3 \in Request /\ q3.phase = "touch" /\ q3.fd = NULL /\ q3.model = m
            /\ q3.uri = old.uri
        BY <4>3, ArtConstants DEF Request
      <4> HIDE DEF q3
      <4> QED BY <4>1, <4>4
    <3>2. dest' = [dest EXCEPT ![m] = tmp[m]] /\ tmp' = [tmp EXCEPT ![m] = NULL]
      BY <1>7, <2>3 DEF Rename
    <3>3. /\ tmp' \in [Models -> Inodes \cup {NULL}] /\ dest' \in [Models -> Inodes \cup {NULL}]
          /\ \A n \in Models : tmp'[n] \in {tmp[n], NULL}
          /\ \A n \in Models : \/ dest'[n] = dest[n]
                               \/ dest'[n] = tmp[n] /\ tmp[n] # NULL /\ tmp'[n] = NULL
          /\ dest'[m] # NULL
      BY <1>1, <2>1, <2>3, <3>2
    <3>4. Proper(q)'
      BY <2>1, <3>1, <3>3 DEF Proper
    <3> HIDE DEF m
    <3> QED BY <1>1, <2>1, <3>1, <3>2, <3>3, <3>4, RequestMoves
  <2> QED BY <2>2, <2>3
\* the statements on the cache table
<1>8. ASSUME NEW phase \in {"evict", "open"}, old.phase \in {"touch", "evict"},
             req' = [req EXCEPT ![r].phase = phase],
             UNCHANGED <<registered, tmp, dest, data, ruined, unseen>>
      PROVE  FilesInv'
  <2>1. PICK q \in Request : /\ req' = [req EXCEPT ![r] = q]
                             /\ q.phase = phase /\ q.fd = old.fd /\ q.off = old.off
                             /\ q.model = old.model /\ q.uri = old.uri
    <3> DEFINE q1 == [old EXCEPT !.phase = phase]
    <3>1. req' = [req EXCEPT ![r] = q1]
      BY <1>8
    <3>2. /\ q1 \in Request /\ q1.phase = phase /\ q1.fd = old.fd /\ q1.off = old.off
          /\ q1.model = old.model /\ q1.uri = old.uri
      BY <1>1 DEF Request
    <3> HIDE DEF q1
    <3> QED BY <3>1, <3>2
  <2>2. old.fd = NULL
    BY <1>1, <1>8 DEF Proper
  <2>3. Proper(q)'
    BY <1>1, <1>8, <2>1, <2>2 DEF Proper
  <2> QED BY <1>1, <1>8, <2>1, <2>2, <2>3, RequestMoves
<1>9. CASE Touch(r)
  BY <1>8, <1>9 DEF Touch
<1>10. CASE EvictLRU(r)
  BY <1>8, <1>10 DEF EvictLRU
<1>11. CASE CacheStatementFails(r)
  <2>1. CASE old.phase = "touch"
    <3>1. req' = [req EXCEPT ![r].phase = "evict"] /\ UNCHANGED <<registered, tmp, dest, data, ruined, unseen>>
      BY <1>11, <2>1 DEF CacheStatementFails
    <3> QED BY <1>8, <2>1, <3>1
  <2>2. CASE old.phase = "evict"
    <3>1. req' = [req EXCEPT ![r].phase = "open"] /\ UNCHANGED <<registered, tmp, dest, data, ruined, unseen>>
      BY <1>11, <2>2 DEF CacheStatementFails
    <3> QED BY <1>8, <2>2, <3>1
  <2> QED BY <1>11, <2>1, <2>2 DEF CacheStatementFails
<1> QED BY <1>3, <1>4, <1>5, <1>6, <1>7, <1>9, <1>10, <1>11, <1>12

\* A restart cuts off every copy: its file is ruined.
LEMMA RestartKeeps ==
  ASSUME FilesInv, Restart, unevicted' \in Nat
  PROVE  FilesInv'
<1>1. /\ ruined' = ruined \cup ({req[r].fd : r \in Requests} \ {NULL})
      /\ req' = [r \in Requests |-> Idle] /\ UNCHANGED <<registered, tmp, dest, data, rows, unseen>>
  BY DEF Restart
<1>2. Idle \in Request /\ Proper(Idle)' /\ Idle.fd = NULL
  BY ArtConstants DEF Idle, Request, Proper
<1>3. \A r \in Requests : req[r].fd \in Inodes \cup {NULL}
  BY DEF FilesInv, ArtTypes, Request
<1>4. \A r \in Requests : req[r].fd = NULL \/ req[r].fd \in ruined'
  BY <1>1
<1>5. ruined' \subseteq Inodes /\ ruined \subseteq ruined'
  BY <1>1, <1>3 DEF FilesInv, ArtTypes
<1>6. ArtTypes'
  BY <1>1, <1>2, <1>5 DEF FilesInv, ArtTypes
<1>7. \A r \in Requests : Proper(req[r])'
  BY <1>1, <1>2 DEF Proper
<1>8. \A i \in Inodes, m \in Models : Home(i, m)' => Home(i, m)
  BY <1>1, <1>2, ArtConstants DEF Home
<1> QED BY <1>1, <1>4, <1>5, <1>6, <1>7, <1>8, FilesKeep DEF FilesInv, OneHome

\* The values of a function on a finite set are no more than its arguments.
LEMMA FewValues ==
  ASSUME NEW S, IsFiniteSet(S), NEW f
  PROVE  /\ IsFiniteSet({f[x] : x \in S}) /\ Cardinality({f[x] : x \in S}) \in Nat
         /\ Cardinality({f[x] : x \in S}) <= Cardinality(S)
<1> DEFINE T == {f[x] : x \in S}
           g == [x \in S |-> f[x]]
<1>1. g \in Surjection(S, T)
  BY DEF Surjection
<1>2. IsFiniteSet(T) /\ Cardinality(T) <= Cardinality(S)
  BY <1>1, FS_Surjection
<1>3. Cardinality(T) \in Nat
  BY <1>2, FS_CardinalityType
<1> QED BY <1>2, <1>3

\* A union has no more members than both sets together.
LEMMA FewTogether ==
  ASSUME NEW S, NEW T, IsFiniteSet(S), IsFiniteSet(T)
  PROVE  /\ IsFiniteSet(S \cup T) /\ Cardinality(S \cup T) \in Nat
         /\ Cardinality(S \cup T) <= Cardinality(S) + Cardinality(T)
<1>1. /\ IsFiniteSet(S \cup T)
      /\ Cardinality(S \cup T) = Cardinality(S) + Cardinality(T) - Cardinality(S \cap T)
  BY FS_Union
<1>2. Cardinality(S \cap T) \in Nat /\ Cardinality(S) \in Nat /\ Cardinality(T) \in Nat
  BY FS_Intersection, FS_CardinalityType
<1>3. Cardinality(S \cup T) \in Nat
  BY <1>1, FS_CardinalityType
<1> QED BY <1>1, <1>2, <1>3

\* There is always a file beyond those the paths lead to and the requests have open.
LEMMA FreeInode ==
  ASSUME FilesInv, NEW r \in Requests, req[r].fd = NULL
  PROVE  \E i \in Inodes : Unused(i)
<1> DEFINE fds == [s \in Requests |-> req[s].fd]
           Tmps == {tmp[m] : m \in Models}
           Dests == {dest[m] : m \in Models}
           Fds == {fds[s] : s \in Requests}
           Used == (Tmps \cup Dests) \cup Fds
           n == Cardinality(Models)
           k == Cardinality(Requests)
<1>1. /\ IsFiniteSet(Tmps) /\ Cardinality(Tmps) <= n /\ Cardinality(Tmps) \in Nat
      /\ IsFiniteSet(Dests) /\ Cardinality(Dests) <= n /\ Cardinality(Dests) \in Nat
      /\ IsFiniteSet(Fds) /\ Cardinality(Fds) <= k /\ Cardinality(Fds) \in Nat
  <2>1. IsFiniteSet(Tmps) /\ Cardinality(Tmps) <= n /\ Cardinality(Tmps) \in Nat
    BY FewValues, ArtConstants
  <2>2. IsFiniteSet(Dests) /\ Cardinality(Dests) <= n /\ Cardinality(Dests) \in Nat
    BY FewValues, ArtConstants
  <2>3. IsFiniteSet(Fds) /\ Cardinality(Fds) <= k /\ Cardinality(Fds) \in Nat
    BY FewValues, ArtConstants
  <2> QED BY <2>1, <2>2, <2>3
<1>2. n \in Nat /\ k \in Nat
  BY FS_CardinalityType, ArtConstants
<1>3. NULL \in Fds /\ \A m \in Models : tmp[m] \in Tmps /\ dest[m] \in Dests
  <2>1. fds[r] = NULL
    OBVIOUS
  <2> QED BY <2>1
<1>4. \A s \in Requests : req[s].fd \in Fds
  <2>1. \A s \in Requests : fds[s] = req[s].fd
    OBVIOUS
  <2> QED BY <2>1
<1>5. IsFiniteSet(Inodes \cup {NULL}) /\ Cardinality(Inodes \cup {NULL}) = 2 * n + k + 1
  <2>1. Inodes = 1 .. 2 * n + k
    BY DEF Inodes
  <2> DEFINE last == 2 * n + k
  <2>2. last \in Nat
    BY <1>2
  <2> HIDE DEF last
  <2>3. /\ IsFiniteSet(1 .. last)
        /\ Cardinality(1 .. last) = IF 1 > last THEN 0 ELSE last - 1 + 1
    BY <2>2, FS_Interval
  <2>4. Cardinality(1 .. last) = last
    BY <2>2, <2>3
  <2>5. IsFiniteSet(Inodes) /\ Cardinality(Inodes) = 2 * n + k
    BY <2>1, <2>3, <2>4 DEF last
  <2>6. /\ IsFiniteSet(Inodes \cup {NULL})
        /\ Cardinality(Inodes \cup {NULL}) = Cardinality(Inodes) + 1
    BY <2>5, FS_AddElement, ArtConstants
  <2> QED BY <2>5, <2>6
<1> HIDE DEF Tmps, Dests, Fds, n, k
<1>6. IsFiniteSet(Used) /\ Cardinality(Used) <= 2 * n + k /\ Cardinality(Used) \in Nat
  <2> DEFINE Paths == Tmps \cup Dests
  <2>1. /\ IsFiniteSet(Paths) /\ Cardinality(Paths) \in Nat
        /\ Cardinality(Paths) <= Cardinality(Tmps) + Cardinality(Dests)
    BY <1>1, FewTogether
  <2> HIDE DEF Paths
  <2>2. /\ IsFiniteSet(Paths \cup Fds) /\ Cardinality(Paths \cup Fds) \in Nat
        /\ Cardinality(Paths \cup Fds) <= Cardinality(Paths) + Cardinality(Fds)
    BY <1>1, <2>1, FewTogether
  <2>3. Cardinality(Paths \cup Fds) <= 2 * n + k
    BY <1>1, <1>2, <2>1, <2>2
  <2> QED BY <2>2, <2>3 DEF Paths
<1>7. PICK i \in Inodes \cup {NULL} : i \notin Used
  <2> HIDE DEF Used
  <2>1. (Inodes \cup {NULL}) \notin SUBSET Used
    BY <1>2, <1>5, <1>6, FS_Subset
  <2> QED BY <2>1
<1>8. i \in Inodes /\ i \notin Tmps /\ i \notin Dests /\ i \notin Fds
  BY <1>3, <1>7
<1> QED BY <1>3, <1>4, <1>8 DEF Unused

\* A truncated file, new or another request's, is empty, as the request that truncated it
\* expects.
LEMMA CreateKeeps ==
  ASSUME FilesInv, NEW r \in Requests, Create(r)
  PROVE  FilesInv'
<1> DEFINE m == req[r].model
<1>1. /\ req[r] \in Request /\ Proper(req[r]) /\ req[r].phase = "get"
      /\ registered \in [Models -> Uris \cup {NULL}] /\ req \in [Requests -> Request]
      /\ tmp \in [Models -> Inodes \cup {NULL}] /\ data \in [Inodes -> Seq(Uris \cup {"gap"})]
      /\ dest \in [Models -> Inodes \cup {NULL}] /\ ruined \subseteq Inodes
  BY DEF FilesInv, ArtTypes, Create
<1>2. /\ m \in Models /\ req[r].uri = registered[m] /\ registered[m] # NULL /\ req[r].fd = NULL
      /\ req[r].off = 0
  BY <1>1 DEF Proper
<1>3. PICK i \in Inodes :
         /\ \/ tmp[m] = i /\ ruined' = ruined
            \/ tmp[m] = NULL /\ Unused(i) /\ ruined' = ruined \ {i}
         /\ tmp' = [tmp EXCEPT ![m] = i] /\ data' = [data EXCEPT ![i] = <<>>]
         /\ req' = [req EXCEPT ![r].phase = "copy", ![r].fd = i]
         /\ UNCHANGED <<registered, dest, rows, unevicted, unseen>>
  <2>1. CASE tmp[m] # NULL
    <3>1. tmp[m] \in Inodes
      BY <1>1, <1>2, <2>1
    <3> QED BY <2>1, <3>1 DEF Create
  <2>2. CASE tmp[m] = NULL
    <3> DEFINE i == CHOOSE j \in Inodes : Unused(j)
    <3>1. i \in Inodes /\ Unused(i)
      BY <1>2, FreeInode
    <3>2. /\ tmp' = [tmp EXCEPT ![m] = i] /\ data' = [data EXCEPT ![i] = <<>>]
          /\ req' = [req EXCEPT ![r].phase = "copy", ![r].fd = i] /\ ruined' = ruined \ {i}
          /\ UNCHANGED <<registered, dest, rows, unevicted, unseen>>
      BY <2>2 DEF Create
    <3> HIDE DEF i
    <3> QED BY <2>2, <3>1, <3>2
  <2> QED BY <2>1, <2>2
<1>4. PICK q \in Request : /\ req' = [req EXCEPT ![r] = q] /\ q.phase = "copy" /\ q.fd = i
                           /\ q.off = 0 /\ q.model = m /\ q.uri = registered[m]
  <2> DEFINE q1 == [req[r] EXCEPT !.phase = "copy"]
             q2 == [q1 EXCEPT !.fd = i]
  <2>1. req' = [req EXCEPT ![r] = q2]
    BY <1>1, <1>3
  <2>2. /\ q1 \in Request /\ q1.phase = "copy" /\ q1.off = 0 /\ q1.model = m
        /\ q1.uri = registered[m]
    BY <1>1, <1>2 DEF Request
  <2> HIDE DEF q1
  <2>3. /\ q2 \in Request /\ q2.phase = "copy" /\ q2.fd = i /\ q2.off = 0 /\ q2.model = m
        /\ q2.uri = registered[m]
    BY <2>2 DEF Request
  <2> HIDE DEF q2
  <2> QED BY <2>1, <2>3
<1> HIDE DEF m
<1>5. /\ \A s \in Requests : req'[s] = IF s = r THEN q ELSE req[s]
      /\ \A n \in Models : tmp'[n] = IF n = m THEN i ELSE tmp[n]
      /\ \A j \in Inodes : data'[j] = IF j = i THEN <<>> ELSE data[j]
      /\ i # NULL
  BY <1>1, <1>2, <1>3, <1>4, ArtConstants
<1>6. ArtTypes'
  <2>1. <<>> \in Seq(Uris \cup {"gap"})
    OBVIOUS
  <2>2. data' \in [Inodes -> Seq(Uris \cup {"gap"})]
    BY <1>1, <1>3, <2>1
  <2>3. req' \in [Requests -> Request]
    BY <1>1, <1>4
  <2>4. tmp' \in [Models -> Inodes \cup {NULL}]
    BY <1>1, <1>3
  <2>5. UNCHANGED <<registered, dest, rows, unevicted, unseen>> /\ ruined' \subseteq Inodes
    BY <1>1, <1>3
  <2> QED BY <2>2, <2>3, <2>4, <2>5 DEF FilesInv, ArtTypes
<1>7. \A s \in Requests : Proper(req[s])'
  <2>1. Proper(q)'
    BY <1>2, <1>3, <1>4, <1>5 DEF Proper
  <2>2. \A s \in Requests : s # r => Proper(req[s])'
    <3>1. \A s \in Requests : s # r => Proper(req[s]) /\ req'[s] = req[s]
      BY <1>5 DEF FilesInv
    <3>2. UNCHANGED <<registered, dest, unseen>>
      BY <1>3
    <3> QED BY <3>1, <3>2 DEF Proper
  <2>3. req'[r] = q
    BY <1>5
  <2> QED BY <2>1, <2>2, <2>3 DEF Proper
\* the file was at <path>.tmp of the same model, or nowhere
<1>8. \A n \in Models : Home(i, n) => n = m
  BY <1>2, <1>3 DEF Home, Unused, FilesInv, OneHome
<1>9. ASSUME NEW j \in Inodes, NEW n \in Models, Home(j, n)'
      PROVE  IF j = i THEN n = m ELSE Home(j, n)
  <2>1. CASE j # i
    <3>1. j \in {tmp'[n], dest'[n]} => j \in {tmp[n], dest[n]}
      BY <1>3, <1>5, <2>1
    <3>2. ASSUME NEW s \in Requests, req'[s].fd = j, req'[s].model = n
          PROVE  req[s].fd = j /\ req[s].model = n
      BY <1>4, <1>5, <2>1, <3>2
    <3> QED BY <1>9, <2>1, <3>1, <3>2 DEF Home
  <2>2. CASE j = i
    <3>1. CASE n # m
      <4>1. i \in {tmp'[n], dest'[n]} => Home(i, n)
        BY <1>3, <1>5, <3>1 DEF Home
      <4>2. ASSUME NEW s \in Requests, req'[s].fd = i, req'[s].model = n
            PROVE  Home(i, n)
        BY <1>4, <1>5, <3>1, <4>2 DEF Home
      <4> QED BY <1>8, <1>9, <2>2, <4>1, <4>2 DEF Home
    <3> QED BY <2>2, <3>1
  <2> QED BY <2>1, <2>2
<1>10. OneHome'
  <2>1. \A j \in Inodes, n, o \in Models : Home(j, n)' /\ Home(j, o)' => n = o
    BY <1>9 DEF FilesInv, OneHome
  <2>2. i # dest[m]
    BY <1>2, <1>3, <1>5 DEF Unused, FilesInv, OneHome
  <2>3. \A n \in Models : tmp'[n] # NULL => tmp'[n] # dest'[n]
    BY <1>3, <1>5, <2>2 DEF FilesInv, OneHome
  <2> QED BY <2>1, <2>3 DEF OneHome
<1>11. ASSUME NEW j \in Inodes, NEW n \in Models, Home(j, n)'
       PROVE  Sound(j, n)'
  <2>1. CASE j = i
    <3>1. n = m /\ data'[i] = <<>>
      BY <1>5, <1>9, <1>11, <2>1
    <3>2. Filled(r, j, n)'
      BY <1>4, <1>5, <2>1, <3>1 DEF Filled
    <3>3. registered'[n] # NULL /\ Len(data'[i]) <= Chunks
      BY <1>2, <1>3, <3>1, ArtConstants
    <3> QED BY <2>1, <3>1, <3>2, <3>3 DEF Sound
  <2>2. CASE j # i
    <3>1. Home(j, n)
      BY <1>9, <1>11, <2>2
    <3>2. Sound(j, n)
      BY <3>1 DEF FilesInv
    <3>3. data'[j] = data[j] /\ registered' = registered
      BY <1>3, <1>5, <2>2
    <3>4. \A s \in Requests : Filled(s, j, n) => Filled(s, j, n)'
      <4>1. \A s \in Requests : req[s].fd = j => req'[s] = req[s]
        BY <1>2, <1>5, ArtConstants
      <4> QED BY <3>3, <4>1 DEF Filled
    <3>5. j \in ruined => j \in ruined'
      BY <1>3, <2>2
    <3>6. Whole(n, j) => Whole(n, j)'
      BY <3>3 DEF Whole
    <3>7. registered'[n] # NULL /\ Len(data'[j]) <= Chunks
      BY <3>2, <3>3 DEF Sound
    <3>8. (Whole(n, j) \/ j \in ruined \/ \E s \in Requests : Filled(s, j, n))'
      BY <3>2, <3>4, <3>5, <3>6 DEF Sound
    <3> QED BY <3>7, <3>8 DEF Sound
  <2> QED BY <2>1, <2>2
<1> QED BY <1>6, <1>7, <1>10, <1>11 DEF FilesInv

\* A chunk written where a request stands adds to what it has copied and takes nothing
\* from the others: it is a chunk of the same model.
LEMMA CopyKeeps ==
  ASSUME FilesInv, NEW r \in Requests, Copy(r)
  PROVE  FilesInv'
<1>1. /\ req[r] \in Request /\ Proper(req[r]) /\ req[r].phase = "copy" /\ req[r].off < Chunks
      /\ registered \in [Models -> Uris \cup {NULL}] /\ req \in [Requests -> Request]
      /\ data \in [Inodes -> Seq(Uris \cup {"gap"})]
  BY DEF FilesInv, ArtTypes, Copy
<1>2. PICK m \in Models, i \in Inodes, off \in Nat :
        /\ req[r].model = m /\ req[r].uri = registered[m] /\ registered[m] \in Uris
        /\ req[r].fd = i /\ i # NULL /\ req[r].off = off /\ off < Chunks
  BY <1>1, ArtConstants DEF Proper, Request
<1> DEFINE w == Written(data[i], off, registered[m])
<1>3. /\ data' = [data EXCEPT ![i] = w] /\ req' = [req EXCEPT ![r].off = off + 1]
      /\ UNCHANGED <<registered, tmp, dest, rows, unevicted, ruined, unseen>>
  BY <1>1, <1>2 DEF Copy
<1>4. PICK q \in Request :
        /\ req' = [req EXCEPT ![r] = q] /\ q.phase = "copy" /\ q.model = m
        /\ q.uri = registered[m] /\ q.fd = i /\ q.off = off + 1
  <2> DEFINE q1 == [req[r] EXCEPT !.off = off + 1]
  <2>1. req' = [req EXCEPT ![r] = q1]
    BY <1>3
  <2>2. off + 1 \in 0 .. Chunks
    BY <1>2, ArtConstants
  <2>3. /\ q1 \in Request /\ q1.phase = "copy" /\ q1.model = m
        /\ q1.uri = registered[m] /\ q1.fd = i /\ q1.off = off + 1
    BY <1>1, <1>2, <2>2 DEF Request
  <2> HIDE DEF q1
  <2> QED BY <2>1, <2>3
<1>5. \A s \in Requests : req'[s] = IF s = r THEN q ELSE req[s]
  BY <1>1, <1>4
<1>6. Home(i, m) /\ Sound(i, m) /\ \A n \in Models : Home(i, n) => n = m
  BY <1>2 DEF Home, FilesInv, OneHome
<1>7. /\ data[i] \in Seq(Uris \cup {"gap"}) /\ Len(data[i]) \in Nat /\ Len(data[i]) <= Chunks
      /\ Chunks \in Nat
  BY <1>1, <1>6, ArtConstants DEF Sound
<1>8. /\ w \in Seq(Uris \cup {"gap"})
      /\ Len(w) = (IF Len(data[i]) > off THEN Len(data[i]) ELSE off + 1)
      /\ w[off + 1] = registered[m]
      /\ \A k \in 1 .. Len(data[i]) : w[k] \in {data[i][k], registered[m]}
  <2> DEFINE S == Uris \cup {"gap"}
             old == data[i]
             n == IF Len(old) > off THEN Len(old) ELSE off + 1
  <2>1. registered[m] \in S /\ "gap" \in S /\ old \in Seq(S) /\ Len(old) \in Nat
    BY <1>2, <1>7
  <2>2. w = [k \in 1 .. n |-> IF k = off + 1 THEN registered[m]
                            ELSE IF k <= Len(old) THEN old[k] ELSE "gap"]
    BY DEF Written
  <2>3. n \in Nat /\ Len(old) <= n /\ off + 1 \in 1 .. n
    BY <2>1
  <2> HIDE DEF w, n, S
  <2>4. \A k \in 1 .. n : w[k] = IF k = off + 1 THEN registered[m]
                                 ELSE IF k <= Len(old) THEN old[k] ELSE "gap"
    BY <2>2
  <2>5. \A k \in 1 .. Len(old) : old[k] \in S
    BY <2>1
  <2>6. \A k \in 1 .. n : w[k] \in S
    BY <2>1, <2>3, <2>4, <2>5
  <2>7. w \in Seq(S) /\ Len(w) = n
    BY <2>2, <2>3, <2>6
  <2>8. w[off + 1] = registered[m]
    BY <2>3, <2>4
  <2>9. \A k \in 1 .. Len(old) : w[k] \in {old[k], registered[m]}
    BY <2>1, <2>3, <2>4
  <2> QED BY <2>7, <2>8, <2>9 DEF n, S
<1>9. \A j \in Inodes : data'[j] = IF j = i THEN w ELSE data[j]
  BY <1>1, <1>3
<1>10. Len(w) \in Nat /\ Len(w) <= Chunks /\ Len(data[i]) <= Len(w) /\ off + 1 <= Len(w)
  BY <1>2, <1>7, <1>8
<1>11. ArtTypes'
  BY <1>1, <1>3, <1>4, <1>8 DEF FilesInv, ArtTypes
<1> HIDE DEF w
<1>12. \A s \in Requests : Proper(req[s])'
  <2>1. Proper(q)'
    BY <1>2, <1>3, <1>4, ArtConstants DEF Proper
  <2>2. \A s \in Requests : s # r => Proper(req[s])'
    <3>1. \A s \in Requests : s # r => Proper(req[s]) /\ req'[s] = req[s]
      BY <1>5 DEF FilesInv
    <3>2. UNCHANGED <<registered, dest, unseen>>
      BY <1>3
    <3> QED BY <3>1, <3>2 DEF Proper
  <2>3. req'[r] = q
    BY <1>5
  <2> QED BY <2>1, <2>2, <2>3 DEF Proper
<1>13. \A j \in Inodes, n \in Models : Home(j, n)' => Home(j, n)
  <2>1. \A s \in Requests : req'[s].fd = req[s].fd /\ req'[s].model = req[s].model
    BY <1>2, <1>4, <1>5
  <2> QED BY <1>3, <2>1 DEF Home
<1>14. OneHome'
  BY <1>3, <1>13 DEF FilesInv, OneHome
<1>15. ASSUME NEW j \in Inodes, NEW n \in Models, Home(j, n)'
       PROVE  Sound(j, n)'
  <2>1. Sound(j, n)
    BY <1>13, <1>15 DEF FilesInv
  <2>2. CASE j # i
    <3>1. data'[j] = data[j] /\ registered' = registered /\ ruined' = ruined
      BY <1>3, <1>9, <2>2
    <3>2. \A s \in Requests : req[s].fd = j => req'[s] = req[s]
      BY <1>2, <1>5, <2>2
    <3>3. \A s \in Requests : Filled(s, j, n) => Filled(s, j, n)'
      BY <3>1, <3>2 DEF Filled
    <3>4. Whole(n, j) => Whole(n, j)'
      BY <3>1 DEF Whole
    <3> QED BY <2>1, <3>1, <3>3, <3>4 DEF Sound
  <2>3. CASE j = i
    <3>1. n = m /\ data'[j] = w /\ registered' = registered /\ ruined' = ruined
      BY <1>3, <1>6, <1>9, <1>13, <1>15, <2>3
    <3>2. Whole(n, j) => Whole(n, j)'
      <4> SUFFICES ASSUME Whole(n, j) PROVE w = [k \in 1 .. Chunks |-> registered[m]]
        BY <3>1 DEF Whole
      <4>1. data[i] = [k \in 1 .. Chunks |-> registered[m]]
        BY <2>3, <3>1 DEF Whole
      <4>2. Len(data[i]) = Chunks /\ \A k \in 1 .. Chunks : data[i][k] = registered[m]
        BY <1>7, <4>1
      <4>3. Len(w) = Chunks /\ \A k \in 1 .. Chunks : w[k] = registered[m]
        BY <1>7, <1>8, <1>10, <4>2
      <4>4. w = [k \in 1 .. Chunks |-> w[k]]
        BY <1>7, <1>8, <4>3
      <4> QED BY <4>3, <4>4
    <3>3. ASSUME NEW s \in Requests, Filled(s, j, n)
          PROVE  Filled(s, j, n)'
      <4>1. /\ req[s].fd = i /\ req[s].off <= Len(data[i]) /\ req[s].off \in Nat
            /\ \A k \in 1 .. req[s].off : data[i][k] = registered[m]
        <5>1. req[s] \in Request
          BY <1>1
        <5> QED BY <2>3, <3>1, <3>3, <5>1 DEF Filled, Request
      <4>2. ASSUME NEW k \in 1 .. req[s].off
            PROVE  w[k] = registered[m]
        <5>1. k \in 1 .. Len(data[i]) /\ data[i][k] = registered[m]
          BY <1>7, <4>1
        <5> QED BY <1>8, <5>1
      <4>3. CASE s = r
        <5>1. req'[s].fd = i /\ req'[s].off = off + 1 /\ req[s].off = off
          BY <1>2, <1>4, <1>5, <4>3
        <5>2. \A k \in 1 .. off + 1 : w[k] = registered[m]
          BY <1>2, <1>8, <4>2, <5>1
        <5> QED BY <1>10, <2>3, <3>1, <5>1, <5>2 DEF Filled
      <4>4. CASE s # r
        <5>1. req'[s] = req[s] /\ req[s].off <= Len(w)
          BY <1>5, <1>7, <1>10, <4>1, <4>4
        <5> QED BY <2>3, <3>1, <4>1, <4>2, <5>1 DEF Filled
      <4> QED BY <4>3, <4>4
    <3>4. registered'[n] # NULL /\ Len(data'[j]) <= Chunks
      BY <1>10, <2>1, <3>1 DEF Sound
    <3>5. (Whole(n, j) \/ j \in ruined \/ \E s \in Requests : Filled(s, j, n))'
      BY <2>1, <3>1, <3>2, <3>3 DEF Sound
    <3> QED BY <3>4, <3>5 DEF Sound
  <2> QED BY <2>2, <2>3
<1> QED BY <1>11, <1>12, <1>14, <1>15 DEF FilesInv

\* At the start there is no file.
LEMMA FilesStart == ArtInit => FilesInv
<1> SUFFICES ASSUME ArtInit PROVE FilesInv
  OBVIOUS
<1>1. Idle \in Request /\ Idle.fd = NULL /\ Idle.phase = "idle"
  BY ArtConstants DEF Idle, Request
<1>2. ArtTypes
  BY <1>1 DEF ArtInit, ArtTypes
<1>3. \A r \in Requests : Proper(req[r])
  BY <1>1 DEF ArtInit, Proper
<1>4. \A i \in Inodes, m \in Models : ~Home(i, m)
  BY <1>1, ArtConstants DEF ArtInit, Home
<1> QED BY <1>2, <1>3, <1>4 DEF FilesInv, OneHome, ArtInit

\* Every step keeps the files as they should be.
LEMMA FilesStep ==
  ASSUME FilesInv, rows' \in Seq(Models), unevicted' \in Nat, ArtNext
  PROVE  FilesInv'
<1>1. CASE \E m \in Models, uri \in Uris : CreateModel(m, uri)
  BY <1>1, CreateModelKeeps
<1>2. ASSUME NEW r \in Requests,
             \/ \E m \in Models : serveModel(r, m) \/ StatFails(r, m)
             \/ FetchFails(r) \/ Create(r) \/ Copy(r) \/ CopyFails(r) \/ CloseFails(r) \/ Rename(r)
             \/ Touch(r) \/ EvictLRU(r) \/ CacheStatementFails(r) \/ Serve(r) \/ OpenFails(r)
      PROVE  FilesInv'
  <2>1. CASE Create(r)
    BY <2>1, CreateKeeps
  <2>2. CASE Copy(r)
    BY <2>2, CopyKeeps
  <2>3. CASE \/ \E m \in Models : serveModel(r, m) \/ StatFails(r, m)
             \/ FetchFails(r) \/ CopyFails(r) \/ CloseFails(r) \/ Rename(r)
             \/ Touch(r) \/ EvictLRU(r) \/ CacheStatementFails(r) \/ Serve(r) \/ OpenFails(r)
    BY <2>3, RequestKeeps
  <2> QED BY <1>2, <2>1, <2>2, <2>3
<1>3. CASE Restart
  BY <1>3, RestartKeeps
<1> QED BY <1>1, <1>2, <1>3 DEF ArtNext

-------------------------------------------------------------------------------
(* The table *)

\* A sequence that holds nothing twice.
Distinct(s) == \A j, k \in 1 .. Len(s) : s[j] = s[k] => j = k

\* Recording an access keeps every row once, and adds one at most.
LEMMA MovedToEndIs ==
  ASSUME rows \in Seq(Models), Distinct(rows), NEW m \in Models, NEW s, s = MovedToEnd(m)
  PROVE  /\ s \in Seq(Models) /\ Len(s) <= Len(rows) + 1 /\ Distinct(s)
         /\ \A k \in 1 .. Len(s) : s[k] = m \/ \E j \in 1 .. Len(rows) : s[k] = rows[j]
<1> DEFINE n == Len(rows)
<1>1. n \in Nat /\ \A j \in 1 .. n : rows[j] \in Models
  OBVIOUS
<1>2. CASE \A j \in 1 .. n : rows[j] # m
  <2>1. s = Append(rows, m)
    BY <1>2 DEF MovedToEnd
  <2>2. /\ s \in Seq(Models) /\ Len(s) = n + 1
        /\ s[n + 1] = m /\ \A k \in 1 .. n : s[k] = rows[k]
    BY <1>1, <2>1
  <2>3. ASSUME NEW j \in 1 .. Len(s), NEW k \in 1 .. Len(s), s[j] = s[k]
        PROVE  j = k
    <3>1. CASE j = n + 1 \/ k = n + 1
      BY <1>1, <1>2, <2>2, <2>3, <3>1
    <3>2. CASE j # n + 1 /\ k # n + 1
      BY <1>1, <2>2, <2>3, <3>2 DEF Distinct
    <3> QED BY <3>1, <3>2
  <2>4. \A k \in 1 .. Len(s) : s[k] = m \/ \E j \in 1 .. n : s[k] = rows[j]
    BY <1>1, <2>2
  <2> QED BY <1>1, <2>2, <2>3, <2>4 DEF Distinct
<1>3. ASSUME NEW p \in 1 .. n, rows[p] = m
      PROVE  /\ s \in Seq(Models) /\ Len(s) <= n + 1 /\ Distinct(s)
             /\ \A k \in 1 .. Len(s) : s[k] = m \/ \E j \in 1 .. n : s[k] = rows[j]
  <2> DEFINE from(k) == IF k = n THEN p ELSE IF p <= k THEN k + 1 ELSE k
  <2>1. \A k \in 1 .. n : (\E j \in 1 .. k : rows[j] = m) <=> p <= k
    BY <1>1, <1>3 DEF Distinct
  <2>2. s = [k \in 1 .. n |-> IF k = n THEN m
                             ELSE IF \E j \in 1 .. k : rows[j] = m THEN rows[k + 1] ELSE rows[k]]
    BY <1>3 DEF MovedToEnd
  <2> HIDE DEF n
  <2>3. \A k \in 1 .. n : from(k) \in 1 .. n
    BY <1>1
  <2>4. \A k \in 1 .. n : s[k] = rows[from(k)]
    BY <1>1, <1>3, <2>1, <2>2
  <2>5. \A j, k \in 1 .. n : from(j) = from(k) => j = k
    BY <1>1
  <2> HIDE DEF from
  <2>6. \A k \in 1 .. n : s[k] \in Models
    BY <1>1, <2>3, <2>4
  <2>7. s \in Seq(Models) /\ Len(s) = n
    BY <1>1, <2>2, <2>6
  <2>8. Distinct(s)
    <3>1. ASSUME NEW j \in 1 .. n, NEW k \in 1 .. n, s[j] = s[k]
          PROVE  j = k
      <4>1. PICK a \in 1 .. n, b \in 1 .. n :
               a = from(j) /\ b = from(k) /\ rows[a] = s[j] /\ rows[b] = s[k]
        BY <2>3, <2>4
      <4>2. a = b
        BY <3>1, <4>1 DEF Distinct, n
      <4> QED BY <2>5, <4>1, <4>2
    <3> QED BY <2>7, <3>1 DEF Distinct
  <2>9. Len(s) <= n + 1
    BY <1>1, <2>7
  <2>10. ASSUME NEW k \in 1 .. Len(s)
         PROVE  \E j \in 1 .. n : s[k] = rows[j]
    BY <2>3, <2>4, <2>7
  <2> QED BY <2>7, <2>8, <2>9, <2>10
<1> QED BY <1>2, <1>3

\* EvictLRU leaves rows of the table, MaxCached of them at most.
LEMMA EvictedIs ==
  ASSUME rows \in Seq(Models), Distinct(rows), NEW s, s = Evicted
  PROVE  /\ s \in Seq(Models) /\ Len(s) <= MaxCached /\ Distinct(s)
         /\ \A k \in 1 .. Len(s) : \E j \in 1 .. Len(rows) : s[k] = rows[j]
<1> DEFINE n == Len(rows)
           from == IF n > MaxCached THEN n - MaxCached + 1 ELSE 1
           size == IF n > MaxCached THEN MaxCached ELSE n
<1>1. /\ n \in Nat /\ MaxCached \in Nat /\ from \in Nat \ {0} /\ size \in Nat
      /\ size = n - from + 1 /\ size <= MaxCached /\ \A j \in 1 .. n : rows[j] \in Models
  BY ArtConstants
<1>2. s = SubSeq(rows, from, n)
  BY DEF Evicted
<1> HIDE DEF n, from, size
<1>3. s = [k \in 1 .. size |-> rows[from + k - 1]]
  BY <1>1, <1>2
<1>4. \A k \in 1 .. size : from + k - 1 \in 1 .. n /\ s[k] = rows[from + k - 1]
  BY <1>1, <1>3
<1>5. \A k \in 1 .. size : s[k] \in Models
  BY <1>1, <1>4
<1>6. s \in Seq(Models) /\ Len(s) = size
  BY <1>1, <1>3, <1>5
<1>7. Distinct(s)
  <2> SUFFICES ASSUME NEW j \in 1 .. size, NEW k \in 1 .. size, s[j] = s[k]
               PROVE  j = k
    BY <1>6 DEF Distinct
  <2>1. from + j - 1 = from + k - 1
    BY <1>4 DEF Distinct, n
  <2> QED BY <1>1, <2>1
<1> QED BY <1>1, <1>4, <1>6, <1>7 DEF n

\* The requests that have recorded their access and not evicted, after request r moved.
LEMMA EvictingIs ==
  ASSUME NEW r \in Requests, NEW phase,
         \A s \in Requests : req'[s].phase = IF s = r THEN phase ELSE req[s].phase
  PROVE  /\ IsFiniteSet(Evicting) /\ Cardinality(Evicting) \in Nat
         /\ req[r].phase # "evict" /\ phase = "evict" =>
                Cardinality(Evicting)' = Cardinality(Evicting) + 1
         /\ req[r].phase = "evict" /\ phase # "evict" =>
                Cardinality(Evicting) = Cardinality(Evicting)' + 1
         /\ IsFiniteSet(Evicting)' /\ Cardinality(Evicting)' \in Nat
<1>1. IsFiniteSet(Evicting) /\ Cardinality(Evicting) \in Nat
  BY ArtConstants, FS_Subset, FS_CardinalityType DEF Evicting
<1>2. IsFiniteSet(Evicting)' /\ Cardinality(Evicting)' \in Nat
  <2>1. IsFiniteSet(Evicting')
    BY ArtConstants, FS_Subset DEF Evicting
  <2> QED BY <2>1, FS_CardinalityType
<1>3. CASE req[r].phase # "evict" /\ phase = "evict"
  <2>1. Evicting' = Evicting \cup {r} /\ r \notin Evicting
    BY <1>3 DEF Evicting
  <2>2. Cardinality(Evicting \cup {r}) = Cardinality(Evicting) + 1
    BY <1>1, <2>1, FS_AddElement
  <2> QED BY <1>1, <1>2, <1>3, <2>1, <2>2
<1>4. CASE req[r].phase = "evict" /\ phase # "evict"
  <2>1. Evicting' = Evicting \ {r} /\ r \in Evicting
    BY <1>4 DEF Evicting
  <2>2. Cardinality(Evicting \ {r}) = Cardinality(Evicting) - 1
    BY <1>1, <2>1, FS_RemoveElement
  <2> QED BY <1>1, <1>2, <1>4, <2>1, <2>2
<1> QED BY <1>1, <1>2, <1>3, <1>4

\* A step that leaves the table, the evictions under way and the files in place alone.
LEMMA TableRests ==
  ASSUME ArtInv, UNCHANGED <<rows, unevicted>>, Evicting' = Evicting,
         \A m \in Models : dest[m] # NULL => dest'[m] # NULL,
         unseen \subseteq unseen'
  PROVE  /\ rows' \in Seq(Models) /\ unevicted' \in Nat
         /\ RowHasFile' /\ CacheBounded'
<1>1. rows \in Seq(Models) /\ unevicted \in Nat
  BY DEF ArtInv, FilesInv, ArtTypes
<1>2. CacheBounded'
  BY DEF ArtInv, CacheBounded
<1>3. \A k \in 1 .. Len(rows) : rows[k] \in Models
  BY <1>1
<1> QED BY <1>1, <1>2, <1>3 DEF ArtInv, RowHasFile

\* Every step keeps the table as it should be.
LEMMA TableStep ==
  ASSUME ArtInv, ArtNext
  PROVE  /\ rows' \in Seq(Models) /\ unevicted' \in Nat
         /\ RowHasFile' /\ CacheBounded'
<1>1. /\ rows \in Seq(Models) /\ unevicted \in Nat /\ req \in [Requests -> Request]
      /\ dest \in [Models -> Inodes \cup {NULL}]
      /\ \A r \in Requests : Proper(req[r]) /\ req[r] \in Request
  BY DEF ArtInv, FilesInv, ArtTypes
<1>2. /\ Len(rows) \in Nat /\ Len(rows) <= MaxCached + Cardinality(Evicting) + unevicted
      /\ Distinct(rows) /\ MaxCached \in Nat
      /\ \A k \in 1 .. Len(rows) : rows[k] \in Models /\ (dest[rows[k]] # NULL \/ rows[k] \in unseen)
  BY <1>1, ArtConstants DEF ArtInv, CacheBounded, RowHasFile, Distinct
<1>3. CASE \E m \in Models, uri \in Uris : CreateModel(m, uri)
  <2>1. UNCHANGED <<rows, unevicted, req, dest, unseen>>
    BY <1>3 DEF CreateModel
  <2>2. Evicting' = Evicting
    BY <2>1 DEF Evicting
  <2> QED BY <2>1, <2>2, TableRests
<1>4. ASSUME NEW r \in Requests,
             \/ \E m \in Models : serveModel(r, m) \/ StatFails(r, m)
             \/ FetchFails(r) \/ Create(r) \/ Copy(r) \/ CopyFails(r)
             \/ CloseFails(r) \/ Rename(r) \/ Serve(r) \/ OpenFails(r)
      PROVE  /\ rows' \in Seq(Models) /\ unevicted' \in Nat
             /\ RowHasFile' /\ CacheBounded'
  <2>1. UNCHANGED <<rows, unevicted>> /\ unseen \subseteq unseen'
    BY <1>4 DEF serveModel, StatFails, FetchFails, Create, Copy, CopyFails, CloseFails, Rename, Serve, OpenFails
  <2>2. \A m \in Models : dest[m] # NULL => dest'[m] # NULL
    <3>1. CASE Rename(r)
      <4>1. \/ dest' = dest
            \/ /\ tmp[req[r].model] # NULL
               /\ dest' = [dest EXCEPT ![req[r].model] = tmp[req[r].model]]
        BY <3>1 DEF Rename
      <4>2. CASE dest' = dest
        BY <4>2
      <4>3. CASE /\ tmp[req[r].model] # NULL
                 /\ dest' = [dest EXCEPT ![req[r].model] = tmp[req[r].model]]
        <5>1. PICK m, i : m = req[r].model /\ i = tmp[m] /\ i # NULL
          BY <4>3
        <5>2. dest' = [dest EXCEPT ![m] = i]
          BY <4>3, <5>1
        <5>3. dest \in [Models -> Inodes \cup {NULL}]
          BY <1>1
        <5>4. ASSUME NEW n \in Models, dest[n] # NULL
              PROVE  dest'[n] # NULL
          <6>1. CASE n = m
            BY <5>1, <5>2, <5>3, <6>1
          <6>2. CASE n # m
            BY <5>2, <5>3, <5>4, <6>2
          <6> QED BY <6>1, <6>2
        <5> QED BY <5>4
      <4> QED BY <4>1, <4>2, <4>3
    <3>2. CASE ~Rename(r)
      BY <1>4, <3>2 DEF serveModel, StatFails, FetchFails, Create, Copy, CopyFails, CloseFails, Serve, OpenFails
    <3> QED BY <3>1, <3>2
  <2>3. /\ \A s \in Requests : s # r => req'[s] = req[s]
        /\ req[r].phase # "evict" /\ req'[r].phase # "evict"
    <3>0. Idle.phase = "idle" /\ Idle \in Request
      BY ArtConstants DEF Idle, Request
    <3>1. ASSUME NEW m \in Models, serveModel(r, m)
          PROVE  /\ \A s \in Requests : s # r => req'[s] = req[s]
                 /\ req[r].phase # "evict" /\ req'[r].phase # "evict"
      <4> DEFINE q1 == [Idle EXCEPT !.model = m]
                 q2 == [q1 EXCEPT !.uri = registered[m]]
                 q3 == [q2 EXCEPT !.phase = IF dest[m] = NULL THEN "get" ELSE "touch"]
      <4>1. req' = [req EXCEPT ![r] = q3]
        BY <3>1 DEF serveModel, GetByNameVersion
      <4>2. q3.phase # "evict"
        BY DEF Idle
      <4> HIDE DEF q3
      <4> QED BY <1>1, <3>0, <3>1, <4>1, <4>2 DEF serveModel
    <3>6. ASSUME NEW m \in Models, StatFails(r, m)
          PROVE  /\ \A s \in Requests : s # r => req'[s] = req[s]
                 /\ req[r].phase # "evict" /\ req'[r].phase # "evict"
      <4> DEFINE q1 == [Idle EXCEPT !.model = m]
                 q2 == [q1 EXCEPT !.uri = registered[m]]
                 q3 == [q2 EXCEPT !.phase = "touch"]
      <4>1. req' = [req EXCEPT ![r] = q3]
        BY <3>6 DEF StatFails, GetByNameVersion
      <4>2. q3.phase # "evict"
        BY DEF Idle
      <4> HIDE DEF q3
      <4> QED BY <1>1, <3>0, <3>6, <4>1, <4>2 DEF StatFails
    <3>2. CASE FetchFails(r) \/ CopyFails(r) \/ CloseFails(r) \/ Serve(r) \/ OpenFails(r)
      <4>1. req' = [req EXCEPT ![r] = Idle] /\ req[r].phase \in {"get", "copy", "open"}
        BY <3>2 DEF FetchFails, CopyFails, CloseFails, Serve, OpenFails
      <4> QED BY <1>1, <3>0, <4>1
    <3>3. CASE Create(r)
      <4>1. PICK i : req' = [req EXCEPT ![r].phase = "copy", ![r].fd = i] /\ req[r].phase = "get"
        BY <3>3 DEF Create
      <4> QED BY <1>1, <4>1 DEF Request
    <3>4. CASE Copy(r)
      BY <1>1, <3>4 DEF Copy, Request
    <3>5. CASE Rename(r)
      <4>1. /\ req[r].phase = "copy"
            /\ \/ req' = [req EXCEPT ![r] = Idle]
               \/ req' = [req EXCEPT ![r].phase = "touch", ![r].fd = NULL, ![r].off = 0]
        BY <3>5 DEF Rename
      <4> QED BY <1>1, <3>0, <4>1 DEF Request
    <3> QED BY <1>4, <3>1, <3>2, <3>3, <3>4, <3>5, <3>6
  <2>4. Evicting' = Evicting
    BY <2>3 DEF Evicting
  <2> QED BY <2>1, <2>2, <2>4, TableRests, ZenonT(40)
<1>5. ASSUME NEW r \in Requests, Touch(r)
      PROVE  /\ rows' \in Seq(Models) /\ unevicted' \in Nat
             /\ RowHasFile' /\ CacheBounded'
  <2>0. PICK m \in Models :
          /\ req[r].phase = "touch" /\ (dest[m] # NULL \/ m \in unseen) /\ rows' = MovedToEnd(m)
          /\ req' = [req EXCEPT ![r].phase = "evict"] /\ UNCHANGED <<dest, unevicted, unseen>>
    BY <1>1, <1>5 DEF Touch, Proper
  <2>1. PICK new :
          /\ req[r].phase = "touch" /\ (dest[m] # NULL \/ m \in unseen) /\ new = MovedToEnd(m) /\ rows' = new
          /\ req' = [req EXCEPT ![r].phase = "evict"] /\ UNCHANGED <<dest, unevicted, unseen>>
    BY <2>0
  <2>2. /\ new \in Seq(Models) /\ Len(new) <= Len(rows) + 1 /\ Distinct(new)
        /\ \A k \in 1 .. Len(new) : new[k] = m \/ \E j \in 1 .. Len(rows) : new[k] = rows[j]
    BY <1>1, <1>2, <2>1, MovedToEndIs
  <2>3. Cardinality(Evicting)' = Cardinality(Evicting) + 1 /\ Cardinality(Evicting) \in Nat
    <3>1. \A s \in Requests : req'[s].phase = IF s = r THEN "evict" ELSE req[s].phase
      BY <1>1, <2>1 DEF Request
    <3> QED BY <2>1, <3>1, EvictingIs
  <2>4. Len(new) \in Nat /\ Len(new) <= MaxCached + Cardinality(Evicting)' + unevicted'
    BY <1>1, <1>2, <2>1, <2>2, <2>3
  <2>5. CacheBounded'
    BY <2>1, <2>2, <2>4 DEF CacheBounded, Distinct
  <2>6. RowHasFile'
    BY <1>2, <2>1, <2>2 DEF RowHasFile
  <2> QED BY <1>1, <2>1, <2>2, <2>5, <2>6
<1>6. ASSUME NEW r \in Requests, EvictLRU(r)
      PROVE  /\ rows' \in Seq(Models) /\ unevicted' \in Nat
             /\ RowHasFile' /\ CacheBounded'
  <2>1. PICK new :
          /\ new = Evicted /\ rows' = new /\ unevicted' = 0 /\ UNCHANGED <<dest, unseen>>
          /\ req' = [req EXCEPT ![r].phase = "open"]
    BY <1>6 DEF EvictLRU
  <2>2. /\ new \in Seq(Models) /\ Len(new) <= MaxCached /\ Distinct(new)
        /\ \A k \in 1 .. Len(new) : \E j \in 1 .. Len(rows) : new[k] = rows[j]
    BY <1>1, <1>2, <2>1, EvictedIs
  <2>3. Cardinality(Evicting)' \in Nat
    <3>1. \A s \in Requests : req'[s].phase = IF s = r THEN "open" ELSE req[s].phase
      BY <1>1, <2>1 DEF Request
    <3> QED BY <3>1, EvictingIs
  <2>4. Len(new) <= MaxCached + Cardinality(Evicting)' + unevicted'
    BY <1>2, <2>1, <2>2, <2>3
  <2>5. CacheBounded'
    BY <2>1, <2>2, <2>4 DEF CacheBounded, Distinct
  <2>6. RowHasFile'
    BY <1>2, <2>1, <2>2 DEF RowHasFile
  <2> QED BY <2>1, <2>2, <2>5, <2>6
<1>7. ASSUME NEW r \in Requests, CacheStatementFails(r)
      PROVE  /\ rows' \in Seq(Models) /\ unevicted' \in Nat
             /\ RowHasFile' /\ CacheBounded'
  <2>1. UNCHANGED <<rows, dest, unseen>>
    BY <1>7 DEF CacheStatementFails
  <2>2. RowHasFile'
    BY <2>1 DEF ArtInv, RowHasFile
  <2>3. /\ Cardinality(Evicting) \in Nat /\ Cardinality(Evicting)' \in Nat /\ unevicted' \in Nat
        /\ Cardinality(Evicting)' + unevicted' >= Cardinality(Evicting) + unevicted
    <3>1. CASE req[r].phase = "touch"
      <4>1. req' = [req EXCEPT ![r].phase = "evict"] /\ unevicted' = unevicted
        BY <1>7, <3>1 DEF CacheStatementFails
      <4>2. Cardinality(Evicting)' = Cardinality(Evicting) + 1 /\ Cardinality(Evicting) \in Nat
        <5>1. \A s \in Requests : req'[s].phase = IF s = r THEN "evict" ELSE req[s].phase
          BY <1>1, <4>1 DEF Request
        <5> QED BY <3>1, <5>1, EvictingIs
      <4> QED BY <1>1, <4>1, <4>2
    <3>2. CASE req[r].phase = "evict"
      <4>1. req' = [req EXCEPT ![r].phase = "open"] /\ unevicted' = unevicted + 1
        BY <1>7, <3>2 DEF CacheStatementFails
      <4>2. \A s \in Requests : req'[s].phase = IF s = r THEN "open" ELSE req[s].phase
        BY <1>1, <4>1 DEF Request
      <4>3. /\ Cardinality(Evicting) = Cardinality(Evicting)' + 1
            /\ Cardinality(Evicting) \in Nat /\ Cardinality(Evicting)' \in Nat
        BY <3>2, <4>2, EvictingIs
      <4> QED BY <1>1, <4>1, <4>3
    <3> QED BY <1>7, <3>1, <3>2 DEF CacheStatementFails
  <2>4. Len(rows) <= MaxCached + Cardinality(Evicting)' + unevicted'
    BY <1>1, <1>2, <2>3
  <2>5. CacheBounded'
    BY <1>2, <2>1, <2>4 DEF CacheBounded, Distinct
  <2> QED BY <1>1, <2>1, <2>2, <2>3, <2>5
\* the requests under way are gone, and will not evict
<1>8. CASE Restart
  <2>1. /\ UNCHANGED <<rows, dest, unseen>> /\ req' = [r \in Requests |-> Idle]
        /\ unevicted' = unevicted + Cardinality(Evicting)
    BY <1>8 DEF Restart
  <2>2. IsFiniteSet(Evicting) /\ Cardinality(Evicting) \in Nat
    BY ArtConstants, FS_Subset, FS_CardinalityType DEF Evicting
  <2>3. Evicting' = {}
    BY <2>1 DEF Evicting, Idle
  <2>4. Cardinality(Evicting)' = 0
    BY <2>3, FS_EmptySet
  <2>5. Len(rows) <= MaxCached + Cardinality(Evicting)' + unevicted'
    BY <1>1, <1>2, <2>1, <2>2, <2>4
  <2>6. CacheBounded'
    BY <1>2, <2>1, <2>5 DEF CacheBounded, Distinct
  <2>7. RowHasFile'
    BY <2>1 DEF ArtInv, RowHasFile
  <2> QED BY <1>1, <2>1, <2>2, <2>6, <2>7
<1> QED BY <1>3, <1>4, <1>5, <1>6, <1>7, <1>8 DEF ArtNext

\* At the start the table is empty.
LEMMA ArtStart == ArtInit => ArtInv
<1> SUFFICES ASSUME ArtInit PROVE ArtInv
  OBVIOUS
<1>1. rows = <<>> /\ Len(rows) = 0 /\ unevicted = 0
  BY DEF ArtInit
<1>2. RowHasFile
  BY <1>1 DEF RowHasFile
<1>3. Cardinality(Evicting) \in Nat
  BY ArtConstants, FS_Subset, FS_CardinalityType DEF Evicting
<1>4. CacheBounded
  BY <1>1, <1>3, ArtConstants DEF CacheBounded
<1> QED BY <1>2, <1>4, FilesStart DEF ArtInv

\* The invariant is inductive.
LEMMA ArtStep ==
  ASSUME ArtInv, [ArtNext]_artifactVars
  PROVE  ArtInv'
<1>1. CASE ArtNext
  <2>1. /\ rows' \in Seq(Models) /\ unevicted' \in Nat
        /\ RowHasFile' /\ CacheBounded'
    BY <1>1, TableStep
  <2>2. FilesInv'
    BY <1>1, <2>1, FilesStep DEF ArtInv
  <2> QED BY <2>1, <2>2 DEF ArtInv
<1>2. CASE UNCHANGED artifactVars
  <2>1. UNCHANGED <<registered, tmp, dest, data, req, rows, ruined, unevicted, unseen>>
    BY <1>2 DEF artifactVars
  <2>2. ArtTypes'
    BY <2>1 DEF ArtInv, FilesInv, ArtTypes
  <2>3. \A r \in Requests : Proper(req[r])'
    BY <2>1 DEF ArtInv, FilesInv, Proper
  <2>4. FilesInv'
    BY <2>1, <2>2, <2>3, FilesKeep DEF ArtInv, FilesInv, OneHome, Home
  <2>5. Evicting' = Evicting
    BY <2>1 DEF Evicting
  <2>6. RowHasFile' /\ CacheBounded'
    BY <2>1, <2>5, TableRests
  <2> QED BY <2>4, <2>6 DEF ArtInv
<1> QED BY <1>1, <1>2

\* Any reachable state satisfies the invariant.
LEMMA ArtInvariant == ArtSpec => []ArtInv
BY ArtStart, ArtStep, PTL DEF ArtSpec

-------------------------------------------------------------------------------
(* The properties *)

\* However the fetches of a model overlap (serveModel, fetchFromUpstream: nothing excludes
\* them from each other), the file agents are served is whole, except while a request is
\* still writing it, or if one was cut off when it did.
THEOREM TornFilesHaveAWriter == ArtSpec => []TornOnlyBehindAWriter
<1>1. ASSUME ArtInv PROVE TornOnlyBehindAWriter
  <2> SUFFICES ASSUME NEW m \in Models, dest[m] # NULL
               PROVE  \/ Whole(m, dest[m]) \/ dest[m] \in ruined
                      \/ \E r \in Requests : req[r].phase = "copy" /\ req[r].fd = dest[m]
    BY DEF TornOnlyBehindAWriter
  <2>1. dest[m] \in Inodes /\ Home(dest[m], m)
    BY <1>1 DEF ArtInv, FilesInv, ArtTypes, Home
  <2>2. Sound(dest[m], m)
    BY <1>1, <2>1 DEF ArtInv, FilesInv
  <2>3. ASSUME NEW r \in Requests, Filled(r, dest[m], m)
        PROVE  req[r].phase = "copy" /\ req[r].fd = dest[m]
    BY <1>1, <2>3 DEF ArtInv, FilesInv, Proper, Filled
  <2> QED BY <2>2, <2>3 DEF Sound
<1> QED BY <1>1, ArtInvariant, PTL

\* The table gateway_cache_entries lists a model the gateway has no file of only if a
\* Stat error other than "not exist" made a request go on without a fetch (serveModel
\* otherwise calls Touch only once the file is in place, and nothing removes files).
THEOREM RowsHaveFiles == ArtSpec => []RowHasFile
<1>1. ArtInv => RowHasFile
  BY DEF ArtInv
<1> QED BY <1>1, ArtInvariant, PTL

\* The table exceeds maxCachedVersions by the evictions under way, and by those that were
\* abandoned since the last one, and holds no model twice (Touch, EvictLRU).
THEOREM TableIsBounded == ArtSpec => []CacheBounded
<1>1. ArtInv => CacheBounded
  BY DEF ArtInv
<1> QED BY <1>1, ArtInvariant, PTL
===============================================================================
