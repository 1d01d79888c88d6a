---------------------------- MODULE ArtifactCache -----------------------------
(***************************************************************************)
(* The model registry (internal/model), the gateway's artifact endpoint    *)
(* (internal/gateway/artifacts.go) and the table gateway_cache_entries     *)
(* behind it (cache.go).  Every HTTP request is a goroutine of serveModel: *)
(* it looks up the model and its file, fetches it from the object store    *)
(* into <dest>.tmp if it is missing, renames it, records the access,       *)
(* evicts old rows and sends the file.  Nothing excludes two requests that *)
(* fetch the same model.                                                   *)
(*                                                                         *)
(* Paths lead to inodes, as renames move paths and open files do not       *)
(* follow.  A file's content is a sequence of chunks, each named by the    *)
(* URI it was fetched from, or "gap" where nobody has written yet.  Every  *)
(* object has Chunks of them.                                              *)
(***************************************************************************)
EXTENDS Naturals, Sequences, FiniteSets

CONSTANTS Requests,   \* request goroutines
          Models,     \* model name and version pairs
          Uris,       \* artifact URIs of the object store
          NULL,
          Chunks,     \* chunks of an artifact
          MaxCached,  \* maxCachedVersions
          MaxFaults   \* bound on failed operations and restarts

ASSUME ArtifactAssumption ==
    /\ Chunks \in Nat \ {0} /\ MaxCached \in Nat /\ MaxFaults \in Nat
    /\ IsFiniteSet(Requests) /\ IsFiniteSet(Models)

\* Two paths per model and one open file per request: there is always a free one.
Inodes == 1 .. 2 * Cardinality(Models) + Cardinality(Requests)

ASSUME NullAssumption == NULL \notin Inodes \cup Models \cup Uris /\ "gap" \notin Uris

VARIABLES registered, \* artifact_uri of the rows of models, NULL: no row
          tmp, dest,  \* the inodes at <path>.tmp and <path>, or NULL
          data,       \* content of the inodes
          req,        \* the requests
          rows,       \* gateway_cache_entries of this gateway, by last_access_at
          ruined,     \* history: inodes with a writer that was cut off
          unevicted,  \* history: requests that did not get to evict since others last did
          unseen,     \* history: models with no file whose request went on without a fetch
          faults

artifactVars == <<registered, tmp, dest, data, req, rows, ruined, unevicted, unseen, faults>>

Idle == [phase |-> "idle", model |-> NULL, uri |-> NULL, fd |-> NULL, off |-> 0]
\* The file of an inode is the artifact the registry names for model m.
Whole(m, i) == data[i] = [k \in 1 .. Chunks |-> registered[m]]

ArtInit ==
    /\ registered = [m \in Models |-> NULL]
    /\ tmp = [m \in Models |-> NULL]
    /\ dest = [m \in Models |-> NULL]
    /\ data = [i \in Inodes |-> <<>>]
    /\ req = [r \in Requests |-> Idle]
    /\ rows = <<>>
    /\ ruined = {}
    /\ unevicted = 0
    /\ unseen = {}
    /\ faults = 0

-------------------------------------------------------------------------------
(* The registry *)

\* The unique constraint on name and version; no statement changes a row.
InsertModel(m, uri) == registered[m] = NULL /\ registered' = [registered EXCEPT ![m] = uri]

GetByNameVersion(m) == registered[m]

\* A request without a name, a version or a URI is rejected.
CreateModel(m, uri) ==
    /\ InsertModel(m, uri)
    /\ UNCHANGED <<tmp, dest, data, req, rows, unevicted, ruined, faults, unseen>>

-------------------------------------------------------------------------------
(* serveModel, up to the fetch *)

\* Mutant of serveModel: a model with a row is taken to have a file.
serveModelTrustsRow(r, m) ==
    /\ req[r] = Idle /\ GetByNameVersion(m) # NULL
    /\ req' = [req EXCEPT ![r] = [Idle EXCEPT !.model = m, !.uri = GetByNameVersion(m), !.phase = "touch"]]
    /\ UNCHANGED <<registered, tmp, dest, data, rows, unevicted, ruined, faults, unseen>>

\* A request for a registered model: os.Stat decides whether to fetch it.
serveModel(r, m) ==
    /\ req[r] = Idle /\ GetByNameVersion(m) # NULL
    /\ req' = [req EXCEPT ![r] = [Idle EXCEPT !.model = m, !.uri = GetByNameVersion(m),
                                   !.phase = IF dest[m] = NULL THEN "get" ELSE "touch"]]
    /\ UNCHANGED <<registered, tmp, dest, data, rows, unevicted, ruined, faults, unseen>>

\* os.Stat fails with another error than that there is no such file (a name too long
\* for the file system, a file where a directory should be): nothing is fetched, and
\* the request goes on as if the file were there.
StatFails(r, m) ==
    /\ req[r] = Idle /\ GetByNameVersion(m) # NULL /\ faults < MaxFaults
    /\ req' = [req EXCEPT ![r] = [Idle EXCEPT !.model = m, !.uri = GetByNameVersion(m), !.phase = "touch"]]
    /\ unseen' = IF dest[m] = NULL THEN unseen \cup {m} ELSE unseen
    /\ faults' = faults + 1
    /\ UNCHANGED <<registered, tmp, dest, data, rows, unevicted, ruined>>

-------------------------------------------------------------------------------
(* fetchFromUpstream *)

FetchFails(r) ==
    /\ req[r].phase = "get" /\ faults < MaxFaults
    /\ req' = [req EXCEPT ![r] = Idle]
    /\ faults' = faults + 1
    /\ UNCHANGED <<registered, tmp, dest, data, rows, unevicted, ruined, unseen>>

Unused(i) == /\ \A m \in Models : i \notin {tmp[m], dest[m]}
             /\ \A r \in Requests : i # req[r].fd

\* The object store answers; os.Create truncates the file at <dest>.tmp,
\* another request's too, or makes a new one.
Create(r) ==
    LET m == req[r].model
        i == IF tmp[m] # NULL THEN tmp[m] ELSE CHOOSE j \in Inodes : Unused(j)
    IN  /\ req[r].phase = "get"
        /\ tmp' = [tmp EXCEPT ![m] = i]
        /\ data' = [data EXCEPT ![i] = <<>>]
        /\ ruined' = IF tmp[m] = NULL THEN ruined \ {i} ELSE ruined
        /\ req' = [req EXCEPT ![r].phase = "copy", ![r].fd = i]
        /\ UNCHANGED <<registered, dest, rows, unevicted, faults, unseen>>

\* A write at an offset: what lies between the end of the file and it is a gap.
Written(content, off, uri) ==
    [k \in 1 .. (IF Len(content) > off THEN Len(content) ELSE off + 1) |->
        IF k = off + 1 THEN uri ELSE IF k <= Len(content) THEN content[k] ELSE "gap"]

\* io.Copy writes the next chunk to the open file.
Copy(r) ==
    /\ req[r].phase = "copy" /\ req[r].off < Chunks
    /\ data' = [data EXCEPT ![req[r].fd] = Written(@, req[r].off, req[r].uri)]
    /\ req' = [req EXCEPT ![r].off = @ + 1]
    /\ UNCHANGED <<registered, tmp, dest, rows, unevicted, ruined, faults, unseen>>

\* The copy or the rename fails: whatever is at <dest>.tmp by now is removed.
CopyFails(r) ==
    /\ req[r].phase = "copy" /\ faults < MaxFaults
    /\ tmp' = [tmp EXCEPT ![req[r].model] = NULL]
    /\ ruined' = ruined \cup {req[r].fd}
    /\ req' = [req EXCEPT ![r] = Idle]
    /\ faults' = faults + 1
    /\ UNCHANGED <<registered, dest, data, rows, unevicted, unseen>>

\* Closing the file fails: <dest>.tmp stays.
CloseFails(r) ==
    /\ req[r].phase = "copy" /\ req[r].off = Chunks /\ faults < MaxFaults
    /\ req' = [req EXCEPT ![r] = Idle]
    /\ faults' = faults + 1
    /\ UNCHANGED <<registered, tmp, dest, data, rows, unevicted, ruined, unseen>>

\* Mutant of Rename: the file is put in place while it is still written.
RenameEarly(r) ==
    LET m == req[r].model
    IN  /\ req[r].phase = "copy"
        /\ IF tmp[m] = NULL
           THEN req' = [req EXCEPT ![r] = Idle] /\ UNCHANGED <<registered, tmp, dest>>
           ELSE /\ dest' = [dest EXCEPT ![m] = tmp[m]]
                /\ tmp' = [tmp EXCEPT ![m] = NULL]
                /\ req' = [req EXCEPT ![r].phase = "touch", ![r].fd = NULL, ![r].off = 0]
        /\ UNCHANGED <<registered, data, rows, unevicted, ruined, faults, unseen>>

\* os.Rename moves whatever is at <dest>.tmp, and fails if nothing is there.
Rename(r) ==
    LET m == req[r].model
    IN  /\ req[r].phase = "copy" /\ req[r].off = Chunks
        /\ IF tmp[m] = NULL
           THEN req' = [req EXCEPT ![r] = Idle] /\ UNCHANGED <<registered, tmp, dest>>
           ELSE /\ dest' = [dest EXCEPT ![m] = tmp[m]]
                /\ tmp' = [tmp EXCEPT ![m] = NULL]
                /\ req' = [req EXCEPT ![r].phase = "touch", ![r].fd = NULL, ![r].off = 0]
        /\ UNCHANGED <<registered, data, rows, unevicted, ruined, faults, unseen>>

-------------------------------------------------------------------------------
(* serveModel, after the fetch *)

\* The rows with the one of m last, new or not.
MovedToEnd(m) ==
    LET n == Len(rows)
        At(j) == rows[j] = m
    IN  IF \A j \in 1 .. n : ~At(j) THEN Append(rows, m)
        ELSE [k \in 1 .. n |-> IF k = n THEN m
                               ELSE IF \E j \in 1 .. k : At(j) THEN rows[k + 1] ELSE rows[k]]

\* The row is inserted, or its last_access_at set to now.
Touch(r) ==
    /\ req[r].phase = "touch"
    /\ rows' = MovedToEnd(req[r].model)
    /\ req' = [req EXCEPT ![r].phase = "evict"]
    /\ UNCHANGED <<registered, tmp, dest, data, ruined, unevicted, faults, unseen>>

\* Mutant of Evicted: OFFSET skips one row too many.
EvictedOneLess == SubSeq(rows, IF Len(rows) > MaxCached + 1 THEN Len(rows) - MaxCached ELSE 1, Len(rows))

\* The rows EvictLRU leaves: the MaxCached accessed last.
Evicted == SubSeq(rows, IF Len(rows) > MaxCached THEN Len(rows) - MaxCached + 1 ELSE 1, Len(rows))

EvictLRU(r) ==
    /\ req[r].phase = "evict"
    /\ rows' = Evicted
    /\ unevicted' = 0
    /\ req' = [req EXCEPT ![r].phase = "open"]
    /\ UNCHANGED <<registered, tmp, dest, data, ruined, faults, unseen>>

\* An error of either statement is logged and the request goes on.
CacheStatementFails(r) ==
    /\ req[r].phase \in {"touch", "evict"} /\ faults < MaxFaults
    /\ req' = [req EXCEPT ![r].phase = IF @ = "touch" THEN "evict" ELSE "open"]
    /\ unevicted' = IF req[r].phase = "evict" THEN unevicted + 1 ELSE unevicted
    /\ faults' = faults + 1
    /\ UNCHANGED <<registered, tmp, dest, data, rows, ruined, unseen>>

\* The file is opened and sent: whatever it holds.
Serve(r) ==
    /\ req[r].phase = "open" /\ dest[req[r].model] # NULL
    /\ req' = [req EXCEPT ![r] = Idle]
    /\ UNCHANGED <<registered, tmp, dest, data, rows, unevicted, ruined, faults, unseen>>

\* There is nothing to open: the request is answered with an error.
OpenFails(r) ==
    /\ req[r].phase = "open" /\ dest[req[r].model] = NULL
    /\ req' = [req EXCEPT ![r] = Idle]
    /\ UNCHANGED <<registered, tmp, dest, data, rows, unevicted, ruined, faults, unseen>>

\* Requests that have recorded their access and not evicted yet.
Evicting == {r \in Requests : req[r].phase = "evict"}

\* The gateway process ends and starts again.
Restart ==
    /\ faults < MaxFaults
    /\ ruined' = ruined \cup ({req[r].fd : r \in Requests} \ {NULL})
    /\ req' = [r \in Requests |-> Idle]
    /\ unevicted' = unevicted + Cardinality(Evicting)
    /\ faults' = faults + 1
    /\ UNCHANGED <<registered, tmp, dest, data, rows, unseen>>

ArtNext ==
    \/ \E m \in Models, uri \in Uris : CreateModel(m, uri)
    \/ \E r \in Requests :
        \/ \E m \in Models : serveModel(r, m) \/ StatFails(r, m)
        \/ FetchFails(r) \/ Create(r) \/ Copy(r) \/ CopyFails(r) \/ CloseFails(r) \/ Rename(r)
        \/ Touch(r) \/ EvictLRU(r) \/ CacheStatementFails(r) \/ Serve(r) \/ OpenFails(r)
    \/ Restart

ArtSpec == ArtInit /\ [][ArtNext]_artifactVars

-------------------------------------------------------------------------------
(* Properties *)

\* However the fetches of a model overlap, the file agents are served is whole,
\* except while another request is still writing it, and if such a request was
\* cut off (an error or a restart), when nothing ever repairs the file.
TornOnlyBehindAWriter ==
    \A m \in Models :
        dest[m] # NULL =>
            \/ Whole(m, dest[m])
            \/ dest[m] \in ruined
            \/ \E r \in Requests : req[r].phase = "copy" /\ req[r].fd = dest[m]

\* The cache table lists a model the gateway has no file of only after a Stat error
\* hid from a request that there is none: every other request records the access only
\* once the file is in place, and nothing that later fails or ends takes it away.
RowHasFile == \A k \in 1 .. Len(rows) : dest[rows[k]] # NULL \/ rows[k] \in unseen

\* The table holds more than maxCachedVersions rows only while the requests that
\* added them have not evicted yet, or never will (a failed statement, a restart) until
\* the next one evicts for them, and it holds no model twice.
CacheBounded ==
    /\ Len(rows) <= MaxCached + Cardinality(Evicting) + unevicted
    /\ \A j, k \in 1 .. Len(rows) : rows[j] = rows[k] => j = k
===============================================================================
