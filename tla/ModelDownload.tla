---------------------------- MODULE ModelDownload -----------------------------
(***************************************************************************)
(* Model files on an edge node: Downloader.Download and pruneOldVersions   *)
(* (internal/agent/downloader.go), run by InstallModel tasks, and          *)
(* DeleteModel (model_executor.go).  The task runner executes every task   *)
(* in a goroutine of its own, so downloads overlap, of one version too.    *)
(*                                                                         *)
(* One model is followed, with the versions that share its directory.      *)
(* Paths lead to inodes; an open file is not affected by renaming or       *)
(* removing its path.  An artifact is the chunks 1 .. Chunks; 0 stands for *)
(* a chunk that is not the artifact's (a gap, or what a gateway with a     *)
(* torn copy sends).                                                       *)
(***************************************************************************)
EXTENDS Naturals, Sequences, FiniteSets, AgentTasks

CONSTANTS Versions,
          Contended,   \* versions that several tasks may install at once: their
                       \* downloads share one .part file and nothing is claimed
                       \* of the result
          Chunks,
          MaxLocal,    \* maxLocalVersions
          MaxFaults,   \* bound on failing requests and wrong chunks
          MaxCrashes   \* bound on crashes of the agent and failing closes

ASSUME DownloadAssumption ==
    /\ Chunks \in Nat \ {0} /\ MaxLocal \in Nat \ {0}
    /\ MaxFaults \in Nat /\ MaxCrashes \in Nat
    /\ Contended \subseteq Versions
    /\ IsFiniteSet(Jobs) /\ IsFiniteSet(Versions)

\* Two paths per version and one open file per goroutine.
Inodes == 1 .. 2 * Cardinality(Versions) + Cardinality(Jobs)

ASSUME NullAssumption == NULL \notin Inodes /\ NULL \notin Versions

VARIABLES part, dest,  \* the inodes at model.bin.part and model.bin, or NULL
          dirs,        \* the version directories, with those modified after each
          data,        \* content of the inodes
          job,         \* the goroutines
          installed,   \* history: versions whose verified install is reported and in place
          faults, crashes

fileVars == <<part, dest, dirs, data>>
downloadVars == <<fileVars, job, installed, faults, crashes>>

Idle == [phase |-> "idle", version |-> NULL, checked |-> FALSE, fd |-> NULL,
         append |-> FALSE, off |-> 0, victims |-> {}]

Artifact == [k \in 1 .. Chunks |-> k]
Dirs == DOMAIN dirs

\* The directory's modification time becomes the latest.
Touched(v) == [w \in Dirs \cup {v} |-> IF w = v THEN {} ELSE dirs[w] \cup {v}]

DlInit ==
    /\ part = [v \in Versions |-> NULL]
    /\ dest = [v \in Versions |-> NULL]
    /\ dirs = [v \in {} |-> {}]
    /\ data = [i \in Inodes |-> <<>>]
    /\ job = [j \in Jobs |-> Idle]
    /\ installed = {}
    /\ faults = 0
    /\ crashes = 0

\* The contents become d; an inode without a path and an open file is freed.
Store(d) ==
    data' = [i \in Inodes |->
                IF \/ \E v \in Versions : i \in {part'[v], dest'[v]}
                   \/ \E j \in Jobs : i = job'[j].fd
                THEN d[i] ELSE <<>>]

Busy(v) == \E j \in Jobs : job[j].version = v

\* The goroutine ends.
Ends(j) == job' = [job EXCEPT ![j] = Idle]

-------------------------------------------------------------------------------
(* downloadWithResume *)

\* os.Stat of the .part file.
PartSize(v) == IF part[v] = NULL THEN 0 ELSE Len(data[part[v]])

\* os.MkdirAll and os.Stat.  Tasks with and without a checksum exist.
Download(j, v, checked) ==
    /\ job[j] = Idle /\ (Busy(v) => v \in Contended)
    /\ dirs' = IF v \in Dirs THEN dirs ELSE Touched(v)
    /\ job' = [job EXCEPT ![j] = [Idle EXCEPT !.phase = "request", !.version = v,
                                   !.checked = checked, !.off = PartSize(v)]]
    /\ UNCHANGED <<part, dest, data, installed, faults, crashes>>

RequestFails(j) ==
    /\ job[j].phase = "request" /\ faults < MaxFaults
    /\ Ends(j)
    /\ faults' = faults + 1
    /\ UNCHANGED <<fileVars, installed, crashes>>

\* A range that starts at the end of the artifact is answered 416.
RangeRejected(j) ==
    /\ job[j].phase = "request" /\ job[j].off >= Chunks
    /\ Ends(j)
    /\ UNCHANGED <<fileVars, installed, faults, crashes>>

Unused(i) == /\ \A v \in Versions : i \notin {part[v], dest[v]}
             /\ \A j \in Jobs : i # job[j].fd

\* Answered 200 (from the start) or 206 (from the offset): the .part file is
\* truncated or opened for appending, and created if it is not there.
OpenPart(j) ==
    LET v == job[j].version
        i == IF part[v] # NULL THEN part[v] ELSE CHOOSE k \in Inodes : Unused(k)
    IN  /\ job[j].phase = "request" /\ job[j].off < Chunks
        /\ IF v \in Dirs
           THEN /\ part' = [part EXCEPT ![v] = i]
                /\ dirs' = IF part[v] = NULL THEN Touched(v) ELSE dirs
                /\ data' = [data EXCEPT ![i] = IF job[j].off = 0 THEN <<>> ELSE @]
                /\ job' = [job EXCEPT ![j].phase = "copy", ![j].fd = i,
                                      ![j].append = job[j].off > 0]
           ELSE Ends(j) /\ UNCHANGED <<part, dirs, data>>
        /\ UNCHANGED <<dest, installed, faults, crashes>>

\* The file with chunk c written at the end, or at an offset.
WrittenTo(content, append, off, c) ==
    IF append THEN Append(content, c)
    ELSE [k \in 1 .. (IF Len(content) > off THEN Len(content) ELSE off + 1) |->
              IF k = off + 1 THEN c ELSE IF k <= Len(content) THEN content[k] ELSE 0]

CopyChunk(j, c) ==
    /\ job[j].phase = "copy" /\ job[j].off < Chunks
    /\ data' = [data EXCEPT ![job[j].fd] = WrittenTo(@, job[j].append, job[j].off, c)]
    /\ job' = [job EXCEPT ![j].off = @ + 1]
    /\ UNCHANGED <<part, dest, dirs, installed, crashes>>

\* io.Copy: the gateway sends the next chunk, or a wrong one from a torn copy.
Copy(j) ==
    \/ CopyChunk(j, job[j].off + 1) /\ faults' = faults
    \/ faults < MaxFaults /\ CopyChunk(j, 0) /\ faults' = faults + 1

\* The connection breaks: the .part file stays.
CopyFails(j) ==
    /\ job[j].phase = "copy" /\ job[j].off < Chunks /\ faults < MaxFaults
    /\ Ends(j)
    /\ faults' = faults + 1
    /\ UNCHANGED <<part, dest, dirs, installed, crashes>>
    /\ Store(data)

\* Close or rename fails: the complete .part file stays.
CloseFails(j) ==
    /\ job[j].phase = "copy" /\ job[j].off = Chunks /\ crashes < MaxCrashes
    /\ Ends(j)
    /\ crashes' = crashes + 1
    /\ UNCHANGED <<part, dest, dirs, installed, faults>>
    /\ Store(data)

\* Mutant of Rename: a model.bin that is there is not replaced.
RenameNoReplace(j) ==
    LET v == job[j].version
    IN  /\ job[j].phase = "copy" /\ job[j].off = Chunks
        /\ IF part[v] = NULL \/ dest[v] # NULL
           THEN Ends(j) /\ UNCHANGED <<part, dest, dirs, installed>>
           ELSE /\ dest' = [dest EXCEPT ![v] = part[v]]
                /\ part' = [part EXCEPT ![v] = NULL]
                /\ dirs' = Touched(v)
                /\ installed' = installed \ {v}
                /\ job' = [job EXCEPT ![j].phase = "verify", ![j].fd = NULL,
                                      ![j].off = 0, ![j].append = FALSE]
        /\ UNCHANGED <<faults, crashes>>
        /\ Store(data)

\* os.Rename of whatever is at the .part path, if it is still there.
Rename(j) ==
    LET v == job[j].version
    IN  /\ job[j].phase = "copy" /\ job[j].off = Chunks
        /\ IF part[v] = NULL
           THEN Ends(j) /\ UNCHANGED <<part, dest, dirs, installed>>
           ELSE /\ dest' = [dest EXCEPT ![v] = part[v]]
                /\ part' = [part EXCEPT ![v] = NULL]
                /\ dirs' = Touched(v)
                /\ installed' = installed \ {v}
                /\ job' = [job EXCEPT ![j].phase = "verify", ![j].fd = NULL,
                                      ![j].off = 0, ![j].append = FALSE]
        /\ UNCHANGED <<faults, crashes>>
        /\ Store(data)

-------------------------------------------------------------------------------
(* The rest of Download *)

\* Mutant of Verified: only the size is compared.
VerifiedBySize(v) == Len(data[dest[v]]) = Chunks

\* verifyFileSHA256.
Verified(v) == data[dest[v]] = Artifact

\* A file that fails its checksum is removed; one without a checksum passes.
Verify(j) ==
    LET v == job[j].version
    IN  /\ job[j].phase = "verify"
        /\ IF dest[v] = NULL
           THEN Ends(j) /\ UNCHANGED <<dest, dirs>>
           ELSE IF ~job[j].checked \/ Verified(v)
           THEN job' = [job EXCEPT ![j].phase = "list"] /\ UNCHANGED <<dest, dirs>>
           ELSE /\ dest' = [dest EXCEPT ![v] = NULL]
                /\ dirs' = Touched(v)
                /\ Ends(j)
        /\ UNCHANGED <<part, installed, faults, crashes>>
        /\ Store(data)

\* The directories beyond the maxLocalVersions modified last.
Oldest == {v \in Dirs : Cardinality(dirs[v]) >= MaxLocal}

\* Stat and hash the file again, then read the directory.
PruneList(j) ==
    LET v == job[j].version
    IN  /\ job[j].phase = "list"
        /\ IF dest[v] = NULL
           THEN Ends(j)
           ELSE job' = [job EXCEPT ![j].phase = "prune", ![j].victims = Oldest]
        /\ UNCHANGED <<fileVars, installed, faults, crashes>>

\* os.RemoveAll of the directory of version w.
RemoveDir(w) ==
    /\ part' = [part EXCEPT ![w] = NULL]
    /\ dest' = [dest EXCEPT ![w] = NULL]
    /\ dirs' = [v \in Dirs \ {w} |-> dirs[v] \ {w}]
    /\ Store(data)

\* One victim of the listing is removed, whatever happened to it since.
Prune(j) ==
    \E w \in job[j].victims :
        /\ job' = [job EXCEPT ![j].victims = @ \ {w}]
        /\ RemoveDir(w)
        /\ installed' = installed \ {w}
        /\ UNCHANGED <<faults, crashes>>

\* Every victim is removed: the install reports success.
DownloadReturns(j) ==
    LET v == job[j].version
    IN  /\ job[j].phase = "prune" /\ job[j].victims = {}
        /\ Ends(j)
        /\ installed' = IF job[j].checked /\ dest[v] # NULL THEN installed \cup {v}
                        ELSE installed
        /\ UNCHANGED <<fileVars, faults, crashes>>

-------------------------------------------------------------------------------

deleteModel(v) ==
    /\ v \in Dirs
    /\ UNCHANGED job
    /\ RemoveDir(v)
    /\ installed' = installed \ {v}
    /\ UNCHANGED <<faults, crashes>>

Crash ==
    /\ crashes < MaxCrashes
    /\ job' = [j \in Jobs |-> Idle]
    /\ crashes' = crashes + 1
    /\ UNCHANGED <<part, dest, dirs, installed, faults>>
    /\ Store(data)

DlNext ==
    \/ \E j \in Jobs :
        \/ \E v \in Versions, checked \in BOOLEAN : Download(j, v, checked)
        \/ RequestFails(j) \/ RangeRejected(j) \/ OpenPart(j)
        \/ Copy(j) \/ CopyFails(j) \/ CloseFails(j) \/ Rename(j)
        \/ Verify(j) \/ PruneList(j) \/ Prune(j) \/ DownloadReturns(j)
    \/ \E v \in Versions : deleteModel(v)
    \/ Crash

DlSpec == DlInit /\ [][DlNext]_downloadVars

-------------------------------------------------------------------------------
(* Properties *)

\* An install that verified its checksum and reported success leaves the
\* artifact in model.bin, until the version is installed again, deleted or
\* pruned: neither a resumed download, a crash, a torn copy at the gateway nor
\* another version's download or pruning spoils it.  Two installs of one version
\* at once can: the second appends to the file the first one has verified.
SuccessIsIntact ==
    \A v \in installed \ Contended : dest[v] # NULL /\ data[dest[v]] = Artifact

\* What a failed download leaves behind can be resumed: chunk by chunk in
\* place, and shorter than the artifact.  A complete .part file, which every
\* later attempt asks to resume past its end and is refused, is only left by a
\* crash between the last byte and the rename.
ResumePoint ==
    \A v \in Versions \ Contended :
        (part[v] # NULL /\ ~Busy(v)) =>
            /\ \A k \in 1 .. Len(data[part[v]]) : data[part[v]][k] \in {k, 0}
            /\ Len(data[part[v]]) < Chunks \/ crashes > 0
===============================================================================
