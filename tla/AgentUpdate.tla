----------------------------- MODULE AgentUpdate ------------------------------
(***************************************************************************)
(* UpgradeAgent tasks (internal/agent/updater.go): the new binary is       *)
(* downloaded to <binary>.new, its checksum and the manifest's signature   *)
(* are verified, the running binary is renamed to <binary>.bak and the new *)
(* one to <binary>, and systemd is asked to restart the agent.  The task   *)
(* runner executes every task in a goroutine of its own, so two upgrades   *)
(* may overlap and then share the one .new path; the agent may die at any  *)
(* step.                                                                   *)
(*                                                                         *)
(* Paths lead to inodes.  The binary of release r is BinChunks chunks r;   *)
(* 0 is a chunk of no release.                                             *)
(***************************************************************************)
EXTENDS Naturals, Sequences, FiniteSets, AgentTasks

CONSTANTS Releases,    \* release numbers, in the order of their versions
          BinChunks,   \* chunks of a binary
          Signed,      \* the releases whose checksum is signed with the release key
          KeyConfigured, \* whether verifyKey is set
          MaxUpgrades, \* bound on the tasks executed
          MaxUpFaults  \* bound on failing operations, wrong chunks and crashes

ASSUME UpdateAssumption ==
    /\ BinChunks \in Nat \ {0} /\ MaxUpgrades \in Nat /\ MaxUpFaults \in Nat
    /\ Releases \subseteq Nat \ {0} /\ Signed \subseteq Releases /\ Signed # {}
    /\ KeyConfigured \in BOOLEAN /\ IsFiniteSet(Jobs)

\* Three paths and one open file per goroutine.
BinInodes == 1 .. 3 + Cardinality(Jobs)

ASSUME UpNullAssumption == NULL \notin BinInodes /\ NULL \notin Releases

\* A complete manifest: the release and its min_allowed_version.
Manifests == [release : Releases, min : Releases \cup {NULL}]

VARIABLES cur, new, bak, \* the inodes at binaryPath, .new and .bak, or NULL
          bin,           \* content of the inodes
          up,            \* whether the agent process runs
          upgrade,       \* the goroutines
          shared,        \* history: files opened as .new while another
                         \* upgrade still counted on that path
          upgrades, upFaults

updateVars == <<cur, new, bak, bin, up, upgrade, shared, upgrades, upFaults>>

NoUpgrade == [phase |-> "idle", release |-> NULL, fd |-> NULL, off |-> 0]

Binary(r) == [k \in 1 .. BinChunks |-> r]
Abort(j) == upgrade' = [upgrade EXCEPT ![j] = NoUpgrade]

UpInit ==
    /\ cur = 1 /\ new = NULL /\ bak = NULL
    /\ \E r \in Signed : bin = [i \in BinInodes |-> IF i = 1 THEN Binary(r) ELSE <<>>]
    /\ up = TRUE
    /\ upgrade = [j \in Jobs |-> NoUpgrade]
    /\ shared = {}
    /\ upgrades = 0 /\ upFaults = 0

-------------------------------------------------------------------------------
(* Execute, up to the verification *)

\* A manifest below its own min_allowed_version is a rejected rollback.
validateManifest(m) == m.min # NULL => m.release >= m.min

Execute(j, m) ==
    /\ up /\ upgrade[j] = NoUpgrade /\ upgrades < MaxUpgrades
    /\ validateManifest(m)
    /\ upgrade' = [upgrade EXCEPT ![j] = [NoUpgrade EXCEPT !.phase = "get", !.release = m.release]]
    /\ upgrades' = upgrades + 1
    /\ UNCHANGED <<cur, new, bak, bin, up, shared, upFaults>>

\* The request is refused, or answered with another status than 200.
GetFails(j) ==
    /\ upgrade[j].phase = "get" /\ upFaults < MaxUpFaults
    /\ Abort(j)
    /\ upFaults' = upFaults + 1
    /\ UNCHANGED <<cur, new, bak, bin, up, shared, upgrades>>

BinUnused(i) == i \notin {cur, new, bak} /\ \A j \in Jobs : i # upgrade[j].fd

\* Whether another upgrade counts on the file at .new.
InUse == \E j \in Jobs : upgrade[j].phase \in {"copy", "sum", "signature", "backup", "replace"}

\* O_CREATE|O_TRUNC of .new, another upgrade's file too.
OpenNew(j) ==
    LET i == IF new # NULL THEN new ELSE CHOOSE k \in BinInodes : BinUnused(k)
    IN  /\ upgrade[j].phase = "get"
        /\ new' = i
        /\ bin' = [bin EXCEPT ![i] = <<>>]
        /\ shared' = IF InUse THEN shared \cup {i} ELSE shared \ {i}
        /\ upgrade' = [upgrade EXCEPT ![j].phase = "copy", ![j].fd = i]
        /\ UNCHANGED <<cur, bak, up, upgrades, upFaults>>

\* Chunk c written at an offset; what lies between the end and it is 0.
WrittenAt(content, off, c) ==
    [k \in 1 .. (IF Len(content) > off THEN Len(content) ELSE off + 1) |->
        IF k = off + 1 THEN c ELSE IF k <= Len(content) THEN content[k] ELSE 0]

CopyBinChunk(j, c) ==
    /\ upgrade[j].phase = "copy" /\ upgrade[j].off < BinChunks
    /\ bin' = [bin EXCEPT ![upgrade[j].fd] = WrittenAt(@, upgrade[j].off, c)]
    /\ upgrade' = [upgrade EXCEPT ![j].off = @ + 1]
    /\ UNCHANGED <<cur, new, bak, up, shared, upgrades>>

\* io.Copy: the server sends the manifest's release, or something else.
CopyBin(j) ==
    \/ CopyBinChunk(j, upgrade[j].release) /\ upFaults' = upFaults
    \/ upFaults < MaxUpFaults /\ CopyBinChunk(j, 0) /\ upFaults' = upFaults + 1

\* The connection breaks: whatever is at .new is removed.
CopyBinFails(j) ==
    /\ upgrade[j].phase = "copy" /\ upgrade[j].off < BinChunks /\ upFaults < MaxUpFaults
    /\ new' = NULL
    /\ Abort(j)
    /\ upFaults' = upFaults + 1
    /\ UNCHANGED <<cur, bak, bin, up, shared, upgrades>>

\* The file is closed; an error of that leaves .new behind.
Close(j) ==
    /\ upgrade[j].phase = "copy" /\ upgrade[j].off = BinChunks
    /\ \/ /\ upgrade' = [upgrade EXCEPT ![j].phase = "sum", ![j].fd = NULL, ![j].off = 0]
          /\ UNCHANGED upFaults
       \/ upFaults < MaxUpFaults /\ Abort(j) /\ upFaults' = upFaults + 1
    /\ UNCHANGED <<cur, new, bak, bin, up, shared, upgrades>>

-------------------------------------------------------------------------------
(* Verification *)

\* The file at .new can be opened and has the manifest's checksum.
ChecksumFits(r) == new # NULL /\ bin[new] = Binary(r)

verifyChecksum(j) ==
    /\ upgrade[j].phase = "sum"
    /\ IF ChecksumFits(upgrade[j].release)
       THEN upgrade' = [upgrade EXCEPT ![j].phase = "signature"] /\ UNCHANGED new
       ELSE Abort(j) /\ new' = NULL
    /\ UNCHANGED <<cur, bak, bin, up, shared, upgrades, upFaults>>

\* Mutant of verifySignature: the verification is skipped with a key, not without.
verifySignatureSwapped(j) ==
    /\ upgrade[j].phase = "signature"
    /\ IF ~KeyConfigured => upgrade[j].release \in Signed
       THEN upgrade' = [upgrade EXCEPT ![j].phase = "backup"] /\ UNCHANGED new
       ELSE Abort(j) /\ new' = NULL
    /\ UNCHANGED <<cur, bak, bin, up, shared, upgrades, upFaults>>

\* Without a key nothing is verified.
verifySignature(j) ==
    /\ upgrade[j].phase = "signature"
    /\ IF KeyConfigured => upgrade[j].release \in Signed
       THEN upgrade' = [upgrade EXCEPT ![j].phase = "backup"] /\ UNCHANGED new
       ELSE Abort(j) /\ new' = NULL
    /\ UNCHANGED <<cur, bak, bin, up, shared, upgrades, upFaults>>

-------------------------------------------------------------------------------
(* replaceBinary *)

\* binaryPath is renamed to .bak; that it is not there is no error.
Backup(j) ==
    /\ upgrade[j].phase = "backup"
    /\ \/ /\ bak' = IF cur = NULL THEN bak ELSE cur
          /\ cur' = NULL
          /\ upgrade' = [upgrade EXCEPT ![j].phase = "replace"]
          /\ UNCHANGED upFaults
       \/ /\ upFaults < MaxUpFaults /\ upFaults' = upFaults + 1
          /\ Abort(j)
          /\ UNCHANGED <<cur, bak>>
    /\ UNCHANGED <<new, bin, up, shared, upgrades>>

\* .new is renamed to binaryPath.  If it is gone, or the rename fails, the
\* backup is to be restored.
Replace(j) ==
    /\ upgrade[j].phase = "replace"
    /\ \/ /\ new # NULL
          /\ cur' = new /\ new' = NULL
          /\ upgrade' = [upgrade EXCEPT ![j].phase = "restart"]
          /\ UNCHANGED upFaults
       \/ /\ new = NULL \/ upFaults < MaxUpFaults
          /\ upFaults' = IF new = NULL THEN upFaults ELSE upFaults + 1
          /\ upgrade' = [upgrade EXCEPT ![j].phase = "restore"]
          /\ UNCHANGED <<cur, new>>
    /\ UNCHANGED <<bak, bin, up, shared, upgrades>>

\* Mutant of Restore: the backup is cleaned up, not renamed back.
RestoreDropsBackup(j) ==
    /\ upgrade[j].phase = "restore"
    /\ Abort(j)
    /\ bak' = NULL
    /\ UNCHANGED <<cur, new, bin, up, shared, upgrades, upFaults>>

\* .bak is renamed back, onto whatever is at binaryPath; an error is ignored.
Restore(j) ==
    /\ upgrade[j].phase = "restore"
    /\ Abort(j)
    /\ \/ /\ cur' = IF bak = NULL THEN cur ELSE bak
          /\ bak' = NULL
          /\ UNCHANGED upFaults
       \/ upFaults < MaxUpFaults /\ upFaults' = upFaults + 1 /\ UNCHANGED <<cur, bak>>
    /\ UNCHANGED <<new, bin, up, shared, upgrades>>

-------------------------------------------------------------------------------
(* The agent's process *)

Down ==
    /\ up' = FALSE
    /\ upgrade' = [j \in Jobs |-> NoUpgrade]

\* systemctl restart is under way and ends the process, or cannot be started
\* and the upgrade's result is reported by the old process.
restart(j) ==
    /\ upgrade[j].phase = "restart"
    /\ \/ Down /\ UNCHANGED upFaults
       \/ upFaults < MaxUpFaults /\ upFaults' = upFaults + 1 /\ Abort(j) /\ UNCHANGED up
    /\ UNCHANGED <<cur, new, bak, bin, shared, upgrades>>

UpCrash ==
    /\ up /\ upFaults < MaxUpFaults
    /\ Down
    /\ upFaults' = upFaults + 1
    /\ UNCHANGED <<cur, new, bak, bin, shared, upgrades>>

\* systemd starts what is at binaryPath, if that is a binary.
Boot ==
    /\ ~up /\ cur # NULL /\ \E r \in Releases : bin[cur] = Binary(r)
    /\ up' = TRUE
    /\ UNCHANGED <<cur, new, bak, bin, upgrade, shared, upgrades, upFaults>>

UpNext ==
    \/ \E j \in Jobs :
        \/ \E m \in Manifests : Execute(j, m)
        \/ GetFails(j) \/ OpenNew(j) \/ CopyBin(j) \/ CopyBinFails(j) \/ Close(j)
        \/ verifyChecksum(j) \/ verifySignature(j)
        \/ Backup(j) \/ Replace(j) \/ Restore(j) \/ restart(j)
    \/ UpCrash \/ Boot

UpSpec == UpInit /\ [][UpNext]_updateVars

-------------------------------------------------------------------------------
(* Properties *)

Intact(i, releases) == i \in shared \/ \E r \in releases : bin[i] = Binary(r)

\* Wherever an upgrade stops, and however two of them interleave in
\* replaceBinary, a binary is left at binaryPath or, between the two renames and
\* after a failed restore, at .bak.  It is a whole one unless it was .new for two
\* upgrades at once.
BinaryRecoverable ==
    LET i == IF cur = NULL THEN bak ELSE cur
    IN  i # NULL /\ Intact(i, Releases)

\* With a key configured the agent's binary is a signed release whatever was
\* downloaded, although checksum and signature are checked on a path that other
\* upgrades write to: only a file that was .new for two upgrades at once escapes it.
SignedOnly == (KeyConfigured /\ cur # NULL) => Intact(cur, Signed)
===============================================================================
