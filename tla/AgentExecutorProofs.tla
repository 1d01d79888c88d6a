-------------------------- MODULE AgentExecutorProofs -------------------------
(***************************************************************************)
(* Proofs about the executors of an agent, for any task goroutines, files  *)
(* and bounds: wherever upgrades stop and however they interleave, a       *)
(* binary that can be started is left, and a signed one; a runtime task    *)
(* answers what it did; and an install that reports success has the        *)
(* artifact in place, while one that failed leaves what can be resumed.    *)
(***************************************************************************)
EXTENDS ModelDownload, AgentUpdate, AgentRuntime, FiniteSetTheorems, SequenceTheorems, TLAPS

-------------------------------------------------------------------------------
(* AgentUpdate: the inductive invariant *)

\* The releases an upgrade may install.
Trusted == IF KeyConfigured THEN Signed ELSE Releases

\* The phases in which an upgrade counts on .new (see InUse), and those in which
\* it takes that file for verified.
InUsePhases == {"copy", "sum", "signature", "backup", "replace"}
VerifiedPhases == {"signature", "backup", "replace"}

Upgrade == [phase : InUsePhases \cup {"idle", "get", "restore", "restart"},
            release : Releases \cup {NULL}, fd : BinInodes \cup {NULL}, off : 0 .. BinChunks]

UpTypes ==
    /\ cur \in BinInodes \cup {NULL} /\ new \in BinInodes \cup {NULL}
    /\ bak \in BinInodes \cup {NULL}
    /\ bin \in [BinInodes -> Seq(Releases \cup {0})]
    /\ upgrade \in [Jobs -> Upgrade]
    /\ shared \subseteq BinInodes

\* A file is open only during the copy, and a task that runs has its manifest.
WellFormed(q) == /\ q.phase = "copy" <=> q.fd # NULL
                 /\ q.phase # "idle" => q.release \in Releases

\* There is something to start, and no two paths lead to one file.
Apart == /\ cur # NULL \/ bak # NULL
         /\ cur # NULL => cur \notin {new, bak}
         /\ new # NULL => new # bak

\* What is at binaryPath and at .bak is whole and trusted.
SoundAt(i) == i # NULL => Intact(i, Trusted)

\* Nobody writes to the file at binaryPath or .bak, unless it was shared.
Unwritten(q) == q.fd \in {cur, bak} \ {NULL} => q.fd \in shared

\* When two upgrades count on .new the file there is known to be shared.
Exclusive == \A j, k \in Jobs :
    (j # k /\ upgrade[j].phase \in InUsePhases /\ upgrade[k].phase \in InUsePhases)
        => new = NULL \/ new \in shared

\* What an upgrade has verified is still there when it is put in place.
StillVerified(q) ==
    q.phase \in VerifiedPhases =>
        /\ new = NULL \/ new \in shared \/ bin[new] = Binary(q.release)
        /\ q.phase # "signature" => q.release \in Trusted

UpInv ==
    /\ UpTypes /\ Apart /\ SoundAt(cur) /\ SoundAt(bak) /\ Exclusive
    /\ \A j \in Jobs : WellFormed(upgrade[j]) /\ Unwritten(upgrade[j]) /\ StillVerified(upgrade[j])

-------------------------------------------------------------------------------
(* Steps that only end or go on *)

\* No release is chunk 0, NULL is no file and no release.
LEMMA UpConstants ==
  /\ BinChunks \in Nat /\ BinChunks > 0 /\ Signed \subseteq Releases /\ Trusted \subseteq Releases
  /\ NULL \notin BinInodes /\ NULL \notin Releases /\ 1 \in BinInodes /\ IsFiniteSet(Jobs)
<1>1. Cardinality(Jobs) \in Nat
  BY UpdateAssumption, FS_CardinalityType
<1> QED BY <1>1, UpdateAssumption, UpNullAssumption DEF BinInodes, Trusted

\* The initial binary is a signed release and no upgrade runs.
LEMMA UpInvInit == UpInit => UpInv
<1> SUFFICES ASSUME UpInit PROVE UpInv
  OBVIOUS
<1>1. PICK r \in Signed : bin = [i \in BinInodes |-> IF i = 1 THEN Binary(r) ELSE <<>>]
  BY DEF UpInit
<1>2. r \in Releases /\ r \in Trusted
  BY UpConstants DEF Trusted
<1>3. Binary(r) \in Seq(Releases \cup {0}) /\ <<>> \in Seq(Releases \cup {0})
  BY <1>2, UpConstants, EmptySeq, SeqDef DEF Binary
<1>4. bin \in [BinInodes -> Seq(Releases \cup {0})] /\ bin[1] = Binary(r)
  BY <1>1, <1>3, UpConstants
<1>5. NoUpgrade \in Upgrade /\ WellFormed(NoUpgrade) /\ NoUpgrade.fd = NULL /\ NoUpgrade.phase = "idle"
  BY UpConstants DEF NoUpgrade, Upgrade, WellFormed
<1>6. UpTypes
  BY <1>4, <1>5, UpConstants DEF UpInit, UpTypes
<1>7. Apart /\ SoundAt(cur) /\ SoundAt(bak) /\ Exclusive
  BY <1>2, <1>4, <1>5, UpConstants DEF UpInit, Apart, SoundAt, Intact, Exclusive, InUsePhases
<1>8. \A j \in Jobs : WellFormed(upgrade[j]) /\ Unwritten(upgrade[j]) /\ StillVerified(upgrade[j])
  BY <1>5 DEF UpInit, Unwritten, StillVerified, VerifiedPhases
<1> QED BY <1>6, <1>7, <1>8 DEF UpInv

\* An upgrade that goes on, or ends, and leaves the files alone but for removing .new.
LEMMA GoesOn ==
  ASSUME UpInv, NEW j \in Jobs, NEW q \in Upgrade, upgrade' = [upgrade EXCEPT ![j] = q],
         UNCHANGED <<cur, bak, bin, shared>>, new' \in {new, NULL},
         WellFormed(q), q.fd \in {NULL, upgrade[j].fd},
         q.phase \in InUsePhases => upgrade[j].phase \in InUsePhases,
         StillVerified(q)
  PROVE  UpInv'
<1>1. upgrade' = [k \in Jobs |-> IF k = j THEN q ELSE upgrade[k]]
  BY DEF UpInv, UpTypes
<1>2. UpTypes'
  BY <1>1 DEF UpInv, UpTypes
<1>3. Apart' /\ SoundAt(cur)' /\ SoundAt(bak)'
  BY DEF UpInv, Apart, SoundAt, Intact
<1>4. Exclusive'
  BY <1>1 DEF UpInv, Exclusive
<1>5. ASSUME NEW k \in Jobs
      PROVE  (WellFormed(upgrade[k]) /\ Unwritten(upgrade[k]) /\ StillVerified(upgrade[k]))'
  <2>1. WellFormed(upgrade'[k])
    BY <1>1 DEF UpInv
  <2>2. Unwritten(upgrade[k])'
    BY <1>1 DEF UpInv, Unwritten
  <2>3. StillVerified(upgrade[k])'
    BY <1>1 DEF UpInv, StillVerified
  <2> QED BY <2>1, <2>2, <2>3 DEF WellFormed
<1> QED BY <1>2, <1>3, <1>4, <1>5 DEF UpInv

\* Every step of that kind.
LEMMA TaskGoesOn ==
  ASSUME UpInv, NEW j \in Jobs,
         \/ \E m \in Manifests : Execute(j, m)
         \/ GetFails(j) \/ CopyBinFails(j) \/ Close(j)
         \/ verifyChecksum(j) \/ verifySignature(j)
  PROVE  UpInv'
<1> DEFINE p == upgrade[j]
           With(phase) == [p EXCEPT !.phase = phase]
           Ended(q) == q = NoUpgrade
<1>1. /\ p \in Upgrade /\ WellFormed(p) /\ Unwritten(p) /\ StillVerified(p)
      /\ upgrade \in [Jobs -> Upgrade]
  BY DEF UpInv, UpTypes
<1>2. /\ NoUpgrade \in Upgrade /\ WellFormed(NoUpgrade) /\ NoUpgrade.fd = NULL
      /\ NoUpgrade.phase = "idle" /\ StillVerified(NoUpgrade)
  BY UpConstants DEF NoUpgrade, Upgrade, WellFormed, StillVerified, VerifiedPhases
<1>3. ASSUME Abort(j), UNCHANGED <<cur, bak, bin, shared>>, new' \in {new, NULL} PROVE UpInv'
  <2>1. upgrade' = [upgrade EXCEPT ![j] = NoUpgrade] /\ NoUpgrade.phase \notin InUsePhases
    BY <1>2, <1>3 DEF Abort, InUsePhases
  <2> QED BY <1>2, <1>3, <2>1, GoesOn
<1>4. ASSUME NEW m \in Manifests, Execute(j, m) PROVE UpInv'
  <2> DEFINE q == [NoUpgrade EXCEPT !.phase = "get", !.release = m.release]
  <2>1. m.release \in Releases
    BY DEF Manifests
  <2>2. q.phase = "get" /\ q.release = m.release /\ q.fd = NULL
    BY DEF NoUpgrade
  <2>4. q \in Upgrade
    <3> DEFINE q0 == [NoUpgrade EXCEPT !.phase = "get"]
    <3>1. q0 \in Upgrade
      BY <1>2 DEF Upgrade
    <3> HIDE DEF q0
    <3>2. [q0 EXCEPT !.release = m.release] \in Upgrade
      BY <2>1, <3>1 DEF Upgrade
    <3> QED BY <3>2 DEF q0
  <2>3. upgrade' = [upgrade EXCEPT ![j] = q] /\ UNCHANGED <<cur, new, bak, bin, shared>>
    BY <1>4 DEF Execute
  <2> HIDE DEF q
  <2>5. WellFormed(q) /\ q.fd = NULL /\ q.phase \notin InUsePhases /\ StillVerified(q)
    BY <2>1, <2>2 DEF WellFormed, StillVerified, VerifiedPhases, InUsePhases
  <2> QED BY <2>3, <2>4, <2>5, GoesOn
<1>5. CASE GetFails(j)
  BY <1>3, <1>5 DEF GetFails
<1>6. CASE CopyBinFails(j)
  BY <1>3, <1>6 DEF CopyBinFails
<1>7. CASE Close(j)
  <2> DEFINE q == [p EXCEPT !.phase = "sum", !.fd = NULL, !.off = 0]
  <2>1. p.phase = "copy" /\ UNCHANGED <<cur, new, bak, bin, shared>>
    BY <1>7 DEF Close
  <2>2. /\ q \in Upgrade /\ q.fd = NULL /\ q.phase = "sum" /\ q.release = p.release
        /\ p.release \in Releases
    <3> DEFINE p0 == [p EXCEPT !.phase = "sum"]
               p1 == [p0 EXCEPT !.fd = NULL]
    <3>1. p0 \in Upgrade /\ p0.phase = "sum" /\ p0.release = p.release
      BY <1>1 DEF Upgrade, InUsePhases
    <3>2. p.release \in Releases
      BY <1>1, <2>1 DEF WellFormed
    <3> HIDE DEF p0
    <3>3. p1 \in Upgrade /\ p1.fd = NULL /\ p1.phase = "sum" /\ p1.release = p.release
      BY <3>1 DEF Upgrade
    <3> HIDE DEF p1
    <3>4. 0 \in 0 .. BinChunks
      BY UpConstants
    <3>5. /\ [p1 EXCEPT !.off = 0] \in Upgrade /\ [p1 EXCEPT !.off = 0].fd = NULL
          /\ [p1 EXCEPT !.off = 0].phase = "sum" /\ [p1 EXCEPT !.off = 0].release = p.release
      BY <3>3, <3>4 DEF Upgrade
    <3> QED BY <3>2, <3>5 DEF p0, p1
  <2>5. WellFormed(q) /\ StillVerified(q) /\ p.phase \in InUsePhases
    BY <2>1, <2>2 DEF WellFormed, StillVerified, VerifiedPhases, InUsePhases
  <2>3. CASE upgrade' = [upgrade EXCEPT ![j].phase = "sum", ![j].fd = NULL, ![j].off = 0]
    <3>1. upgrade' = [upgrade EXCEPT ![j] = q]
      BY <1>1, <2>3
    <3> QED BY <2>1, <2>2, <2>5, <3>1, GoesOn
  <2>4. CASE Abort(j)
    BY <1>3, <2>1, <2>4
  <2> QED BY <1>7, <2>3, <2>4 DEF Close
<1>8. CASE verifyChecksum(j)
  <2> DEFINE q == [p EXCEPT !.phase = "signature"]
  <2>1. p.phase = "sum" /\ UNCHANGED <<cur, bak, bin, shared>>
    BY <1>8 DEF verifyChecksum
  <2>2. CASE ChecksumFits(p.release)
    <3>1. upgrade' = [upgrade EXCEPT ![j] = q] /\ new' = new
      BY <1>1, <1>8, <2>2 DEF verifyChecksum
    <3>2. /\ q \in Upgrade /\ WellFormed(q) /\ q.fd = p.fd /\ p.phase \in InUsePhases
          /\ q.phase = "signature" /\ q.release = p.release
      BY <1>1, <2>1 DEF Upgrade, WellFormed, InUsePhases
    <3>3. StillVerified(q)
      BY <2>2, <3>2 DEF StillVerified, ChecksumFits
    <3> QED BY <2>1, <3>1, <3>2, <3>3, GoesOn
  <2>3. CASE ~ChecksumFits(p.release)
    BY <1>3, <1>8, <2>1, <2>3 DEF verifyChecksum
  <2> QED BY <2>2, <2>3
<1>9. CASE verifySignature(j)
  <2> DEFINE q == [p EXCEPT !.phase = "backup"]
  <2>1. p.phase = "signature" /\ UNCHANGED <<cur, bak, bin, shared>>
    BY <1>9 DEF verifySignature
  <2>2. CASE KeyConfigured => p.release \in Signed
    <3>1. upgrade' = [upgrade EXCEPT ![j] = q] /\ new' = new
      BY <1>1, <1>9, <2>2 DEF verifySignature
    <3>2. /\ q \in Upgrade /\ WellFormed(q) /\ q.fd = p.fd /\ p.phase \in InUsePhases
          /\ q.phase = "backup" /\ q.release = p.release /\ p.release \in Releases
      BY <1>1, <2>1 DEF Upgrade, WellFormed, InUsePhases
    <3>3. p.release \in Trusted
      BY <2>2, <3>2 DEF Trusted
    <3>4. StillVerified(q)
      BY <1>1, <2>1, <3>2, <3>3 DEF StillVerified, VerifiedPhases
    <3> QED BY <2>1, <3>1, <3>2, <3>4, GoesOn
  <2>3. CASE ~(KeyConfigured => p.release \in Signed)
    BY <1>3, <1>9, <2>1, <2>3 DEF verifySignature
  <2> QED BY <2>2, <2>3
<1> QED BY <1>4, <1>5, <1>6, <1>7, <1>8, <1>9

-------------------------------------------------------------------------------
(* Steps on the files *)

\* A function on a finite set has no more values than arguments.
LEMMA FewValues ==
  ASSUME NEW S, IsFiniteSet(S), NEW f
  PROVE  /\ IsFiniteSet({f[x] : x \in S}) /\ Cardinality({f[x] : x \in S}) \in Nat
         /\ Cardinality({f[x] : x \in S}) <= Cardinality(S)
<1> DEFINE T == {f[x] : x \in S}
           g == [x \in S |-> f[x]]
<1>1. g \in Surjection(S, T)
  BY DEF Surjection
<1>2. IsFiniteSet(T) /\ Cardinality(T) <= Cardinality(S)
  BY <1>1, FS_Surjection
<1>3. Cardinality(T) \in Nat
  BY <1>2, FS_CardinalityType
<1> QED BY <1>2, <1>3

\* A union has no more members than both sets together.
LEMMA FewTogether ==
  ASSUME NEW S, NEW T, IsFiniteSet(S), IsFiniteSet(T)
  PROVE  /\ IsFiniteSet(S \cup T) /\ Cardinality(S \cup T) \in Nat
         /\ Cardinality(S \cup T) <= Cardinality(S) + Cardinality(T)
<1>1. /\ IsFiniteSet(S \cup T)
      /\ Cardinality(S \cup T) = Cardinality(S) + Cardinality(T) - Cardinality(S \cap T)
  BY FS_Union
<1>2. Cardinality(S \cap T) \in Nat /\ Cardinality(S) \in Nat /\ Cardinality(T) \in Nat
  BY FS_Intersection, FS_CardinalityType
<1>3. Cardinality(S \cup T) \in Nat
  BY <1>1, FS_CardinalityType
<1> QED BY <1>1, <1>2, <1>3

\* One element more.
LEMMA OneMore ==
  ASSUME NEW S, IsFiniteSet(S), NEW x
  PROVE  /\ IsFiniteSet(S \cup {x}) /\ Cardinality(S \cup {x}) \in Nat
         /\ Cardinality(S) \in Nat /\ Cardinality(S \cup {x}) <= Cardinality(S) + 1
<1>1. Cardinality(S) \in Nat
  BY FS_CardinalityType
<1>2. CASE x \in S
  BY <1>1, <1>2, FS_AddElement
<1>3. CASE x \notin S
  BY <1>1, <1>3, FS_AddElement
<1> QED BY <1>2, <1>3

\* There is always a file beyond those that two paths and the open files hold.
LEMMA FreeInode ==
  ASSUME UpInv, new = NULL
  PROVE  \E i \in BinInodes : BinUnused(i)
<1> DEFINE fds == [k \in Jobs |-> upgrade[k].fd]
           Fds == {fds[k] : k \in Jobs}
           Used == Fds \cup {cur} \cup {bak}
           n == Cardinality(Jobs)
<1>1. IsFiniteSet(Fds) /\ Cardinality(Fds) <= n /\ n \in Nat /\ Cardinality(Fds) \in Nat
  <2>1. IsFiniteSet(Fds) /\ Cardinality(Fds) <= n
    BY UpConstants, FewValues
  <2> QED BY <2>1, UpConstants, FS_CardinalityType
<1> HIDE DEF n
<1>2. IsFiniteSet(Used) /\ Cardinality(Used) <= n + 2 /\ Cardinality(Used) \in Nat
  <2> HIDE DEF Fds
  <2> DEFINE Some == Fds \cup {cur}
  <2>1. IsFiniteSet(Some) /\ Cardinality(Some) <= n + 1 /\ Cardinality(Some) \in Nat
    BY <1>1, OneMore
  <2> HIDE DEF Some
  <2>2. /\ IsFiniteSet(Some \cup {bak}) /\ Cardinality(Some \cup {bak}) \in Nat
        /\ Cardinality(Some \cup {bak}) <= Cardinality(Some) + 1
    BY <2>1, OneMore
  <2>3. Cardinality(Some \cup {bak}) <= n + 2
    BY <1>1, <2>1, <2>2
  <2> QED BY <2>2, <2>3 DEF Some
<1>3. IsFiniteSet(BinInodes) /\ Cardinality(BinInodes) = n + 3
  <2>1. BinInodes = 1 .. 3 + n
    BY DEF BinInodes, n
  <2>2. IsFiniteSet(1 .. 3 + n) /\ Cardinality(1 .. 3 + n) = 3 + n - 1 + 1
    BY <1>1, FS_Interval
  <2> QED BY <1>1, <2>1, <2>2
<1>4. PICK i \in BinInodes : i \notin Used
  <2> HIDE DEF Used
  <2>1. BinInodes \notin SUBSET Used
    BY <1>1, <1>2, <1>3, FS_Subset
  <2> QED BY <2>1
<1>5. \A k \in Jobs : upgrade[k].fd \in Fds
  OBVIOUS
<1>6. i \notin {cur, new, bak} /\ i \notin Fds
  BY <1>4, UpConstants
<1> QED BY <1>5, <1>6 DEF BinUnused

\* A chunk more or a gap: the content stays a sequence of chunks.
LEMMA WrittenType ==
  ASSUME NEW s \in Seq(Releases \cup {0}), NEW off \in Nat, NEW c \in Releases \cup {0}
  PROVE  WrittenAt(s, off, c) \in Seq(Releases \cup {0})
<1> DEFINE n == IF Len(s) > off THEN Len(s) ELSE off + 1
           Chunk(k) == IF k = off + 1 THEN c ELSE IF k <= Len(s) THEN s[k] ELSE 0
<1>1. n \in Nat
  BY LenProperties
<1>2. \A k \in 1 .. n : Chunk(k) \in Releases \cup {0}
  BY <1>1, ElementOfSeq, LenProperties
<1>3. [k \in 1 .. n |-> Chunk(k)] \in Seq(Releases \cup {0})
  BY <1>1, <1>2, SeqDef
<1> QED BY <1>3 DEF WrittenAt

\* .new is truncated, or made: whoever counted on it is in a shared file now.
LEMMA OpenNewKeeps ==
  ASSUME UpInv, NEW j \in Jobs, OpenNew(j)
  PROVE  UpInv'
<1> DEFINE i == IF new # NULL THEN new ELSE CHOOSE k \in BinInodes : BinUnused(k)
           q == [upgrade[j] EXCEPT !.phase = "copy", !.fd = i]
<1>1. i \in BinInodes /\ i \notin {cur, bak} /\ i # NULL
  <2>1. CASE new # NULL
    BY <2>1 DEF UpInv, UpTypes, Apart
  <2>2. CASE new = NULL
    BY <2>2, FreeInode, UpConstants DEF BinUnused
  <2> QED BY <2>1, <2>2
<1>2. /\ new' = i /\ bin' = [bin EXCEPT ![i] = <<>>] /\ UNCHANGED <<cur, bak>>
      /\ shared' = IF InUse THEN shared \cup {i} ELSE shared \ {i}
      /\ upgrade' = [upgrade EXCEPT ![j].phase = "copy", ![j].fd = i]
      /\ upgrade[j].phase = "get"
  BY DEF OpenNew
<1> HIDE DEF i
<1>3. upgrade[j] \in Upgrade /\ upgrade[j].release \in Releases
  BY <1>2 DEF UpInv, UpTypes, WellFormed
<1>4. q \in Upgrade /\ q.phase = "copy" /\ q.fd = i /\ q.release = upgrade[j].release
  <2> DEFINE q0 == [upgrade[j] EXCEPT !.phase = "copy"]
  <2>1. q0 \in Upgrade /\ q0.phase = "copy" /\ q0.release = upgrade[j].release
    BY <1>3 DEF Upgrade, InUsePhases
  <2> HIDE DEF q0
  <2>2. /\ [q0 EXCEPT !.fd = i] \in Upgrade /\ [q0 EXCEPT !.fd = i].phase = "copy"
        /\ [q0 EXCEPT !.fd = i].fd = i /\ [q0 EXCEPT !.fd = i].release = q0.release
    BY <1>1, <2>1 DEF Upgrade
  <2> QED BY <2>1, <2>2 DEF q0
<1>5. upgrade' = [k \in Jobs |-> IF k = j THEN q ELSE upgrade[k]]
  BY <1>2 DEF UpInv, UpTypes
<1> HIDE DEF q
<1>6. UpTypes'
  BY <1>1, <1>2, <1>4, <1>5, EmptySeq DEF UpInv, UpTypes
<1>7. Apart'
  BY <1>1, <1>2 DEF UpInv, Apart
<1>8. \A k \in BinInodes : k # i => bin'[k] = bin[k] /\ (k \in shared => k \in shared')
  BY <1>2 DEF UpInv, UpTypes
<1>9. SoundAt(cur)' /\ SoundAt(bak)'
  BY <1>1, <1>2, <1>8 DEF UpInv, UpTypes, SoundAt, Intact
<1>10. InUse <=> \E k \in Jobs : upgrade[k].phase \in InUsePhases
  BY DEF InUse, InUsePhases
<1>11. Exclusive'
  <2>1. CASE InUse
    BY <1>2, <2>1 DEF Exclusive
  <2>2. CASE ~InUse
    BY <1>5, <1>10, <2>2 DEF Exclusive
  <2> QED BY <2>1, <2>2
<1>12. ASSUME NEW k \in Jobs
       PROVE  (WellFormed(upgrade[k]) /\ Unwritten(upgrade[k]) /\ StillVerified(upgrade[k]))'
  <2>1. WellFormed(upgrade'[k])
    BY <1>1, <1>3, <1>4, <1>5 DEF UpInv, WellFormed
  <2>2. Unwritten(upgrade[k])'
    <3>1. CASE k = j
      BY <1>1, <1>2, <1>4, <1>5, <3>1 DEF Unwritten
    <3>2. CASE k # j
      <4>1. upgrade'[k] = upgrade[k] /\ Unwritten(upgrade[k]) /\ WellFormed(upgrade[k])
        BY <1>5, <3>2 DEF UpInv
      <4>2. upgrade[k].fd # NULL => InUse
        BY <1>10, <4>1 DEF WellFormed, InUsePhases
      <4>3. InUse => shared \subseteq shared'
        BY <1>2
      <4>4. upgrade[k].fd # NULL => shared \subseteq shared'
        BY <4>2, <4>3
      <4> QED BY <1>2, <4>1, <4>4 DEF Unwritten
    <3> QED BY <3>1, <3>2
  <2>3. StillVerified(upgrade[k])'
    <3>1. CASE k = j
      BY <1>4, <1>5, <3>1 DEF StillVerified, VerifiedPhases
    <3>2. CASE k # j
      <4>1. upgrade'[k] = upgrade[k] /\ StillVerified(upgrade[k])
        BY <1>5, <3>2 DEF UpInv
      <4>2. upgrade[k].phase \in VerifiedPhases => InUse
        BY <1>10 DEF VerifiedPhases, InUsePhases
      <4> QED BY <1>2, <4>1, <4>2 DEF StillVerified
    <3> QED BY <3>1, <3>2
  <2> QED BY <2>1, <2>2, <2>3 DEF WellFormed
<1> QED BY <1>6, <1>7, <1>9, <1>11, <1>12 DEF UpInv

\* A write to an open file: it is shared, .new of one upgrade, or on no path.
LEMMA CopyBinKeeps ==
  ASSUME UpInv, NEW j \in Jobs, CopyBin(j)
  PROVE  UpInv'
<1>1. PICK c \in Releases \cup {0} : CopyBinChunk(j, c)
  <2>1. CASE CopyBinChunk(j, 0)
    BY <2>1
  <2>2. CASE CopyBinChunk(j, upgrade[j].release)
    <3>1. upgrade[j].release \in Releases
      BY <2>2 DEF CopyBinChunk, UpInv, WellFormed
    <3> QED BY <2>2, <3>1
  <2> QED BY <2>1, <2>2 DEF CopyBin
<1> DEFINE i == upgrade[j].fd
           q == [upgrade[j] EXCEPT !.off = @ + 1]
           new_i == WrittenAt(bin[i], upgrade[j].off, c)
<1>2. /\ upgrade[j] \in Upgrade /\ WellFormed(upgrade[j]) /\ Unwritten(upgrade[j])
      /\ upgrade[j].phase = "copy" /\ upgrade[j].off < BinChunks
      /\ bin' = [bin EXCEPT ![i] = new_i] /\ upgrade' = [upgrade EXCEPT ![j].off = @ + 1]
      /\ UNCHANGED <<cur, new, bak, shared>>
  BY <1>1 DEF CopyBinChunk, UpInv, UpTypes
<1>3. i \in BinInodes /\ upgrade[j].off \in 0 .. BinChunks
  BY <1>2 DEF WellFormed, Upgrade
<1>4. new_i \in Seq(Releases \cup {0})
  <2>1. bin[i] \in Seq(Releases \cup {0}) /\ upgrade[j].off \in Nat
    BY <1>3, UpConstants DEF UpInv, UpTypes
  <2> QED BY <2>1, WrittenType
<1>5. upgrade' = [k \in Jobs |-> IF k = j THEN q ELSE upgrade[k]]
  BY <1>2 DEF UpInv, UpTypes
<1>6. /\ q \in Upgrade /\ q.phase = "copy" /\ q.fd = i /\ q.release = upgrade[j].release
  <2>1. upgrade[j].off + 1 \in 0 .. BinChunks
    BY <1>2, <1>3, UpConstants
  <2> QED BY <1>2, <2>1 DEF Upgrade
<1> HIDE DEF i, q, new_i
<1>7. UpTypes'
  BY <1>2, <1>3, <1>4, <1>5, <1>6 DEF UpInv, UpTypes
<1>8. Apart'
  BY <1>2 DEF UpInv, Apart
<1>9. \A k \in BinInodes : k # i => bin'[k] = bin[k]
  BY <1>2 DEF UpInv, UpTypes
<1>10. i \in {cur, bak} => i \in shared
  BY <1>2, <1>3, UpConstants DEF Unwritten, i
<1>11. SoundAt(cur)' /\ SoundAt(bak)'
  BY <1>2, <1>9, <1>10 DEF UpInv, UpTypes, SoundAt, Intact
<1>12. \A k \in Jobs : /\ upgrade'[k].phase = upgrade[k].phase /\ upgrade'[k].fd = upgrade[k].fd
                       /\ upgrade'[k].release = upgrade[k].release
  BY <1>2, <1>5, <1>6 DEF i
<1>13. Exclusive'
  BY <1>2, <1>12 DEF UpInv, Exclusive
<1>14. ASSUME NEW k \in Jobs
       PROVE  (WellFormed(upgrade[k]) /\ Unwritten(upgrade[k]) /\ StillVerified(upgrade[k]))'
  <2>1. WellFormed(upgrade[k])' /\ Unwritten(upgrade[k])'
    BY <1>2, <1>12 DEF UpInv, WellFormed, Unwritten
  <2>2. StillVerified(upgrade[k])'
    <3>1. ASSUME upgrade[k].phase \in VerifiedPhases, new # NULL, new \notin shared
          PROVE  new # i
      <4>1. k # j /\ upgrade[k].phase \in InUsePhases /\ upgrade[j].phase \in InUsePhases
        BY <1>2, <3>1 DEF VerifiedPhases, InUsePhases
      <4> QED BY <3>1, <4>1 DEF UpInv, Exclusive
    <3>2. StillVerified(upgrade[k])
      BY DEF UpInv
    <3> QED BY <1>2, <1>9, <1>12, <3>1, <3>2 DEF StillVerified, UpInv, UpTypes
  <2> QED BY <2>1, <2>2
<1> QED BY <1>7, <1>8, <1>11, <1>13, <1>14 DEF UpInv

\* A rename, and the upgrade that did it goes on or ends: what the paths lead to
\* afterwards decides.
LEMMA RenameKeeps ==
  ASSUME UpInv, NEW j \in Jobs, NEW q \in Upgrade, upgrade' = [upgrade EXCEPT ![j] = q],
         UNCHANGED <<bin, shared>>, WellFormed(q), q.phase \notin VerifiedPhases \ {"replace"},
         q.phase = "replace" => upgrade[j].phase = "backup" /\ q.release = upgrade[j].release,
         q.phase \in InUsePhases => upgrade[j].phase \in InUsePhases,
         q.fd = NULL, new' \in {new, NULL},
         UpTypes', Apart', SoundAt(cur)', SoundAt(bak)',
         \A k \in Jobs : k # j => Unwritten(upgrade[k])'
  PROVE  UpInv'
<1>1. upgrade' = [k \in Jobs |-> IF k = j THEN q ELSE upgrade[k]]
  BY DEF UpInv, UpTypes
<1>2. Exclusive'
  BY <1>1 DEF UpInv, Exclusive
<1>3. ASSUME NEW k \in Jobs
      PROVE  (WellFormed(upgrade[k]) /\ Unwritten(upgrade[k]) /\ StillVerified(upgrade[k]))'
  <2>1. WellFormed(upgrade'[k])
    BY <1>1 DEF UpInv
  <2>2. Unwritten(upgrade[k])'
    BY <1>1 DEF Unwritten
  <2>3. StillVerified(upgrade[k])'
    <3>1. CASE k = j
      <4>1. StillVerified(upgrade[j])
        BY DEF UpInv
      <4> QED BY <1>1, <3>1, <4>1 DEF StillVerified, VerifiedPhases
    <3>2. CASE k # j
      BY <1>1, <3>2 DEF UpInv, StillVerified
    <3> QED BY <3>1, <3>2
  <2> QED BY <2>1, <2>2, <2>3 DEF WellFormed
<1> QED BY <1>2, <1>3 DEF UpInv

\* An upgrade that is past the copy may change its phase.
LEMMA NextPhase ==
  ASSUME UpInv, NEW j \in Jobs, upgrade[j].phase \in {"backup", "replace", "restore", "restart"},
         NEW phase \in {"replace", "restart", "restore"}
  PROVE  LET q == [upgrade[j] EXCEPT !.phase = phase]
         IN  /\ q \in Upgrade /\ WellFormed(q) /\ q.phase = phase /\ q.fd = NULL
             /\ q.release = upgrade[j].release
             /\ upgrade' = [upgrade EXCEPT ![j].phase = phase]
                  => upgrade' = [upgrade EXCEPT ![j] = q]
<1>1. /\ upgrade[j] \in Upgrade /\ upgrade[j].fd = NULL /\ upgrade[j].release \in Releases
      /\ upgrade \in [Jobs -> Upgrade]
  BY DEF UpInv, UpTypes, WellFormed
<1> QED BY <1>1 DEF Upgrade, WellFormed, InUsePhases

\* An upgrade past the copy that fails and ends, with the files as they are.
LEMMA EndKeeps ==
  ASSUME UpInv, NEW j \in Jobs, Abort(j), UNCHANGED <<cur, new, bak, bin, shared>>
  PROVE  UpInv'
<1>1. /\ NoUpgrade \in Upgrade /\ WellFormed(NoUpgrade) /\ NoUpgrade.fd = NULL
      /\ NoUpgrade.phase \notin InUsePhases /\ StillVerified(NoUpgrade)
  BY UpConstants DEF NoUpgrade, Upgrade, WellFormed, StillVerified, VerifiedPhases, InUsePhases
<1> QED BY <1>1, GoesOn DEF Abort

\* The running binary becomes the backup, whole as it is.
LEMMA BackupKeeps ==
  ASSUME UpInv, NEW j \in Jobs, Backup(j)
  PROVE  UpInv'
<1>1. upgrade[j].phase = "backup" /\ UNCHANGED <<new, bin, shared>>
  BY DEF Backup
<1>2. CASE /\ bak' = IF cur = NULL THEN bak ELSE cur
           /\ cur' = NULL
           /\ upgrade' = [upgrade EXCEPT ![j].phase = "replace"]
  <2> DEFINE q == [upgrade[j] EXCEPT !.phase = "replace"]
  <2>1. /\ q \in Upgrade /\ WellFormed(q) /\ q.phase = "replace" /\ q.fd = NULL
        /\ q.release = upgrade[j].release /\ upgrade' = [upgrade EXCEPT ![j] = q]
    BY <1>1, <1>2, NextPhase
  <2> HIDE DEF q
  <2>2. UpTypes'
    BY <1>1, <1>2, <2>1 DEF UpInv, UpTypes
  <2>3. Apart' /\ SoundAt(cur)' /\ SoundAt(bak)'
    BY <1>1, <1>2 DEF UpInv, Apart, SoundAt, Intact
  <2>4. \A k \in Jobs : k # j => Unwritten(upgrade[k])'
    BY <1>1, <1>2, <2>1 DEF UpInv, UpTypes, Unwritten
  <2>5. q.phase \notin VerifiedPhases \ {"replace"} /\ upgrade[j].phase \in InUsePhases
    BY <1>1, <2>1 DEF VerifiedPhases, InUsePhases
  <2> QED BY <1>1, <2>1, <2>2, <2>3, <2>4, <2>5, RenameKeeps
<1>3. CASE Abort(j) /\ UNCHANGED <<cur, bak>>
  BY <1>1, <1>3, EndKeeps
<1> QED BY <1>2, <1>3 DEF Backup

\* What is put in place is what was verified, or shared; nobody else writes to it.
LEMMA ReplaceKeeps ==
  ASSUME UpInv, NEW j \in Jobs, Replace(j)
  PROVE  UpInv'
<1>1. upgrade[j].phase = "replace" /\ UNCHANGED <<bak, bin, shared>>
  BY DEF Replace
<1>2. CASE /\ new # NULL /\ cur' = new /\ new' = NULL
           /\ upgrade' = [upgrade EXCEPT ![j].phase = "restart"]
  <2> DEFINE q == [upgrade[j] EXCEPT !.phase = "restart"]
  <2>1. /\ q \in Upgrade /\ WellFormed(q) /\ q.phase = "restart" /\ q.fd = NULL
        /\ upgrade' = [upgrade EXCEPT ![j] = q]
    BY <1>1, <1>2, NextPhase
  <2> HIDE DEF q
  <2>2. UpTypes' /\ Apart' /\ SoundAt(bak)'
    BY <1>1, <1>2, <2>1 DEF UpInv, UpTypes, Apart, SoundAt, Intact
  <2>3. StillVerified(upgrade[j])
    BY DEF UpInv
  <2>4. SoundAt(cur)'
    BY <1>1, <1>2, <2>3 DEF StillVerified, VerifiedPhases, SoundAt, Intact
  <2>5. ASSUME NEW k \in Jobs, k # j PROVE Unwritten(upgrade[k])'
    <3>1. upgrade'[k] = upgrade[k] /\ Unwritten(upgrade[k]) /\ WellFormed(upgrade[k])
      BY <2>1, <2>5 DEF UpInv, UpTypes
    <3>2. upgrade[k].fd # NULL => new \in shared
      BY <1>1, <1>2, <2>5, <3>1 DEF UpInv, Exclusive, WellFormed, InUsePhases
    <3> QED BY <1>1, <1>2, <3>1, <3>2 DEF Unwritten
  <2>6. q.phase \notin VerifiedPhases /\ q.phase \notin InUsePhases
    BY <2>1 DEF VerifiedPhases, InUsePhases
  <2> QED BY <1>1, <1>2, <2>1, <2>2, <2>4, <2>5, <2>6, RenameKeeps
<1>3. CASE UNCHANGED <<cur, new>> /\ upgrade' = [upgrade EXCEPT ![j].phase = "restore"]
  <2> DEFINE q == [upgrade[j] EXCEPT !.phase = "restore"]
  <2>1. /\ q \in Upgrade /\ WellFormed(q) /\ q.phase = "restore" /\ q.fd = NULL
        /\ upgrade' = [upgrade EXCEPT ![j] = q]
    BY <1>1, <1>3, NextPhase
  <2> HIDE DEF q
  <2>2. q.phase \notin InUsePhases /\ StillVerified(q)
    BY <2>1 DEF InUsePhases, StillVerified, VerifiedPhases
  <2> QED BY <1>1, <1>3, <2>1, <2>2, GoesOn
<1> QED BY <1>2, <1>3 DEF Replace

\* The backup is put back over whatever is there: it is as sound.
LEMMA RestoreKeeps ==
  ASSUME UpInv, NEW j \in Jobs, Restore(j)
  PROVE  UpInv'
<1>1. upgrade[j].phase = "restore" /\ Abort(j) /\ UNCHANGED <<new, bin, shared>>
  BY DEF Restore
<1>2. CASE cur' = (IF bak = NULL THEN cur ELSE bak) /\ bak' = NULL
  <2>1. /\ NoUpgrade \in Upgrade /\ WellFormed(NoUpgrade) /\ NoUpgrade.fd = NULL
        /\ NoUpgrade.phase \notin InUsePhases /\ NoUpgrade.phase \notin VerifiedPhases
        /\ NoUpgrade.phase # "replace" /\ upgrade' = [upgrade EXCEPT ![j] = NoUpgrade]
    BY <1>1, UpConstants DEF NoUpgrade, Upgrade, WellFormed, VerifiedPhases, InUsePhases, Abort
  <2>2. UpTypes'
    BY <1>1, <1>2, <2>1, UpConstants DEF UpInv, UpTypes
  <2>3. Apart' /\ SoundAt(cur)' /\ SoundAt(bak)'
    BY <1>1, <1>2 DEF UpInv, Apart, SoundAt, Intact
  <2>4. \A k \in Jobs : k # j => Unwritten(upgrade[k])'
    BY <1>1, <1>2, <2>1 DEF UpInv, UpTypes, Unwritten
  <2> QED BY <1>1, <2>1, <2>2, <2>3, <2>4, RenameKeeps
<1>3. CASE UNCHANGED <<cur, bak>>
  BY <1>1, <1>3, EndKeeps
<1> QED BY <1>2, <1>3 DEF Restore

\* The process ends: no upgrade is left.
LEMMA DownKeeps ==
  ASSUME UpInv, Down, UNCHANGED <<cur, new, bak, bin, shared>>
  PROVE  UpInv'
<1>1. /\ NoUpgrade \in Upgrade /\ WellFormed(NoUpgrade) /\ NoUpgrade.fd = NULL
      /\ NoUpgrade.phase \notin InUsePhases /\ NoUpgrade.phase \notin VerifiedPhases
  BY UpConstants DEF NoUpgrade, Upgrade, WellFormed, VerifiedPhases, InUsePhases
<1>2. UpTypes'
  BY <1>1 DEF Down, UpInv, UpTypes
<1>3. Apart' /\ SoundAt(cur)' /\ SoundAt(bak)' /\ Exclusive'
  BY <1>1 DEF Down, UpInv, Apart, SoundAt, Intact, Exclusive
<1>4. \A j \in Jobs : (WellFormed(upgrade[j]) /\ Unwritten(upgrade[j]) /\ StillVerified(upgrade[j]))'
  <2> SUFFICES ASSUME NEW j \in Jobs
               PROVE  (WellFormed(upgrade[j]) /\ Unwritten(upgrade[j]) /\ StillVerified(upgrade[j]))'
    OBVIOUS
  <2> QED BY <1>1 DEF Down, WellFormed, Unwritten, StillVerified
<1> QED BY <1>2, <1>3, <1>4 DEF UpInv

\* Every step of an upgrade, a crash and a start of the agent keeps the invariant.
LEMMA UpStep == UpInv /\ [UpNext]_updateVars => UpInv'
<1> SUFFICES ASSUME UpInv, [UpNext]_updateVars PROVE UpInv'
  OBVIOUS
<1>1. ASSUME NEW j \in Jobs,
             \/ \E m \in Manifests : Execute(j, m)
             \/ GetFails(j) \/ CopyBinFails(j) \/ Close(j)
             \/ verifyChecksum(j) \/ verifySignature(j)
      PROVE  UpInv'
  BY <1>1, TaskGoesOn
<1>2. ASSUME NEW j \in Jobs, OpenNew(j) \/ CopyBin(j) \/ Backup(j) \/ Replace(j) \/ Restore(j)
      PROVE  UpInv'
  BY <1>2, OpenNewKeeps, CopyBinKeeps, BackupKeeps, ReplaceKeeps, RestoreKeeps
<1>3. ASSUME NEW j \in Jobs, restart(j) PROVE UpInv'
  BY <1>3, EndKeeps, DownKeeps DEF restart
<1>4. CASE UpCrash
  BY <1>4, DownKeeps DEF UpCrash
<1>5. CASE UNCHANGED <<cur, new, bak, bin, upgrade, shared>>
  BY <1>5 DEF UpInv, UpTypes, Apart, SoundAt, Intact, Exclusive, WellFormed, Unwritten, StillVerified
<1> QED BY <1>1, <1>2, <1>3, <1>4, <1>5 DEF UpNext, Boot, updateVars

-------------------------------------------------------------------------------
(* AgentUpdate: the properties *)

\* Wherever upgrades stop and however they interleave, a binary that is whole, or
\* was .new for two upgrades at once, is left at binaryPath or at .bak.
THEOREM BinaryStays == UpSpec => []BinaryRecoverable
<1>1. UpInv => BinaryRecoverable
  BY UpConstants DEF UpInv, Apart, SoundAt, Intact, BinaryRecoverable
<1> QED BY <1>1, UpInvInit, UpStep, PTL DEF UpSpec

\* With a key configured the agent's binary is a signed release, or was .new for two
\* upgrades at once.
THEOREM BinaryIsSigned == UpSpec => []SignedOnly
<1>1. UpInv => SignedOnly
  BY DEF UpInv, SoundAt, Trusted, SignedOnly
<1> QED BY <1>1, UpInvInit, UpStep, PTL DEF UpSpec

-------------------------------------------------------------------------------
(* AgentRuntime: the inductive invariant *)

Todos == {<<"tryStop", "start", "status">>, <<"start", "status">>,
          <<"stop", "status">>, <<"status">>}

Task == [type : runtimeTypes, adapter : Adapters, model : Models, todo : Todos,
         before : BOOLEAN, started : BOOLEAN, stopped : BOOLEAN]

\* What a task has made of its model so far, unless other tasks made something else of
\* it: "in" says whether the adapter runs the model.
Expected(q, in) ==
    \/ /\ q.type = "StartRuntime" /\ q.todo = <<"start", "status">>
       /\ in => q.before \/ q.started
       /\ ~in => ~q.before \/ q.stopped
    \/ /\ q.type = "StartRuntime" /\ q.todo = <<"status">>
       /\ (~q.before /\ in) \/ q.stopped
    \/ /\ q.type = "StopRuntime" /\ q.todo = <<"stop", "status">>
       /\ in => q.before \/ q.started
       /\ ~in => ~q.before \/ q.stopped
    \/ /\ q.type = "StopRuntime" /\ q.todo = <<"status">>
       /\ (q.before /\ ~in) \/ q.started
    \/ /\ q.type \in {"RestartRuntime", "UpgradeRuntime"}
       /\ \/ q.todo = <<"tryStop", "start", "status">>
          \/ q.todo = <<"start", "status">> /\ (in => q.started)
          \/ q.todo = <<"status">> /\ (~in => q.stopped)

RtInv ==
    /\ running \in [Adapters -> SUBSET Models]
    /\ rtJob \in [Jobs -> Task \cup {NoTask}]
    /\ \A j \in Jobs : rtJob[j] # NoTask => Expected(rtJob[j], InMap(j))
    /\ RuntimeOutcomeExplained

\* What is left to do after each section.
LEMMA NextSection ==
  /\ Head(<<"tryStop", "start", "status">>) = "tryStop"
  /\ Head(<<"start", "status">>) = "start" /\ Head(<<"stop", "status">>) = "stop"
  /\ Head(<<"status">>) = "status"
  /\ Tail(<<"tryStop", "start", "status">>) = <<"start", "status">>
  /\ Tail(<<"start", "status">>) = <<"status">> /\ Tail(<<"stop", "status">>) = <<"status">>
OBVIOUS

\* No task is not a task.
LEMMA NoTaskIsNone == NoTask \notin Task
BY DEF NoTask, Task

\* No adapter runs anything and no task has ended.
LEMMA RtInvInit == RtInit => RtInv
BY RuntimeAssumption DEF RtInit, RtInv, NoTask, RuntimeOutcomeExplained

\* A locked section: the task itself goes on as expected, and the others on its model
\* remember what it changed.
LEMMA SectionKeeps ==
  ASSUME RtInv, NEW j \in Jobs, rtJob[j] # NoTask, NEW models \in SUBSET Models,
         Section(j, models), Tail(rtJob[j].todo) \in Todos,
         \A m \in Models \ {rtJob[j].model} : m \in models <=> m \in running[rtJob[j].adapter],
         Expected([rtJob[j] EXCEPT !.todo = Tail(@)], rtJob[j].model \in models)
  PROVE  RtInv'
<1> DEFINE a == rtJob[j].adapter
           q == [rtJob[j] EXCEPT !.todo = Tail(@)]
           Disturbed(k) == /\ rtJob[k] # NoTask
                           /\ rtJob[k].model = rtJob[j].model
                           /\ rtJob[k].adapter = rtJob[j].adapter
                           /\ running' # running
           r(k) == [rtJob[k] EXCEPT !.started = @ \/ rtJob[j].model \in models,
                                    !.stopped = @ \/ rtJob[j].model \notin models]
<1>1. rtJob[j] \in Task /\ a \in Adapters
  BY DEF RtInv, Task
<1>2. /\ running' = [running EXCEPT ![a] = models] /\ UNCHANGED <<rtDone, rtTasks>>
      /\ rtJob' = [k \in Jobs |-> IF k = j THEN q ELSE IF Disturbed(k) THEN r(k) ELSE rtJob[k]]
  BY DEF Section
<1>3. q \in Task /\ q.model = rtJob[j].model /\ q.adapter = a
  BY <1>1 DEF Task
<1>4. ASSUME NEW k \in Jobs, rtJob[k] # NoTask
      PROVE  /\ rtJob[k] \in Task
             /\ r(k) \in Task /\ r(k).model = rtJob[k].model /\ r(k).adapter = rtJob[k].adapter
             /\ r(k).type = rtJob[k].type /\ r(k).todo = rtJob[k].todo
             /\ r(k).before = rtJob[k].before
             /\ r(k).started = (rtJob[k].started \/ rtJob[j].model \in models)
             /\ r(k).stopped = (rtJob[k].stopped \/ rtJob[j].model \notin models)
  <2>1. rtJob[k] \in Task
    BY <1>4 DEF RtInv
  <2> QED BY <2>1 DEF Task
<1> HIDE DEF q, r
<1>5. running' \in [Adapters -> SUBSET Models]
  BY <1>1, <1>2 DEF RtInv
<1>6. rtJob' \in [Jobs -> Task \cup {NoTask}]
  BY <1>2, <1>3, <1>4 DEF RtInv
<1>7. RuntimeOutcomeExplained'
  BY <1>2 DEF RtInv, RuntimeOutcomeExplained
<1>8. ASSUME NEW k \in Jobs, rtJob'[k] # NoTask PROVE Expected(rtJob'[k], InMap(k)')
  <2>1. CASE k = j
    <3>1. rtJob'[k] = q /\ running'[a] = models
      BY <1>1, <1>2, <2>1 DEF RtInv
    <3>2. InMap(k)' <=> rtJob[j].model \in models
      BY <1>3, <3>1 DEF InMap
    <3>3. Expected(q, rtJob[j].model \in models)
      BY DEF q
    <3> QED BY <3>1, <3>2, <3>3 DEF Expected
  <2>2. CASE k # j
    <3>1. rtJob[k] # NoTask
      BY <1>2, <1>8, <2>2
    <3>2. rtJob[k] \in Task /\ Expected(rtJob[k], InMap(k))
      BY <1>4, <3>1 DEF RtInv
    <3>3. CASE Disturbed(k)
      <4>1. rtJob'[k] = r(k)
        BY <1>2, <2>2, <3>3
      <4>2. InMap(k)' <=> rtJob[j].model \in models
        BY <1>1, <1>2, <1>4, <3>1, <3>3, <4>1 DEF InMap, RtInv
      <4>3. Expected(r(k), rtJob[j].model \in models)
        BY <1>4, <3>1, <3>2 DEF Expected
      <4> QED BY <4>1, <4>2, <4>3 DEF Expected
    <3>4. CASE ~Disturbed(k)
      <4>1. rtJob'[k] = rtJob[k] /\ rtJob[k].model \in Models /\ rtJob[k].adapter \in Adapters
        BY <1>2, <2>2, <3>2, <3>4 DEF Task
      <4>2. InMap(k)' <=> InMap(k)
        <5>1. CASE running' = running
          BY <4>1, <5>1 DEF InMap
        <5>2. CASE rtJob[k].adapter # a
          BY <1>1, <1>2, <4>1, <5>2 DEF InMap, RtInv
        <5>3. CASE rtJob[k].adapter = a /\ rtJob[k].model # rtJob[j].model
          BY <1>1, <1>2, <4>1, <5>3 DEF InMap, RtInv
        <5> QED BY <3>1, <3>4, <5>1, <5>2, <5>3
      <4> QED BY <3>2, <4>1, <4>2 DEF Expected
    <3> QED BY <3>3, <3>4
  <2> QED BY <2>1, <2>2
<1> QED BY <1>5, <1>6, <1>7, <1>8 DEF RtInv

\* The end of a task: what it answers is what is expected of it.
LEMMA EndExplained ==
  ASSUME RtInv, NEW j \in Jobs, rtJob[j] # NoTask, NEW ok \in BOOLEAN, RtEnd(j, ok),
         rtJob' = [rtJob EXCEPT ![j] = NoTask], UNCHANGED <<running, rtTasks>>,
         \/ ok /\ rtJob[j].todo = <<"status">>
         \/ /\ ~ok /\ InMap(j) /\ rtJob[j].todo = <<"start", "status">>
         \/ /\ ~ok /\ ~InMap(j) /\ rtJob[j].todo = <<"stop", "status">>
  PROVE  RtInv'
<1>1. rtJob[j] \in Task /\ Expected(rtJob[j], InMap(j))
  BY DEF RtInv
<1>2. /\ rtDone' = [type |-> rtJob[j].type, ok |-> ok, known |-> TRUE, state |-> InMap(j),
                    before |-> rtJob[j].before, started |-> rtJob[j].started,
                    stopped |-> rtJob[j].stopped]
  BY DEF RtEnd, InMap
<1>3. /\ rtDone'.type = rtJob[j].type /\ rtDone'.ok = ok /\ rtDone'.state = InMap(j)
      /\ rtDone'.before = rtJob[j].before /\ rtDone'.started = rtJob[j].started
      /\ rtDone'.stopped = rtJob[j].stopped
  BY <1>2
<1>4. /\ <<"status">> # <<"start", "status">> /\ <<"status">> # <<"stop", "status">>
      /\ <<"start", "status">> # <<"stop", "status">>
      /\ <<"tryStop", "start", "status">> # <<"start", "status">>
      /\ <<"tryStop", "start", "status">> # <<"stop", "status">>
      /\ <<"tryStop", "start", "status">> # <<"status">>
  OBVIOUS
<1> DEFINE q == rtJob[j]
<1>5. /\ q.type = "StartRuntime" =>
            /\ ok => (~q.before /\ InMap(j)) \/ q.stopped
            /\ ~ok => q.before \/ q.started
      /\ q.type = "StopRuntime" =>
            /\ ok => (q.before /\ ~InMap(j)) \/ q.started
            /\ ~ok => ~q.before \/ q.stopped
      /\ q.type \in {"RestartRuntime", "UpgradeRuntime"} =>
            /\ ok => InMap(j) \/ q.stopped
            /\ ~ok => q.started
  BY <1>1, <1>4 DEF Expected
<1>6. RuntimeOutcomeExplained'
  <2>1. /\ q.before \in BOOLEAN /\ q.started \in BOOLEAN /\ q.stopped \in BOOLEAN
        /\ InMap(j) \in BOOLEAN
    BY <1>1 DEF Task, InMap
  <2> QED BY <1>3, <1>5, <2>1 DEF RuntimeOutcomeExplained, runtimeTypes
<1>7. rtJob' \in [Jobs -> Task \cup {NoTask}] /\ running' \in [Adapters -> SUBSET Models]
  BY DEF RtInv
<1>8. \A k \in Jobs : rtJob'[k] # NoTask => Expected(rtJob'[k], InMap(k)')
  BY DEF RtInv, InMap
<1> QED BY <1>6, <1>7, <1>8 DEF RtInv

\* Every section of a task that runs, and its end.
LEMMA TaskStep ==
  ASSUME RtInv, NEW j \in Jobs, RtStart(j) \/ RtStop(j) \/ RtTryStop(j) \/ RtStatus(j)
  PROVE  RtInv'
<1> DEFINE p == rtJob[j]
           a == p.adapter
           More == running[a] \cup {p.model}
           Fewer == running[a] \ {p.model}
<1>1. p # NoTask
  BY DEF RtStart, RtStop, RtTryStop, RtStatus, At
<1>2. /\ p \in Task /\ Expected(p, InMap(j)) /\ More \in SUBSET Models /\ Fewer \in SUBSET Models
      /\ p.todo \in Todos
  <2>1. p \in Task /\ Expected(p, InMap(j))
    BY <1>1 DEF RtInv
  <2> QED BY <2>1 DEF RtInv, Task
<1>3. /\ \A m \in Models \ {p.model} : m \in More <=> m \in running[a]
      /\ \A m \in Models \ {p.model} : m \in Fewer <=> m \in running[a]
  OBVIOUS
<1> DEFINE next == [p EXCEPT !.todo = Tail(@)]
<1>4. /\ next.type = p.type /\ next.before = p.before /\ next.started = p.started
      /\ next.stopped = p.stopped
      /\ next.todo = Tail(p.todo)
  BY <1>2 DEF Task
<1> HIDE DEF next, More, Fewer
<1>5. ASSUME p.todo = <<"start", "status">>, ~InMap(j), Section(j, More) PROVE RtInv'
  <2>1. Expected(next, TRUE) /\ p.model \in More /\ Tail(p.todo) \in Todos
    BY <1>2, <1>4, <1>5, NextSection DEF Expected, More, Todos
  <2> QED BY <1>1, <1>2, <1>3, <1>5, <2>1, SectionKeeps DEF next, Expected
<1>6. ASSUME p.todo = <<"stop", "status">>, InMap(j), Section(j, Fewer) PROVE RtInv'
  <2>1. Expected(next, FALSE) /\ p.model \notin Fewer /\ Tail(p.todo) \in Todos
    BY <1>2, <1>4, <1>6, NextSection DEF Expected, Fewer, Todos
  <2> QED BY <1>1, <1>2, <1>3, <1>6, <2>1, SectionKeeps DEF next, Expected
<1>7. ASSUME p.todo = <<"tryStop", "start", "status">>, Section(j, Fewer) PROVE RtInv'
  <2>1. Expected(next, FALSE) /\ p.model \notin Fewer /\ Tail(p.todo) \in Todos
    BY <1>2, <1>4, <1>7, NextSection DEF Expected, Fewer, Todos
  <2> QED BY <1>1, <1>2, <1>3, <1>7, <2>1, SectionKeeps DEF next, Expected
<1>8. /\ Head(p.todo) = "start" => p.todo = <<"start", "status">>
      /\ Head(p.todo) = "stop" => p.todo = <<"stop", "status">>
      /\ Head(p.todo) = "tryStop" => p.todo = <<"tryStop", "start", "status">>
      /\ Head(p.todo) = "status" => p.todo = <<"status">>
  BY <1>2, NextSection DEF Todos
<1>9. CASE RtStart(j)
  <2>1. p.todo = <<"start", "status">>
    BY <1>8, <1>9 DEF RtStart, At
  <2>2. CASE InMap(j)
    BY <1>1, <1>9, <2>1, <2>2, EndExplained DEF RtStart, RtFail
  <2>3. CASE ~InMap(j)
    BY <1>5, <1>9, <2>1, <2>3 DEF RtStart, More
  <2> QED BY <2>2, <2>3
<1>10. CASE RtStop(j)
  <2>1. p.todo = <<"stop", "status">>
    BY <1>8, <1>10 DEF RtStop, At
  <2>2. CASE ~InMap(j)
    BY <1>1, <1>10, <2>1, <2>2, EndExplained DEF RtStop, RtFail
  <2>3. CASE InMap(j)
    BY <1>6, <1>10, <2>1, <2>3 DEF RtStop, Fewer
  <2> QED BY <2>2, <2>3
<1>11. CASE RtTryStop(j)
  BY <1>7, <1>8, <1>11 DEF RtTryStop, At, Fewer
<1>12. CASE RtStatus(j)
  <2>1. p.todo = <<"status">>
    BY <1>8, <1>12 DEF RtStatus, At
  <2> QED BY <1>1, <1>12, <2>1, EndExplained DEF RtStatus
<1> QED BY <1>9, <1>10, <1>11, <1>12

\* A task is handed over, or refused for its adapter, which is no answer of a runtime.
LEMMA ExecuteKeeps ==
  ASSUME RtInv, NEW j \in Jobs, NEW type \in runtimeTypes, NEW r \in Runtimes, NEW m \in Models,
         RtExecute(j, type, r, m)
  PROVE  RtInv'
<1>1. CASE r \in Adapters
  <2> DEFINE in == m \in running[r]
             q == [type |-> type, adapter |-> r, model |-> m, todo |-> Sections(type),
                   before |-> in, started |-> FALSE, stopped |-> FALSE]
  <2>1. rtJob' = [rtJob EXCEPT ![j] = q] /\ UNCHANGED <<running, rtDone>>
    BY <1>1 DEF RtExecute
  <2>2. Sections(type) \in Todos
    BY DEF Sections, Todos
  <2>3. q \in Task
    BY <1>1, <2>2 DEF Task
  <2>4. Expected(q, in)
    BY DEF Expected, Sections, runtimeTypes
  <2>5. q.adapter = r /\ q.model = m
    OBVIOUS
  <2> HIDE DEF q
  <2>6. rtJob' \in [Jobs -> Task \cup {NoTask}]
    BY <2>1, <2>3 DEF RtInv
  <2>7. ASSUME NEW k \in Jobs, rtJob'[k] # NoTask PROVE Expected(rtJob'[k], InMap(k)')
    <3>1. CASE k = j
      <4>1. rtJob'[k] = q /\ (InMap(k)' <=> in)
        BY <2>1, <2>5, <3>1 DEF InMap, RtInv
      <4> QED BY <2>4, <4>1 DEF Expected
    <3>2. CASE k # j
      BY <2>1, <2>7, <3>2 DEF RtInv, InMap
    <3> QED BY <3>1, <3>2
  <2>8. RuntimeOutcomeExplained'
    BY <2>1 DEF RtInv, RuntimeOutcomeExplained
  <2> QED BY <2>1, <2>6, <2>7, <2>8 DEF RtInv
<1>2. CASE r \notin Adapters
  <2>1. rtDone' = [type |-> type, ok |-> FALSE, known |-> FALSE] /\ UNCHANGED <<rtJob, running>>
    BY <1>2 DEF RtExecute
  <2>2. ~rtDone'.known
    BY <2>1
  <2> QED BY <2>1, <2>2 DEF RtInv, RuntimeOutcomeExplained, InMap
<1> QED BY <1>1, <1>2

\* Every step of tasks and of the agent's process keeps the invariant.
LEMMA RtStep == RtInv /\ [RtNext]_runtimeVars => RtInv'
<1> SUFFICES ASSUME RtInv, [RtNext]_runtimeVars PROVE RtInv'
  OBVIOUS
<1>1. ASSUME NEW j \in Jobs, NEW type \in runtimeTypes, NEW r \in Runtimes, NEW m \in Models,
             RtExecute(j, type, r, m)
      PROVE  RtInv'
  BY <1>1, ExecuteKeeps
<1>2. ASSUME NEW j \in Jobs, NEW ok, CollectLogs(j, ok)
      PROVE  RtInv'
  <2>1. rtDone'.type = "CollectLogs" /\ UNCHANGED <<running, rtJob>>
    BY <1>2 DEF CollectLogs
  <2> QED BY <2>1 DEF RtInv, RuntimeOutcomeExplained, InMap, runtimeTypes
<1>3. ASSUME NEW j \in Jobs, RtStart(j) \/ RtStop(j) \/ RtTryStop(j) \/ RtStatus(j)
      PROVE  RtInv'
  BY <1>3, TaskStep
<1>4. CASE RtRestart
  BY <1>4 DEF RtRestart, RtInv, RuntimeOutcomeExplained
<1>5. CASE UNCHANGED runtimeVars
  BY <1>5 DEF runtimeVars, RtInv, RuntimeOutcomeExplained, InMap
<1> QED BY <1>1, <1>2, <1>3, <1>4, <1>5 DEF RtNext

\* A runtime task (RuntimeExecutor.Execute) answers what it did, or what another task did
\* to the same model between its calls of the adapter, which are separate sections.
THEOREM RuntimeAnswersTruthful == RtSpec => []RuntimeOutcomeExplained
<1>1. RtInv => RuntimeOutcomeExplained
  BY DEF RtInv
<1> QED BY <1>1, RtInvInit, RtStep, PTL DEF RtSpec

-------------------------------------------------------------------------------
(* ModelDownload: the inductive invariant *)

DlRecord == [phase : {"idle", "request", "copy", "verify", "list", "prune"},
             version : Versions \cup {NULL}, checked : BOOLEAN, fd : Inodes \cup {NULL},
             append : BOOLEAN, off : Nat, victims : SUBSET Versions]

DlTypes ==
    /\ part \in [Versions -> Inodes \cup {NULL}] /\ dest \in [Versions -> Inodes \cup {NULL}]
    /\ data \in [Inodes -> Seq(Nat)] /\ job \in [Jobs -> DlRecord]
    /\ Dirs \subseteq Versions /\ installed \subseteq Versions /\ crashes \in Nat

\* A download has a version, and a file open only while it copies.
DlProper(q) == (q.phase = "copy" <=> q.fd # NULL) /\ (q.phase = "idle" <=> q.version = NULL)

\* The file is one of version v: at one of its paths, or open in a download of it.
FileOf(i, v) ==
    i \in {part[v], dest[v]} \/ \E j \in Jobs : job[j].fd = i /\ job[j].version = v

\* No file is one of two versions, or at both paths of one.
OneVersion ==
    /\ \A i \in Inodes, v, w \in Versions : FileOf(i, v) /\ FileOf(i, w) => v = w
    /\ \A v \in Versions : part[v] # NULL => part[v] # dest[v]

\* Chunk by chunk the artifact's, or wrong ones the gateway sent.
InPlace(content) == \A k \in 1 .. Len(content) : content[k] \in {k, 0}

\* What a later download finds at the .part path.
Resumable(content) == InPlace(content) /\ (Len(content) < Chunks \/ crashes > 0)

\* How far a download of version v has come, when it is the only one of v: it asks for
\* what is missing, writes where its file ends, and holds a verified file at the end.
Stage(q, v) ==
    /\ q.phase = "request" => (q.off = PartSize(v) \/ v \notin Dirs)
    /\ q.phase = "copy" => /\ part[v] \in {NULL, q.fd} /\ q.fd # dest[v]
                           /\ Len(data[q.fd]) = q.off /\ q.off <= Chunks /\ InPlace(data[q.fd])
    /\ q.phase \in {"verify", "list", "prune"} => part[v] = NULL /\ v \notin installed
    /\ q.phase \in {"list", "prune"} /\ q.checked /\ dest[v] # NULL => data[dest[v]] = Artifact

Kept(v) ==
    /\ v \in installed => dest[v] # NULL /\ data[dest[v]] = Artifact
    /\ part[v] # NULL => \/ \E j \in Jobs : job[j].version = v /\ job[j].phase = "copy"
                         \/ Resumable(data[part[v]])
    /\ \A j, k \in Jobs : job[j].version = v /\ job[k].version = v => j = k
    /\ \A j \in Jobs : job[j].version = v => Stage(job[j], v)

DlInv ==
    /\ DlTypes /\ OneVersion
    /\ \A j \in Jobs : DlProper(job[j])
    /\ \A v \in Versions \ Contended : Kept(v)

-------------------------------------------------------------------------------
(* ModelDownload: the files *)

\* The constants, as the proofs use them.
LEMMA DlConstants ==
  /\ Chunks \in Nat /\ Chunks # 0 /\ IsFiniteSet(Jobs) /\ IsFiniteSet(Versions)
  /\ NULL \notin Inodes /\ NULL \notin Versions
BY DownloadAssumption, NullAssumption

\* At the start there is neither a file nor a download.
LEMMA DlStart == DlInit => DlInv
<1> SUFFICES ASSUME DlInit PROVE DlInv
  OBVIOUS
<1>1. Idle \in DlRecord /\ Idle.fd = NULL /\ Idle.phase = "idle" /\ Idle.version = NULL
  BY DEF Idle, DlRecord
<1>2. DlTypes
  BY <1>1 DEF DlInit, DlTypes, Dirs
<1>3. \A j \in Jobs : DlProper(job[j])
  BY <1>1 DEF DlInit, DlProper
<1>4. \A i \in Inodes, v \in Versions : ~FileOf(i, v)
  BY <1>1, DlConstants DEF DlInit, FileOf
<1>5. \A v \in Versions : Kept(v)
  BY <1>1, DlConstants DEF DlInit, Kept
<1> QED BY <1>2, <1>3, <1>4, <1>5 DEF DlInv, OneVersion, DlInit

\* The records differ in nothing that is claimed of a download: the victims may.
Alike(q, r) ==
    /\ q.phase = r.phase /\ q.version = r.version /\ q.checked = r.checked
    /\ q.fd = r.fd /\ q.off = r.off

\* The files of a version stay as they are when nothing of it changes.
LEMMA OthersKept ==
  ASSUME DlInv, NEW v \in Versions \ Contended,
         part'[v] = part[v], dest'[v] = dest[v], v \in Dirs' <=> v \in Dirs,
         v \in installed' <=> v \in installed, crashes' \in Nat, crashes' >= crashes,
         \A j \in Jobs : job[j].version = v \/ job'[j].version = v => Alike(job'[j], job[j]),
         \A i \in Inodes : FileOf(i, v) => data'[i] = data[i]
  PROVE  Kept(v)'
<1>1. /\ Kept(v) /\ crashes \in Nat /\ \A j \in Jobs : job[j] \in DlRecord /\ DlProper(job[j])
      /\ part[v] \in Inodes \cup {NULL} /\ dest[v] \in Inodes \cup {NULL}
  BY DEF DlInv, DlTypes
<1>2. /\ part[v] # NULL => data'[part[v]] = data[part[v]]
      /\ dest[v] # NULL => data'[dest[v]] = data[dest[v]]
  BY <1>1 DEF FileOf
<1>3. v \in installed' => dest'[v] # NULL /\ data'[dest'[v]] = Artifact
  BY <1>1, <1>2 DEF Kept
<1>4. ASSUME part'[v] # NULL, ~\E j \in Jobs : job'[j].version = v /\ job'[j].phase = "copy"
      PROVE  Resumable(data[part[v]])'
  <2>1. ~\E j \in Jobs : job[j].version = v /\ job[j].phase = "copy"
    BY <1>4 DEF Alike
  <2>2. Resumable(data[part[v]])
    BY <1>1, <1>4, <2>1 DEF Kept
  <2>3. data'[part'[v]] = data[part[v]]
    BY <1>2, <1>4
  <2>4. crashes > 0 => crashes' > 0
    BY <1>1
  <2> QED BY <2>2, <2>3, <2>4 DEF Resumable, InPlace
<1>5. \A j, k \in Jobs : job'[j].version = v /\ job'[k].version = v => j = k
  BY <1>1 DEF Kept, Alike
<1>6. ASSUME NEW j \in Jobs, job'[j].version = v
      PROVE  Stage(job[j], v)'
  <2>1. Alike(job'[j], job[j]) /\ Stage(job[j], v)
    BY <1>1, <1>6 DEF Kept, Alike
  <2>2. job[j].phase = "request" => job[j].off = PartSize(v)' \/ v \notin Dirs'
    BY <1>2, <2>1 DEF Stage, PartSize
  <2>3. job[j].phase = "copy" =>
            /\ part'[v] \in {NULL, job[j].fd} /\ job[j].fd # dest'[v]
            /\ Len(data'[job[j].fd]) = job[j].off /\ job[j].off <= Chunks
            /\ InPlace(data'[job[j].fd])
    <3> SUFFICES ASSUME job[j].phase = "copy"
                 PROVE  data'[job[j].fd] = data[job[j].fd]
      BY <2>1 DEF Stage
    <3>1. job[j].fd \in Inodes
      BY <1>1 DEF DlProper, DlRecord
    <3> QED BY <1>6, <2>1, <3>1 DEF FileOf, Alike
  <2>4. job[j].phase \in {"verify", "list", "prune"} => part'[v] = NULL /\ v \notin installed'
    BY <2>1 DEF Stage
  <2>5. job[j].phase \in {"list", "prune"} /\ job[j].checked /\ dest'[v] # NULL =>
            data'[dest'[v]] = Artifact
    BY <1>2, <2>1 DEF Stage
  <2> QED BY <2>1, <2>2, <2>3, <2>4, <2>5 DEF Stage, Alike
<1> QED BY <1>3, <1>4, <1>5, <1>6 DEF Kept

\* The version's directory is removed while its download, if any, goes on.
LEMMA RemovedKept ==
  ASSUME DlInv, NEW v \in Versions \ Contended,
         part'[v] = NULL, dest'[v] = NULL, v \notin Dirs', v \notin installed',
         \A j \in Jobs : job'[j].version = v => Alike(job'[j], job[j]),
         \A i \in Inodes, j \in Jobs :
            job'[j].version = v /\ job'[j].fd = i => data'[i] = data[i]
  PROVE  Kept(v)'
<1>1. Kept(v) /\ \A j \in Jobs : job[j] \in DlRecord /\ DlProper(job[j])
  BY DEF DlInv, DlTypes
<1>2. \A j, k \in Jobs : job'[j].version = v /\ job'[k].version = v => j = k
  BY <1>1 DEF Kept, Alike
<1>3. ASSUME NEW j \in Jobs, job'[j].version = v
      PROVE  Stage(job[j], v)'
  <2>1. Alike(job'[j], job[j]) /\ Stage(job[j], v)
    BY <1>1, <1>3 DEF Kept, Alike
  <2>2. job[j].phase = "copy" =>
            /\ part'[v] \in {NULL, job[j].fd} /\ job[j].fd # dest'[v]
            /\ Len(data'[job[j].fd]) = job[j].off /\ job[j].off <= Chunks
            /\ InPlace(data'[job[j].fd])
    <3> SUFFICES ASSUME job[j].phase = "copy"
                 PROVE  data'[job[j].fd] = data[job[j].fd] /\ job[j].fd # NULL
      BY <2>1 DEF Stage
    <3>1. job[j].fd \in Inodes /\ job[j].fd # NULL
      BY <1>1 DEF DlProper, DlRecord
    <3> QED BY <1>3, <2>1, <3>1 DEF Alike
  <2> QED BY <2>1, <2>2 DEF Stage, Alike
<1> QED BY <1>2, <1>3 DEF Kept

\* The only download of the version ends, and leaves the files.  If it was copying and
\* leaves the whole artifact at the .part path, something crashed.
LEMMA EndKept ==
  ASSUME DlInv, NEW v \in Versions \ Contended,
         part'[v] = part[v], dest'[v] \in {dest[v], NULL}, crashes' \in Nat, crashes' >= crashes,
         v \in installed' => v \in installed /\ dest'[v] = dest[v],
         \A j \in Jobs : job'[j].version # v,
         \A j \in Jobs : job[j].version = v /\ job[j].phase = "copy" =>
            job[j].off < Chunks \/ crashes' > 0 \/ part[v] = NULL,
         \A i \in Inodes : i \in {part[v], dest'[v]} => data'[i] = data[i]
  PROVE  Kept(v)'
<1>1. /\ Kept(v) /\ crashes \in Nat
      /\ part[v] \in Inodes \cup {NULL} /\ dest[v] \in Inodes \cup {NULL}
  BY DEF DlInv, DlTypes
<1>2. v \in installed' => dest'[v] # NULL /\ data'[dest'[v]] = Artifact
  BY <1>1 DEF Kept
<1>3. ASSUME part'[v] # NULL
      PROVE  Resumable(data[part[v]])'
  <2>1. data'[part'[v]] = data[part[v]]
    BY <1>1, <1>3
  <2>2. Resumable(data[part[v]]) => Resumable(data[part[v]])'
    BY <1>1, <2>1 DEF Resumable, InPlace
  <2>3. ASSUME NEW j \in Jobs, job[j].version = v, job[j].phase = "copy"
        PROVE  Resumable(data[part[v]])'
    <3>1. Stage(job[j], v)
      BY <1>1, <2>3 DEF Kept
    <3>2. part[v] = job[j].fd /\ Len(data[job[j].fd]) = job[j].off /\ InPlace(data[job[j].fd])
      BY <1>3, <2>3, <3>1 DEF Stage
    <3>3. job[j].off < Chunks \/ crashes' > 0
      BY <1>3, <2>3
    <3> QED BY <2>1, <3>2, <3>3 DEF Resumable, InPlace
  <2> QED BY <1>1, <1>3, <2>2, <2>3 DEF Kept
<1> QED BY <1>2, <1>3 DEF Kept

\* The only download of the version goes on.
LEMMA OwnKept ==
  ASSUME DlInv, NEW j \in Jobs, NEW q \in DlRecord, job' = [job EXCEPT ![j] = q],
         NEW w \in Versions \ Contended, q.version = w,
         job[j].version = w \/ \A k \in Jobs : job[k].version # w,
         w \in installed' => dest'[w] # NULL /\ data'[dest'[w]] = Artifact,
         part'[w] # NULL => q.phase = "copy" \/ Resumable(data[part[w]])',
         Stage(q, w)'
  PROVE  Kept(w)'
<1>1. Kept(w) /\ job \in [Jobs -> DlRecord]
  BY DEF DlInv, DlTypes
<1>2. \A k \in Jobs : job'[k] = IF k = j THEN q ELSE job[k]
  BY <1>1
<1>3. \A k \in Jobs : job'[k].version = w => k = j
  BY <1>1, <1>2 DEF Kept
<1>4. job'[j] = q
  BY <1>2
<1>5. \A k \in Jobs : job'[k].version = w => Stage(job[k], w)'
  BY <1>3, <1>4
<1>6. part'[w] # NULL => \/ \E k \in Jobs : job'[k].version = w /\ job'[k].phase = "copy"
                         \/ Resumable(data[part[w]])'
  BY <1>4
<1> QED BY <1>3, <1>5, <1>6 DEF Kept

\* A download of version w moves, q is its record afterwards.
Moves(j, q, w) ==
    /\ job' = [job EXCEPT ![j] = q] /\ DlProper(q)
    /\ q.version \in {w, NULL} /\ job[j].version \in {w, NULL}

\* What belongs to the other versions stays as it is.
Elsewhere(w) ==
    /\ DlTypes' /\ crashes' >= crashes
    /\ \A v \in Versions \ {w} : /\ part'[v] = part[v] /\ dest'[v] = dest[v]
                                 /\ v \in Dirs' <=> v \in Dirs
                                 /\ v \in installed' <=> v \in installed
    /\ \A i \in Inodes, v \in Versions \ {w} : FileOf(i, v)' => data'[i] = data[i]

\* A file that version w gets was none's, and is not put at both paths.
Gets(w) ==
    /\ part'[w] # NULL => part'[w] # dest'[w]
    /\ \A i \in Inodes : FileOf(i, w)' => FileOf(i, w) \/ \A v \in Versions : ~FileOf(i, v)

\* One download moves.
LEMMA OneMoves ==
  ASSUME DlInv, NEW j \in Jobs, NEW q \in DlRecord, NEW w \in Versions,
         Moves(j, q, w), Elsewhere(w), Gets(w), w \notin Contended => Kept(w)'
  PROVE  DlInv'
<1> USE DEF Moves, Elsewhere, Gets
<1>1. job \in [Jobs -> DlRecord] /\ crashes \in Nat /\ NULL \notin Versions
  BY DlConstants DEF DlInv, DlTypes
<1>2. \A k \in Jobs : job'[k] = IF k = j THEN q ELSE job[k]
  BY <1>1
<1>3. DlTypes' /\ crashes' \in Nat
  BY DEF DlTypes
<1>4. \A k \in Jobs : DlProper(job[k])'
  <2>1. \A k \in Jobs : DlProper(job'[k])
    BY <1>2 DEF DlInv
  <2> QED BY <2>1 DEF DlProper
<1>5. \A i \in Inodes, v \in Versions \ {w} : FileOf(i, v)' <=> FileOf(i, v)
  BY <1>1, <1>2 DEF FileOf
<1>6. OneVersion'
  <2>1. \A i \in Inodes, v, u \in Versions : FileOf(i, v)' /\ FileOf(i, u)' => v = u
    BY <1>5 DEF DlInv, OneVersion
  <2>2. \A v \in Versions : part'[v] # NULL => part'[v] # dest'[v]
    BY DEF DlInv, OneVersion
  <2> QED BY <2>1, <2>2 DEF OneVersion
<1>7. ASSUME NEW v \in Versions \ Contended, v # w
      PROVE  Kept(v)'
  <2>1. \A k \in Jobs : job[k].version = v \/ job'[k].version = v => Alike(job'[k], job[k])
    BY <1>1, <1>2, <1>7 DEF Alike
  <2>2. \A i \in Inodes : FileOf(i, v) => data'[i] = data[i]
    BY <1>5, <1>7
  <2>3. /\ part'[v] = part[v] /\ dest'[v] = dest[v] /\ v \in Dirs' <=> v \in Dirs
        /\ v \in installed' <=> v \in installed
    BY <1>7
  <2> QED BY <1>3, <2>1, <2>2, <2>3, OthersKept
<1> QED BY <1>3, <1>4, <1>6, <1>7 DEF DlInv

\* What is kept of the contents: all that has a path or is open.
LEMMA StoreIs ==
  ASSUME DlInv, Store(data) \/ data' = data
  PROVE  /\ data' \in [Inodes -> Seq(Nat)]
         /\ \A i \in Inodes, v \in Versions : FileOf(i, v)' => data'[i] = data[i]
<1>1. data \in [Inodes -> Seq(Nat)]
  BY DEF DlInv, DlTypes
<1>2. CASE data' = data
  BY <1>1, <1>2
<1>3. CASE Store(data)
  <2>1. \A i \in Inodes : data'[i] \in {data[i], <<>>}
    BY <1>3 DEF Store
  <2>2. \A i \in Inodes, v \in Versions : FileOf(i, v)' => data'[i] = data[i]
    BY <1>3 DEF Store, FileOf
  <2>3. \A i \in Inodes : data'[i] \in Seq(Nat)
    <3>1. <<>> \in Seq(Nat) /\ \A i \in Inodes : data[i] \in Seq(Nat)
      BY <1>1
    <3> QED BY <2>1, <3>1
  <2>4. data' = [i \in Inodes |-> data'[i]]
    BY <1>3 DEF Store
  <2>5. data' \in [Inodes -> Seq(Nat)]
    BY <2>3, <2>4
  <2> QED BY <2>2, <2>5
<1> QED BY <1>2, <1>3

\* A download that opens nothing gives no version a file it did not have.
LEMMA FilesShrink ==
  ASSUME DlInv, NEW j \in Jobs, NEW q \in DlRecord, job' = [job EXCEPT ![j] = q],
         q.fd = NULL \/ (q.fd = job[j].fd /\ q.version = job[j].version),
         NEW w \in Versions, part'[w] \in {part[w], NULL}, dest'[w] \in {dest[w], part[w], NULL}
  PROVE  \A i \in Inodes : FileOf(i, w)' => FileOf(i, w)
<1>1. job \in [Jobs -> DlRecord] /\ NULL \notin Inodes
  BY DlConstants DEF DlInv, DlTypes
<1>2. \A k \in Jobs : job'[k] = IF k = j THEN q ELSE job[k]
  BY <1>1
<1> SUFFICES ASSUME NEW i \in Inodes, FileOf(i, w)'
             PROVE  FileOf(i, w)
  OBVIOUS
<1>3. i \in {part'[w], dest'[w]} => i \in {part[w], dest[w]}
  BY <1>1
<1>4. ASSUME NEW k \in Jobs, job'[k].fd = i, job'[k].version = w
      PROVE  job[k].fd = i /\ job[k].version = w
  BY <1>1, <1>2, <1>4
<1> QED BY <1>3, <1>4 DEF FileOf

\* A download of version w is given up: the file may be gone that failed its checksum.
GivesUp(j, w) ==
    /\ job[j].version = w /\ Ends(j)
    /\ part' = part /\ installed' = installed /\ crashes' \in Nat /\ crashes' >= crashes
    /\ Dirs' \subseteq Versions /\ \A v \in Versions \ {w} : v \in Dirs' <=> v \in Dirs
    /\ \/ dest' = dest
       \/ dest' = [dest EXCEPT ![w] = NULL] /\ job[j].phase = "verify"
    /\ Store(data) \/ data' = data
    /\ job[j].phase = "copy" => job[j].off < Chunks \/ crashes' > 0 \/ part[w] = NULL

\* A download that is given up leaves what can be resumed.
LEMMA FailKeeps ==
  ASSUME DlInv, NEW j \in Jobs, NEW w \in Versions, GivesUp(j, w)
  PROVE  DlInv'
<1> USE DEF GivesUp, Ends
<1>1. /\ Idle \in DlRecord /\ DlProper(Idle) /\ Idle.fd = NULL /\ Idle.version = NULL
      /\ job \in [Jobs -> DlRecord] /\ NULL \notin Versions
      /\ part \in [Versions -> Inodes \cup {NULL}] /\ dest \in [Versions -> Inodes \cup {NULL}]
      /\ installed \subseteq Versions
  BY DlConstants DEF Idle, DlRecord, DlProper, DlInv, DlTypes
<1>2. /\ data' \in [Inodes -> Seq(Nat)]
      /\ \A i \in Inodes, v \in Versions : FileOf(i, v)' => data'[i] = data[i]
  BY StoreIs
<1>3. /\ dest' \in [Versions -> Inodes \cup {NULL}] /\ dest'[w] \in {dest[w], NULL}
      /\ \A v \in Versions \ {w} : dest'[v] = dest[v]
  BY <1>1
<1>4. part'[w] # NULL => part'[w] # dest'[w]
  BY <1>3 DEF DlInv, OneVersion
<1>5. \A i \in Inodes : FileOf(i, w)' => FileOf(i, w)
  BY <1>1, <1>3, FilesShrink
<1>6. ASSUME w \notin Contended
      PROVE  Kept(w)'
  <2>1. Kept(w)
    BY <1>6 DEF DlInv
  <2>2. \A k \in Jobs : job[k].version = w => k = j
    BY <2>1 DEF Kept
  <2>3. \A k \in Jobs : job'[k].version # w
    BY <1>1, <2>2
  <2>4. w \in installed' => w \in installed /\ dest'[w] = dest[w]
    BY <2>1 DEF Kept, Stage
  <2>5. \A k \in Jobs : job[k].version = w /\ job[k].phase = "copy" =>
            job[k].off < Chunks \/ crashes' > 0 \/ part[w] = NULL
    BY <2>2
  <2>6. \A i \in Inodes : i \in {part[w], dest'[w]} => data'[i] = data[i]
    BY <1>2 DEF FileOf
  <2> QED BY <1>3, <1>6, <2>3, <2>4, <2>5, <2>6, EndKept
<1>7. PICK q \in DlRecord : q = Idle /\ Moves(j, q, w)
  BY <1>1 DEF Moves
<1>8. DlTypes'
  <2>1. job' \in [Jobs -> DlRecord]
    BY <1>1
  <2> QED BY <1>1, <1>2, <1>3, <2>1 DEF DlTypes
<1>9. Elsewhere(w)
  BY <1>1, <1>2, <1>3, <1>8 DEF Elsewhere
<1>10. Gets(w)
  BY <1>4, <1>5 DEF Gets
<1> QED BY <1>6, <1>7, <1>9, <1>10, OneMoves

\* A download starts: it is the only one of its version, or the version is contended.
LEMMA DownloadKeeps ==
  ASSUME DlInv, NEW j \in Jobs, NEW w \in Versions, NEW checked \in BOOLEAN,
         Download(j, w, checked)
  PROVE  DlInv'
<1>1. /\ job \in [Jobs -> DlRecord] /\ part \in [Versions -> Inodes \cup {NULL}]
      /\ data \in [Inodes -> Seq(Nat)] /\ Dirs \subseteq Versions
  BY DEF DlInv, DlTypes
<1>2. PartSize(w) \in Nat
  <2>1. CASE part[w] # NULL
    <3>1. data[part[w]] \in Seq(Nat)
      BY <1>1, <2>1
    <3> QED BY <2>1, <3>1 DEF PartSize
  <2> QED BY <2>1 DEF PartSize
<1>3. PICK q \in DlRecord : /\ job' = [job EXCEPT ![j] = q] /\ q.phase = "request"
                            /\ q.version = w /\ q.fd = NULL /\ q.off = PartSize(w)
  <2> DEFINE q1 == [Idle EXCEPT !.phase = "request"]
             q2 == [q1 EXCEPT !.version = w]
             q3 == [q2 EXCEPT !.checked = checked]
             q4 == [q3 EXCEPT !.off = PartSize(w)]
  <2>1. job' = [job EXCEPT ![j] = q4]
    BY DEF Download
  <2>2. q1 \in DlRecord /\ q1.phase = "request" /\ q1.fd = NULL
    BY DEF Idle, DlRecord
  <2> HIDE DEF q1
  <2>3. q2 \in DlRecord /\ q2.phase = "request" /\ q2.fd = NULL /\ q2.version = w
    BY <2>2 DEF DlRecord
  <2> HIDE DEF q2
  <2>4. q3 \in DlRecord /\ q3.phase = "request" /\ q3.fd = NULL /\ q3.version = w
    BY <2>3 DEF DlRecord
  <2> HIDE DEF q3
  <2>5. /\ q4 \in DlRecord /\ q4.phase = "request" /\ q4.fd = NULL /\ q4.version = w
        /\ q4.off = PartSize(w)
    BY <1>2, <2>4 DEF DlRecord
  <2> HIDE DEF q4
  <2> QED BY <2>1, <2>5
<1>4. /\ job[j].version = NULL /\ w \in Dirs' /\ Dirs' \subseteq Versions
      /\ \A v \in Versions \ {w} : v \in Dirs' <=> v \in Dirs
      /\ UNCHANGED <<part, dest, data, installed, crashes>>
      /\ Busy(w) => w \in Contended
  BY <1>1 DEF Download, Idle, Dirs, Touched
<1>5. Moves(j, q, w)
  BY <1>3, <1>4, DlConstants DEF Moves, DlProper
<1>6. DlTypes'
  <2>1. job' \in [Jobs -> DlRecord]
    BY <1>1, <1>3
  <2> QED BY <1>4, <2>1 DEF DlInv, DlTypes
<1>7. Elsewhere(w)
  BY <1>4, <1>6 DEF Elsewhere, DlInv, DlTypes
<1>8. \A i \in Inodes : FileOf(i, w)' => FileOf(i, w)
  BY <1>3, <1>4, FilesShrink
<1>9. Gets(w)
  BY <1>4, <1>8 DEF Gets, DlInv, OneVersion
<1>10. ASSUME w \notin Contended
       PROVE  Kept(w)'
  <2>1. Kept(w) /\ \A k \in Jobs : job[k].version # w
    BY <1>4, <1>10 DEF DlInv, Busy
  <2>2. PartSize(w)' = PartSize(w)
    BY <1>4 DEF PartSize
  <2>3. Stage(q, w)'
    BY <1>3, <2>2 DEF Stage
  <2>4. w \in installed' => dest'[w] # NULL /\ data'[dest'[w]] = Artifact
    BY <1>4, <2>1 DEF Kept
  <2>5. part'[w] # NULL => Resumable(data[part[w]])'
    BY <1>4, <2>1 DEF Kept, Resumable, InPlace
  <2> QED BY <1>3, <1>10, <2>1, <2>3, <2>4, <2>5, OwnKept
<1> QED BY <1>5, <1>7, <1>9, <1>10, OneMoves

\* There is always a file beyond those the paths lead to and the downloads have open.
LEMMA FreeFile ==
  ASSUME DlInv, NEW j \in Jobs, job[j].fd = NULL
  PROVE  \E i \in Inodes : Unused(i)
<1> DEFINE fds == [s \in Jobs |-> job[s].fd]
           Parts == {part[v] : v \in Versions}
           Dests == {dest[v] : v \in Versions}
           Fds == {fds[s] : s \in Jobs}
           Used == (Parts \cup Dests) \cup Fds
           n == Cardinality(Versions)
           k == Cardinality(Jobs)
<1>1. /\ IsFiniteSet(Parts) /\ Cardinality(Parts) <= n /\ Cardinality(Parts) \in Nat
      /\ IsFiniteSet(Dests) /\ Cardinality(Dests) <= n /\ Cardinality(Dests) \in Nat
      /\ IsFiniteSet(Fds) /\ Cardinality(Fds) <= k /\ Cardinality(Fds) \in Nat
  <2>1. IsFiniteSet(Parts) /\ Cardinality(Parts) <= n /\ Cardinality(Parts) \in Nat
    BY FewValues, DlConstants
  <2>2. IsFiniteSet(Dests) /\ Cardinality(Dests) <= n /\ Cardinality(Dests) \in Nat
    BY FewValues, DlConstants
  <2>3. IsFiniteSet(Fds) /\ Cardinality(Fds) <= k /\ Cardinality(Fds) \in Nat
    BY FewValues, DlConstants
  <2> QED BY <2>1, <2>2, <2>3
<1>2. n \in Nat /\ k \in Nat
  BY FS_CardinalityType, DlConstants
<1>3. NULL \in Fds /\ \A v \in Versions : part[v] \in Parts /\ dest[v] \in Dests
  <2>1. fds[j] = NULL
    OBVIOUS
  <2> QED BY <2>1
<1>4. \A s \in Jobs : job[s].fd \in Fds
  <2>1. \A s \in Jobs : fds[s] = job[s].fd
    OBVIOUS
  <2> QED BY <2>1
<1>5. IsFiniteSet(Inodes \cup {NULL}) /\ Cardinality(Inodes \cup {NULL}) = 2 * n + k + 1
  <2>1. Inodes = 1 .. 2 * n + k
    BY DEF Inodes
  <2> DEFINE last == 2 * n + k
  <2>2. last \in Nat
    BY <1>2
  <2> HIDE DEF last
  <2>3. /\ IsFiniteSet(1 .. last)
        /\ Cardinality(1 .. last) = IF 1 > last THEN 0 ELSE last - 1 + 1
    BY <2>2, FS_Interval
  <2>4. Cardinality(1 .. last) = last
    BY <2>2, <2>3
  <2>5. IsFiniteSet(Inodes) /\ Cardinality(Inodes) = 2 * n + k
    BY <2>1, <2>3, <2>4 DEF last
  <2>6. /\ IsFiniteSet(Inodes \cup {NULL})
        /\ Cardinality(Inodes \cup {NULL}) = Cardinality(Inodes) + 1
    BY <2>5, FS_AddElement, DlConstants
  <2> QED BY <2>5, <2>6
<1> HIDE DEF Parts, Dests, Fds, n, k
<1>6. IsFiniteSet(Used) /\ Cardinality(Used) <= 2 * n + k /\ Cardinality(Used) \in Nat
  <2> DEFINE Paths == Parts \cup Dests
  <2>1. /\ IsFiniteSet(Paths) /\ Cardinality(Paths) \in Nat
        /\ Cardinality(Paths) <= Cardinality(Parts) + Cardinality(Dests)
    BY <1>1, FewTogether
  <2> HIDE DEF Paths
  <2>2. /\ IsFiniteSet(Paths \cup Fds) /\ Cardinality(Paths \cup Fds) \in Nat
        /\ Cardinality(Paths \cup Fds) <= Cardinality(Paths) + Cardinality(Fds)
    BY <1>1, <2>1, FewTogether
  <2>3. Cardinality(Paths \cup Fds) <= 2 * n + k
    BY <1>1, <1>2, <2>1, <2>2
  <2> QED BY <2>2, <2>3 DEF Paths
<1>7. PICK i \in Inodes \cup {NULL} : i \notin Used
  <2> HIDE DEF Used
  <2>1. (Inodes \cup {NULL}) \notin SUBSET Used
    BY <1>2, <1>5, <1>6, FS_Subset
  <2> QED BY <2>1
<1>8. i \in Inodes /\ i \notin Parts /\ i \notin Dests /\ i \notin Fds
  BY <1>3, <1>7
<1> QED BY <1>3, <1>4, <1>8 DEF Unused

\* The .part file is opened: it belongs to the version already, or to none.
LEMMA OpenPartKeeps ==
  ASSUME DlInv, NEW j \in Jobs, OpenPart(j)
  PROVE  DlInv'
<1>1. /\ job \in [Jobs -> DlRecord] /\ part \in [Versions -> Inodes \cup {NULL}]
      /\ dest \in [Versions -> Inodes \cup {NULL}] /\ data \in [Inodes -> Seq(Nat)]
      /\ Dirs \subseteq Versions /\ crashes \in Nat /\ DlProper(job[j]) /\ job[j] \in DlRecord
  BY DEF DlInv, DlTypes
<1>2. PICK w \in Versions, off \in Nat :
        /\ job[j].version = w /\ job[j].off = off /\ job[j].phase = "request" /\ job[j].fd = NULL
        /\ off < Chunks /\ UNCHANGED <<dest, installed, faults, crashes>>
  BY <1>1 DEF OpenPart, DlProper, DlRecord
<1>3. CASE w \notin Dirs
  <2>1. job' = [job EXCEPT ![j] = Idle] /\ UNCHANGED <<part, dirs, data>>
    BY <1>2, <1>3 DEF OpenPart, Ends
  <2>2. Dirs' = Dirs
    BY <2>1 DEF Dirs
  <2>3. GivesUp(j, w)
    BY <1>1, <1>2, <2>1, <2>2 DEF GivesUp, Ends
  <2> QED BY <2>3, FailKeeps
<1>4. CASE w \in Dirs
  <2>1. PICK i \in Inodes :
          /\ part[w] = i \/ (part[w] = NULL /\ Unused(i))
          /\ part' = [part EXCEPT ![w] = i]
          /\ data' = [data EXCEPT ![i] = IF off = 0 THEN <<>> ELSE @]
          /\ job' = [job EXCEPT ![j].phase = "copy", ![j].fd = i, ![j].append = off > 0]
    <3>1. CASE part[w] # NULL
      <4>1. part[w] \in Inodes
        BY <1>1, <3>1
      <4> QED BY <1>2, <1>4, <3>1, <4>1 DEF OpenPart
    <3>2. CASE part[w] = NULL
      <4> DEFINE i == CHOOSE k \in Inodes : Unused(k)
      <4>1. i \in Inodes /\ Unused(i)
        BY <1>2, FreeFile
      <4>2. /\ part' = [part EXCEPT ![w] = i]
            /\ data' = [data EXCEPT ![i] = IF off = 0 THEN <<>> ELSE @]
            /\ job' = [job EXCEPT ![j].phase = "copy", ![j].fd = i, ![j].append = off > 0]
        BY <1>2, <1>4, <3>2 DEF OpenPart
      <4> HIDE DEF i
      <4> QED BY <3>2, <4>1, <4>2
    <3> QED BY <3>1, <3>2
  <2>2. Dirs' = Dirs
    <3>1. dirs' = IF part[w] = NULL THEN Touched(w) ELSE dirs
      BY <1>2, <1>4 DEF OpenPart
    <3> QED BY <1>4, <3>1 DEF Dirs, Touched
  <2>3. PICK q \in DlRecord : /\ job' = [job EXCEPT ![j] = q] /\ q.phase = "copy"
                              /\ q.fd = i /\ q.off = off /\ q.version = w
    <3>0. PICK append \in BOOLEAN : append = (off > 0)
      <4>1. (off > 0) \in BOOLEAN
        OBVIOUS
      <4> QED BY <4>1, Zenon
    <3> DEFINE q1 == [job[j] EXCEPT !.phase = "copy"]
               q2 == [q1 EXCEPT !.fd = i]
               q3 == [q2 EXCEPT !.append = append]
    <3>1. job' = [job EXCEPT ![j] = q3]
      BY <1>1, <2>1, <3>0
    <3>2. q1 \in DlRecord /\ q1.phase = "copy" /\ q1.off = off /\ q1.version = w
      BY <1>1, <1>2 DEF DlRecord
    <3> HIDE DEF q1
    <3>3. q2 \in DlRecord /\ q2.phase = "copy" /\ q2.off = off /\ q2.version = w /\ q2.fd = i
      BY <3>2 DEF DlRecord
    <3> HIDE DEF q2
    <3>4. q3 \in DlRecord /\ q3.phase = "copy" /\ q3.off = off /\ q3.version = w /\ q3.fd = i
      BY <3>3 DEF DlRecord
    <3> HIDE DEF q3
    <3> QED BY <3>1, <3>4
  <2>4. /\ \A k \in Inodes : k # i => data'[k] = data[k]
        /\ off = 0 => data'[i] = <<>>
        /\ off # 0 => data'[i] = data[i]
        /\ data' \in [Inodes -> Seq(Nat)]
    <3>1. <<>> \in Seq(Nat)
      OBVIOUS
    <3> QED BY <1>1, <2>1, <3>1
  <2>5. /\ part' \in [Versions -> Inodes \cup {NULL}] /\ part'[w] = i
        /\ \A v \in Versions \ {w} : part'[v] = part[v]
    BY <1>1, <2>1
  <2>6. Moves(j, q, w)
    BY <1>2, <2>3, DlConstants DEF Moves, DlProper
  <2>7. DlTypes'
    <3>1. job' \in [Jobs -> DlRecord]
      BY <1>1, <2>3
    <3> QED BY <1>2, <2>2, <2>4, <2>5, <3>1 DEF DlInv, DlTypes
  <2>8. \A k \in Jobs : job'[k] = IF k = j THEN q ELSE job[k]
    BY <1>1, <2>3
  <2>9. \A v \in Versions : FileOf(i, v) => v = w
    BY <2>1 DEF DlInv, OneVersion, FileOf, Unused
  <2>10. \A k \in Inodes, v \in Versions \ {w} : FileOf(k, v)' => FileOf(k, v)
    BY <1>2, <2>3, <2>5, <2>8 DEF FileOf
  <2>11. Elsewhere(w)
    <3>1. \A k \in Inodes, v \in Versions \ {w} : FileOf(k, v)' => data'[k] = data[k]
      BY <2>4, <2>9, <2>10
    <3> QED BY <1>1, <1>2, <2>2, <2>5, <2>7, <3>1 DEF Elsewhere
  <2>12. i # dest[w]
    BY <2>1, DlConstants DEF DlInv, OneVersion, Unused
  <2>13. Gets(w)
    <3>1. ASSUME NEW k \in Inodes, FileOf(k, w)', k # i
          PROVE  FileOf(k, w)
      <4>1. ASSUME NEW s \in Jobs, job'[s].fd = k, job'[s].version = w
            PROVE  job[s].fd = k /\ job[s].version = w
        BY <2>3, <2>8, <3>1, <4>1
      <4>2. k \in {part'[w], dest'[w]} => k \in {part[w], dest[w]}
        BY <1>2, <2>5, <3>1
      <4> QED BY <3>1, <4>1, <4>2 DEF FileOf
    <3>2. FileOf(i, w) \/ \A v \in Versions : ~FileOf(i, v)
      BY <2>1 DEF FileOf, Unused
    <3> QED BY <1>2, <2>5, <2>12, <3>1, <3>2 DEF Gets
  <2>14. ASSUME w \notin Contended
         PROVE  Kept(w)'
    <3>1. Kept(w) /\ Stage(job[j], w)
      BY <1>2, <2>14 DEF DlInv, Kept
    <3>2. w \in installed' => dest'[w] # NULL /\ data'[dest'[w]] = Artifact
      <4>1. dest[w] \in Inodes \cup {NULL} /\ dest'[w] = dest[w] /\ installed' = installed
        BY <1>1, <1>2
      <4> QED BY <2>4, <2>12, <3>1, <4>1 DEF Kept
    <3>3. off = PartSize(w)
      BY <1>2, <1>4, <3>1 DEF Stage
    <3>4. Len(data'[i]) = off /\ InPlace(data'[i])
      <4>1. CASE off = 0
        BY <2>4, <4>1 DEF InPlace
      <4>2. CASE off # 0
        <5>1. part[w] = i /\ part[w] # NULL /\ Len(data[i]) = off
          BY <2>1, <3>3, <4>2 DEF PartSize
        <5>2. \A k \in Jobs : job[k].version = w => job[k].phase # "copy"
          BY <1>2, <3>1 DEF Kept
        <5>3. InPlace(data[i])
          BY <3>1, <5>1, <5>2 DEF Kept, Resumable
        <5> QED BY <2>4, <4>2, <5>1, <5>3
      <4> QED BY <4>1, <4>2
    <3>5. Stage(q, w)'
      <4>1. dest'[w] = dest[w]
        BY <1>2
      <4> QED BY <1>2, <2>3, <2>5, <2>12, <3>4, <4>1, DlConstants DEF Stage
    <3> QED BY <1>2, <2>3, <2>14, <3>2, <3>5, OwnKept
  <2> QED BY <2>6, <2>11, <2>13, <2>14, OneMoves
<1> QED BY <1>3, <1>4

\* A chunk is written, the artifact's or a wrong one: at the end of the file, unless
\* several downloads write it.
LEMMA CopyChunkKeeps ==
  ASSUME DlInv, NEW j \in Jobs, NEW c \in Nat, c \in {job[j].off + 1, 0}, CopyChunk(j, c)
  PROVE  DlInv'
<1>1. /\ job \in [Jobs -> DlRecord] /\ data \in [Inodes -> Seq(Nat)]
      /\ dest \in [Versions -> Inodes \cup {NULL}]
      /\ crashes \in Nat /\ DlProper(job[j]) /\ job[j] \in DlRecord
      /\ UNCHANGED <<part, dest, dirs, installed, crashes>>
  BY DEF DlInv, DlTypes, CopyChunk
<1>2. PICK w \in Versions, off \in Nat, i \in Inodes :
        /\ job[j].version = w /\ job[j].off = off /\ job[j].phase = "copy" /\ job[j].fd = i
        /\ off < Chunks /\ off + 1 <= Chunks
  BY <1>1, DlConstants DEF CopyChunk, DlProper, DlRecord
<1>3. PICK content \in Seq(Nat) : content = data[i]
  BY <1>1
<1> DEFINE d == WrittenTo(content, job[j].append, off, c)
<1>4. data' = [data EXCEPT ![i] = d] /\ job' = [job EXCEPT ![j].off = off + 1]
  BY <1>1, <1>2, <1>3 DEF CopyChunk
<1>5. /\ d \in Seq(Nat)
      /\ Len(content) = off => /\ Len(d) = off + 1 /\ d[off + 1] = c
                               /\ \A k \in 1 .. off : d[k] = content[k]
  <2>1. CASE job[j].append
    <3>1. d = Append(content, c)
      BY <2>1 DEF WrittenTo
    <3> QED BY <3>1
  <2>2. CASE ~job[j].append
    <3> DEFINE n == IF Len(content) > off THEN Len(content) ELSE off + 1
    <3>1. d = [k \in 1 .. n |-> IF k = off + 1 THEN c ELSE IF k <= Len(content) THEN content[k] ELSE 0]
      BY <2>2 DEF WrittenTo
    <3>2. n \in Nat /\ Len(content) <= n /\ off + 1 \in 1 .. n /\ Len(content) \in Nat
      OBVIOUS
    <3>3. \A k \in 1 .. Len(content) : content[k] \in Nat
      OBVIOUS
    <3> HIDE DEF d, n
    <3>4. \A k \in 1 .. n : d[k] = IF k = off + 1 THEN c ELSE IF k <= Len(content) THEN content[k] ELSE 0
      BY <3>1
    <3>5. \A k \in 1 .. n : d[k] \in Nat
      BY <3>2, <3>3, <3>4
    <3>6. d \in Seq(Nat) /\ Len(d) = n
      BY <3>1, <3>2, <3>5
    <3>7. Len(content) = off => n = off + 1
      BY DEF n
    <3> QED BY <3>2, <3>4, <3>6, <3>7
  <2> QED BY <2>1, <2>2
<1>6. PICK q \in DlRecord : /\ job' = [job EXCEPT ![j] = q] /\ q.phase = "copy"
                            /\ q.fd = i /\ q.off = off + 1 /\ q.version = w
  <2>0. PICK n \in Nat : n = off + 1
    OBVIOUS
  <2> DEFINE q1 == [job[j] EXCEPT !.off = n]
  <2>1. job' = [job EXCEPT ![j] = q1]
    BY <1>4, <2>0
  <2>2. /\ q1 \in DlRecord /\ q1.phase = "copy" /\ q1.fd = i /\ q1.version = w
        /\ q1.off = n
    BY <1>1, <1>2 DEF DlRecord
  <2> HIDE DEF q1
  <2> QED BY <2>0, <2>1, <2>2
<1> HIDE DEF d
<1>7. /\ data' \in [Inodes -> Seq(Nat)] /\ data'[i] = d
      /\ \A k \in Inodes : k # i => data'[k] = data[k]
  BY <1>1, <1>4, <1>5
<1>8. Moves(j, q, w)
  BY <1>2, <1>6, DlConstants DEF Moves, DlProper
<1>9. DlTypes'
  <2>1. job' \in [Jobs -> DlRecord]
    BY <1>1, <1>6
  <2>2. Dirs' = Dirs
    BY <1>1 DEF Dirs
  <2> QED BY <1>1, <1>7, <2>1, <2>2 DEF DlInv, DlTypes
<1>10. \A k \in Jobs : /\ job'[k].fd = job[k].fd /\ job'[k].version = job[k].version
  BY <1>1, <1>2, <1>6
<1>11. \A k \in Inodes, v \in Versions : FileOf(k, v)' <=> FileOf(k, v)
  BY <1>1, <1>10 DEF FileOf
<1>12. Elsewhere(w)
  <2>1. FileOf(i, w)
    BY <1>2 DEF FileOf
  <2>2. \A k \in Inodes, v \in Versions \ {w} : FileOf(k, v)' => data'[k] = data[k]
    BY <1>7, <1>11, <2>1 DEF DlInv, OneVersion
  <2>3. Dirs' = Dirs /\ crashes' >= crashes
    BY <1>1 DEF Dirs
  <2> QED BY <1>1, <1>9, <2>2, <2>3 DEF Elsewhere
<1>13. Gets(w)
  BY <1>1, <1>11 DEF Gets, DlInv, OneVersion
<1>14. ASSUME w \notin Contended
       PROVE  Kept(w)'
  <2>1. Kept(w) /\ Stage(job[j], w)
    BY <1>2, <1>14 DEF DlInv, Kept
  <2>2. part[w] \in {NULL, i} /\ i # dest[w] /\ Len(content) = off /\ InPlace(content)
    BY <1>2, <1>3, <2>1 DEF Stage
  <2>3. w \in installed' => dest'[w] # NULL /\ data'[dest'[w]] = Artifact
    <3>1. dest[w] \in Inodes \cup {NULL} /\ dest'[w] = dest[w] /\ installed' = installed
      BY <1>1
    <3> QED BY <1>7, <2>1, <2>2, <3>1 DEF Kept
  <2>4. InPlace(d)
    <3>1. \A k \in 1 .. off : d[k] \in {k, 0}
      BY <1>5, <2>2 DEF InPlace
    <3>2. d[off + 1] \in {off + 1, 0}
      BY <1>2, <1>5, <2>2
    <3>3. Len(d) = off + 1
      BY <1>5, <2>2
    <3> QED BY <3>1, <3>2, <3>3 DEF InPlace
  <2>5. Stage(q, w)'
    <3>1. part'[w] = part[w] /\ dest'[w] = dest[w]
      BY <1>1
    <3>2. Len(data'[i]) = off + 1 /\ InPlace(data'[i])
      BY <1>5, <1>7, <2>2, <2>4
    <3> QED BY <1>2, <1>6, <2>2, <3>1, <3>2 DEF Stage
  <2> QED BY <1>2, <1>6, <1>14, <2>3, <2>5, OwnKept
<1> QED BY <1>8, <1>12, <1>13, <1>14, OneMoves

\* The file moves into place; it is verified next.
LEMMA DlRenameKeeps ==
  ASSUME DlInv, NEW j \in Jobs, Rename(j)
  PROVE  DlInv'
<1>1. /\ job \in [Jobs -> DlRecord] /\ part \in [Versions -> Inodes \cup {NULL}]
      /\ dest \in [Versions -> Inodes \cup {NULL}] /\ Dirs \subseteq Versions
      /\ installed \subseteq Versions /\ crashes \in Nat /\ DlProper(job[j]) /\ job[j] \in DlRecord
  BY DEF DlInv, DlTypes
<1>2. PICK w \in Versions :
        /\ job[j].version = w /\ job[j].phase = "copy" /\ job[j].off = Chunks
        /\ crashes' = crashes /\ Store(data)
  BY <1>1 DEF Rename, DlProper, DlRecord
<1>3. CASE part[w] = NULL
  <2>1. Ends(j) /\ UNCHANGED <<part, dest, dirs, installed>>
    BY <1>2, <1>3 DEF Rename
  <2>2. Dirs' = Dirs
    BY <2>1 DEF Dirs
  <2>3. GivesUp(j, w)
    BY <1>1, <1>2, <1>3, <2>1, <2>2 DEF GivesUp
  <2> QED BY <2>3, FailKeeps
<1>4. CASE part[w] # NULL
  <2>1. /\ dest' = [dest EXCEPT ![w] = part[w]] /\ part' = [part EXCEPT ![w] = NULL]
        /\ dirs' = Touched(w) /\ installed' = installed \ {w}
        /\ job' = [job EXCEPT ![j].phase = "verify", ![j].fd = NULL, ![j].off = 0, ![j].append = FALSE]
    BY <1>2, <1>4 DEF Rename
  <2>2. PICK q \in DlRecord : /\ job' = [job EXCEPT ![j] = q] /\ q.phase = "verify"
                              /\ q.fd = NULL /\ q.version = w
    <3> DEFINE q1 == [job[j] EXCEPT !.phase = "verify"]
               q2 == [q1 EXCEPT !.fd = NULL]
               q3 == [q2 EXCEPT !.off = 0]
               q4 == [q3 EXCEPT !.append = FALSE]
    <3>1. job' = [job EXCEPT ![j] = q4]
      BY <1>1, <2>1
    <3>2. q1 \in DlRecord /\ q1.phase = "verify" /\ q1.version = w
      BY <1>1, <1>2 DEF DlRecord
    <3> HIDE DEF q1
    <3>3. q2 \in DlRecord /\ q2.phase = "verify" /\ q2.version = w /\ q2.fd = NULL
      BY <3>2 DEF DlRecord
    <3> HIDE DEF q2
    <3>4. q3 \in DlRecord /\ q3.phase = "verify" /\ q3.version = w /\ q3.fd = NULL
      BY <3>3 DEF DlRecord
    <3> HIDE DEF q3
    <3>5. q4 \in DlRecord /\ q4.phase = "verify" /\ q4.version = w /\ q4.fd = NULL
      BY <3>4 DEF DlRecord
    <3> HIDE DEF q4
    <3> QED BY <3>1, <3>5
  <2>3. /\ Dirs' \subseteq Versions /\ \A v \in Versions \ {w} : v \in Dirs' <=> v \in Dirs
    BY <1>1, <2>1 DEF Dirs, Touched
  <2>4. /\ part' \in [Versions -> Inodes \cup {NULL}] /\ part'[w] = NULL
        /\ dest' \in [Versions -> Inodes \cup {NULL}] /\ dest'[w] = part[w]
        /\ \A v \in Versions \ {w} : part'[v] = part[v] /\ dest'[v] = dest[v]
    BY <1>1, <2>1
  <2>5. /\ data' \in [Inodes -> Seq(Nat)]
        /\ \A i \in Inodes, v \in Versions : FileOf(i, v)' => data'[i] = data[i]
    BY <1>2, StoreIs
  <2>6. Moves(j, q, w)
    BY <1>2, <2>2, DlConstants DEF Moves, DlProper
  <2>7. DlTypes'
    <3>1. job' \in [Jobs -> DlRecord]
      BY <1>1, <2>2
    <3> QED BY <1>1, <1>2, <2>1, <2>3, <2>4, <2>5, <3>1 DEF DlTypes
  <2>8. Elsewhere(w)
    BY <1>1, <1>2, <2>1, <2>3, <2>4, <2>5, <2>7 DEF Elsewhere
  <2>9. \A i \in Inodes : FileOf(i, w)' => FileOf(i, w)
    BY <2>2, <2>4, FilesShrink
  <2>10. Gets(w)
    BY <2>4, <2>9 DEF Gets
  <2>11. ASSUME w \notin Contended
         PROVE  Kept(w)'
    <3>1. Stage(q, w)'
      BY <2>1, <2>2, <2>4 DEF Stage
    <3> QED BY <1>2, <2>1, <2>2, <2>4, <2>11, <3>1, OwnKept
  <2> QED BY <2>6, <2>8, <2>10, <2>11, OneMoves
<1> QED BY <1>3, <1>4

\* A download that has verified its file, or listed the directories, goes on.
LEMMA NextStage ==
  ASSUME DlInv, NEW j \in Jobs, NEW q \in DlRecord, NEW w \in Versions,
         job[j].version = w, job[j].phase \in {"verify", "list"},
         job' = [job EXCEPT ![j] = q], q.phase \in {"list", "prune"}, q.version = w, q.fd = NULL,
         UNCHANGED <<part, dest, dirs, installed, crashes>>, Store(data) \/ data' = data,
         q.checked => data[dest[w]] = Artifact \/ w \in Contended
  PROVE  DlInv'
<1>1. /\ job \in [Jobs -> DlRecord] /\ crashes \in Nat /\ dest[w] \in Inodes \cup {NULL}
      /\ Dirs' = Dirs
  BY DEF DlInv, DlTypes, Dirs
<1>2. /\ data' \in [Inodes -> Seq(Nat)]
      /\ \A i \in Inodes, v \in Versions : FileOf(i, v)' => data'[i] = data[i]
  BY StoreIs
<1>3. Moves(j, q, w)
  BY DlConstants DEF Moves, DlProper
<1>4. DlTypes'
  <2>1. job' \in [Jobs -> DlRecord]
    BY <1>1
  <2> QED BY <1>1, <1>2, <2>1 DEF DlInv, DlTypes
<1>5. Elsewhere(w)
  BY <1>1, <1>2, <1>4 DEF Elsewhere
<1>6. \A i \in Inodes : FileOf(i, w)' => FileOf(i, w)
  BY FilesShrink
<1>7. Gets(w)
  BY <1>6 DEF Gets, DlInv, OneVersion
<1>8. ASSUME w \notin Contended
      PROVE  Kept(w)'
  <2>1. Kept(w) /\ Stage(job[j], w)
    BY <1>8 DEF DlInv, Kept
  <2>2. dest[w] # NULL => data'[dest'[w]] = data[dest[w]]
    <3>1. dest[w] # NULL => dest[w] \in Inodes /\ FileOf(dest[w], w)'
      BY <1>1 DEF FileOf
    <3> QED BY <1>2, <3>1
  <2>3. w \notin installed /\ part[w] = NULL
    BY <2>1 DEF Stage
  <2>4. Stage(q, w)'
    BY <1>8, <2>2, <2>3 DEF Stage
  <2> QED BY <1>8, <2>3, <2>4, OwnKept
<1> QED BY <1>3, <1>5, <1>7, <1>8, OneMoves

\* A file that fails its checksum is removed, the download of one that passes goes on.
LEMMA VerifyKeeps ==
  ASSUME DlInv, NEW j \in Jobs, Verify(j)
  PROVE  DlInv'
<1>1. /\ job \in [Jobs -> DlRecord] /\ Dirs \subseteq Versions /\ crashes \in Nat
      /\ DlProper(job[j]) /\ job[j] \in DlRecord
  BY DEF DlInv, DlTypes
<1>2. PICK w \in Versions :
        /\ job[j].version = w /\ job[j].phase = "verify"
        /\ UNCHANGED <<part, installed, crashes>> /\ Store(data)
  BY <1>1 DEF Verify, DlProper, DlRecord
<1>3. CASE dest[w] = NULL
  <2>1. Ends(j) /\ UNCHANGED <<dest, dirs>>
    BY <1>2, <1>3 DEF Verify
  <2>2. Dirs' = Dirs
    BY <2>1 DEF Dirs
  <2>3. GivesUp(j, w)
    BY <1>1, <1>2, <2>1, <2>2 DEF GivesUp
  <2> QED BY <2>3, FailKeeps
<1>4. CASE dest[w] # NULL /\ (~job[j].checked \/ Verified(w))
  <2>1. job' = [job EXCEPT ![j].phase = "list"] /\ UNCHANGED <<dest, dirs>>
    BY <1>2, <1>4 DEF Verify
  <2>2. PICK q \in DlRecord : /\ job' = [job EXCEPT ![j] = q] /\ q.phase = "list"
                              /\ q.fd = NULL /\ q.version = w /\ q.checked = job[j].checked
    <3> DEFINE q1 == [job[j] EXCEPT !.phase = "list"]
    <3>1. job' = [job EXCEPT ![j] = q1]
      BY <2>1
    <3>2. q1 \in DlRecord /\ q1.phase = "list" /\ q1.version = w /\ q1.fd = NULL
      BY <1>1, <1>2 DEF DlRecord, DlProper
    <3>3. q1.checked = job[j].checked
      BY <1>1 DEF DlRecord
    <3> HIDE DEF q1
    <3> QED BY <3>1, <3>2, <3>3
  <2>3. q.checked => data[dest[w]] = Artifact
    BY <1>4, <2>2 DEF Verified
  <2> QED BY <1>2, <2>1, <2>2, <2>3, NextStage
<1>5. CASE dest[w] # NULL /\ ~(~job[j].checked \/ Verified(w))
  <2>1. Ends(j) /\ dest' = [dest EXCEPT ![w] = NULL] /\ dirs' = Touched(w)
    BY <1>2, <1>5 DEF Verify
  <2>2. Dirs' \subseteq Versions /\ \A v \in Versions \ {w} : v \in Dirs' <=> v \in Dirs
    BY <1>1, <2>1 DEF Dirs, Touched
  <2>3. GivesUp(j, w)
    BY <1>1, <1>2, <2>1, <2>2 DEF GivesUp
  <2> QED BY <2>3, FailKeeps
<1> QED BY <1>3, <1>4, <1>5

\* The listing changes nothing on disk.
LEMMA PruneListKeeps ==
  ASSUME DlInv, NEW j \in Jobs, PruneList(j)
  PROVE  DlInv'
<1>1. /\ job \in [Jobs -> DlRecord] /\ Dirs \subseteq Versions /\ crashes \in Nat
      /\ DlProper(job[j]) /\ job[j] \in DlRecord
  BY DEF DlInv, DlTypes
<1>2. PICK w \in Versions :
        /\ job[j].version = w /\ job[j].phase = "list"
        /\ UNCHANGED <<part, dest, dirs, data, installed, crashes>>
  BY <1>1 DEF PruneList, fileVars, DlProper, DlRecord
<1>3. CASE dest[w] = NULL
  <2>1. Ends(j)
    BY <1>2, <1>3 DEF PruneList
  <2>2. Dirs' = Dirs
    BY <1>2 DEF Dirs
  <2>3. GivesUp(j, w)
    BY <1>1, <1>2, <2>1, <2>2 DEF GivesUp
  <2> QED BY <2>3, FailKeeps
<1>4. CASE dest[w] # NULL
  <2>1. PICK victims \in SUBSET Versions :
          job' = [job EXCEPT ![j].phase = "prune", ![j].victims = victims]
    <3>1. Oldest \in SUBSET Versions
      BY <1>1 DEF Oldest
    <3>2. job' = [job EXCEPT ![j].phase = "prune", ![j].victims = Oldest]
      BY <1>2, <1>4 DEF PruneList
    <3> QED BY <3>1, <3>2
  <2>2. PICK q \in DlRecord : /\ job' = [job EXCEPT ![j] = q] /\ q.phase = "prune"
                              /\ q.fd = NULL /\ q.version = w /\ q.checked = job[j].checked
    <3> DEFINE q1 == [job[j] EXCEPT !.phase = "prune"]
               q2 == [q1 EXCEPT !.victims = victims]
    <3>1. job' = [job EXCEPT ![j] = q2]
      BY <1>1, <2>1
    <3>2. /\ q1 \in DlRecord /\ q1.phase = "prune" /\ q1.version = w /\ q1.fd = NULL
          /\ q1.checked = job[j].checked
      BY <1>1, <1>2 DEF DlRecord, DlProper
    <3> HIDE DEF q1
    <3>3. /\ q2 \in DlRecord /\ q2.phase = "prune" /\ q2.version = w /\ q2.fd = NULL
          /\ q2.checked = job[j].checked
      BY <3>2 DEF DlRecord
    <3> HIDE DEF q2
    <3> QED BY <3>1, <3>3
  <2>3. q.checked => data[dest[w]] = Artifact \/ w \in Contended
    BY <1>2, <1>4, <2>2 DEF DlInv, Kept, Stage
  <2> QED BY <1>2, <2>2, <2>3, NextStage
<1> QED BY <1>3, <1>4

\* A directory is removed, whatever downloads are under way there; victims may be struck off.
LEMMA RemoveKeeps ==
  ASSUME DlInv, NEW w \in Versions, RemoveDir(w), crashes' = crashes,
         job' \in [Jobs -> DlRecord], \A j \in Jobs : Alike(job'[j], job[j]),
         installed' = installed \ {w}
  PROVE  DlInv'
<1>1. /\ job \in [Jobs -> DlRecord] /\ part \in [Versions -> Inodes \cup {NULL}]
      /\ dest \in [Versions -> Inodes \cup {NULL}] /\ Dirs \subseteq Versions /\ crashes \in Nat
      /\ installed \subseteq Versions
  BY DEF DlInv, DlTypes
<1>2. /\ data' \in [Inodes -> Seq(Nat)]
      /\ \A i \in Inodes, v \in Versions : FileOf(i, v)' => data'[i] = data[i]
  BY StoreIs DEF RemoveDir
<1>3. /\ part' \in [Versions -> Inodes \cup {NULL}] /\ dest' \in [Versions -> Inodes \cup {NULL}]
      /\ Dirs' = Dirs \ {w} /\ part'[w] = NULL /\ dest'[w] = NULL
      /\ \A v \in Versions \ {w} : part'[v] = part[v] /\ dest'[v] = dest[v]
  BY <1>1 DEF RemoveDir, Dirs
<1>4. DlTypes'
  BY <1>1, <1>2, <1>3 DEF DlTypes
<1>5. \A j \in Jobs : DlProper(job[j])'
  <2>1. \A j \in Jobs : DlProper(job'[j])
    BY DEF DlInv, DlProper, Alike
  <2> QED BY <2>1 DEF DlProper
<1>6. \A i \in Inodes, v \in Versions : FileOf(i, v)' => FileOf(i, v)
  <2> SUFFICES ASSUME NEW i \in Inodes, NEW v \in Versions, FileOf(i, v)'
               PROVE  FileOf(i, v)
    OBVIOUS
  <2>1. i \in {part'[v], dest'[v]} => i \in {part[v], dest[v]}
    BY <1>3, DlConstants
  <2>2. ASSUME NEW j \in Jobs, job'[j].fd = i, job'[j].version = v
        PROVE  job[j].fd = i /\ job[j].version = v
    BY <2>2 DEF Alike
  <2> QED BY <2>1, <2>2 DEF FileOf
<1>7. OneVersion'
  <2>1. \A v \in Versions : part'[v] # NULL => part'[v] # dest'[v]
    BY <1>3 DEF DlInv, OneVersion
  <2> QED BY <1>6, <2>1 DEF DlInv, OneVersion
<1>8. ASSUME NEW v \in Versions \ Contended
      PROVE  Kept(v)'
  <2>1. CASE v = w
    <3>1. part'[v] = NULL /\ dest'[v] = NULL /\ v \notin Dirs' /\ v \notin installed'
      BY <1>3, <2>1
    <3>2. \A i \in Inodes, j \in Jobs : job'[j].version = v /\ job'[j].fd = i => data'[i] = data[i]
      BY <1>2 DEF FileOf
    <3> QED BY <3>1, <3>2, RemovedKept
  <2>2. CASE v # w
    <3>1. part'[v] = part[v] /\ dest'[v] = dest[v] /\ (v \in Dirs' <=> v \in Dirs)
      BY <1>3, <2>2
    <3>2. \A i \in Inodes : FileOf(i, v) => FileOf(i, v)'
      BY <3>1 DEF FileOf, Alike
    <3>3. \A i \in Inodes : FileOf(i, v) => data'[i] = data[i]
      BY <1>2, <3>2
    <3>4. (v \in installed' <=> v \in installed) /\ crashes' \in Nat /\ crashes' >= crashes
      BY <1>1, <2>2
    <3> QED BY <3>1, <3>3, <3>4, OthersKept
  <2> QED BY <2>1, <2>2
<1> QED BY <1>4, <1>5, <1>7, <1>8 DEF DlInv

\* A victim of a listing is removed: nothing is claimed of it any longer.
LEMMA PruneKeeps ==
  ASSUME DlInv, NEW j \in Jobs, Prune(j)
  PROVE  DlInv'
<1>1. job \in [Jobs -> DlRecord] /\ job[j] \in DlRecord
  BY DEF DlInv, DlTypes
<1>2. PICK w \in job[j].victims :
        /\ job' = [job EXCEPT ![j].victims = @ \ {w}] /\ RemoveDir(w)
        /\ installed' = installed \ {w} /\ crashes' = crashes
  BY DEF Prune
<1>3. w \in Versions
  BY <1>1, <1>2 DEF DlRecord
<1> DEFINE q == [job[j] EXCEPT !.victims = @ \ {w}]
<1>4. job' = [job EXCEPT ![j] = q]
  BY <1>1, <1>2
<1>5. q \in DlRecord /\ Alike(q, job[j])
  BY <1>1 DEF DlRecord, Alike
<1> HIDE DEF q
<1>6. job' \in [Jobs -> DlRecord] /\ \A k \in Jobs : Alike(job'[k], job[k])
  BY <1>1, <1>4, <1>5 DEF Alike
<1> QED BY <1>2, <1>3, <1>6, RemoveKeeps

\* An install reports success after it pruned: what it has verified is in place, unless
\* the version was deleted or pruned meanwhile.
LEMMA ReturnKeeps ==
  ASSUME DlInv, NEW j \in Jobs, DownloadReturns(j)
  PROVE  DlInv'
<1>1. /\ job \in [Jobs -> DlRecord] /\ Idle \in DlRecord /\ Idle.version = NULL /\ Idle.fd = NULL
      /\ DlProper(Idle) /\ installed \subseteq Versions /\ crashes \in Nat
      /\ DlProper(job[j]) /\ job[j] \in DlRecord /\ NULL \notin Versions
  BY DlConstants DEF DlInv, DlTypes, Idle, DlRecord, DlProper
<1>2. PICK w \in Versions :
        /\ job[j].version = w /\ job[j].phase = "prune"
        /\ job' = [job EXCEPT ![j] = Idle] /\ UNCHANGED <<part, dest, dirs, data, crashes>>
        /\ installed' = IF job[j].checked /\ dest[w] # NULL THEN installed \cup {w}
                        ELSE installed
  BY <1>1 DEF DownloadReturns, Ends, fileVars, DlProper, DlRecord
<1>3. Dirs' = Dirs
  BY <1>2 DEF Dirs
<1>4. \A k \in Jobs : job'[k] = IF k = j THEN Idle ELSE job[k]
  BY <1>1, <1>2
<1>5. Moves(j, Idle, w)
  BY <1>1, <1>2 DEF Moves
<1>6. DlTypes'
  BY <1>1, <1>2, <1>3, <1>4 DEF DlInv, DlTypes
<1>7. Elsewhere(w)
  BY <1>1, <1>2, <1>3, <1>6 DEF Elsewhere
<1>8. \A i \in Inodes, v \in Versions : FileOf(i, v)' => FileOf(i, v)
  BY <1>1, <1>2, <1>4, DlConstants DEF FileOf
<1>9. Gets(w)
  BY <1>2, <1>8 DEF Gets, DlInv, OneVersion
<1>10. ASSUME w \notin Contended
       PROVE  Kept(w)'
  <2>1. Kept(w) /\ Stage(job[j], w)
    BY <1>2, <1>10 DEF DlInv, Kept
  <2>2. part'[w] = NULL /\ dest'[w] = dest[w] /\ data' = data
    BY <1>2, <2>1 DEF Stage
  <2>3. \A k \in Jobs : job'[k].version # w
    BY <1>1, <1>2, <1>4, <2>1 DEF Kept
  <2>4. w \in installed' => dest[w] # NULL /\ data[dest[w]] = Artifact
    BY <1>2, <2>1 DEF Stage
  <2> QED BY <2>2, <2>3, <2>4 DEF Kept
<1> QED BY <1>1, <1>5, <1>7, <1>9, <1>10, OneMoves

\* A version is deleted.
LEMMA DeleteKeeps ==
  ASSUME DlInv, NEW v \in Versions, deleteModel(v)
  PROVE  DlInv'
<1>1. /\ RemoveDir(v) /\ crashes' = crashes /\ job' = job /\ installed' = installed \ {v}
      /\ job' \in [Jobs -> DlRecord]
  BY DEF deleteModel, DlInv, DlTypes
<1>2. \A k \in Jobs : Alike(job'[k], job[k])
  BY <1>1 DEF Alike
<1> QED BY <1>1, <1>2, RemoveKeeps

\* The agent ends: every download is cut off.
LEMMA CrashKeeps ==
  ASSUME DlInv, Crash
  PROVE  DlInv'
<1>1. /\ Idle \in DlRecord /\ DlProper(Idle) /\ Idle.version = NULL /\ Idle.fd = NULL
      /\ job' = [j \in Jobs |-> Idle] /\ UNCHANGED <<part, dest, dirs, installed>> /\ Store(data)
      /\ crashes' = crashes + 1 /\ crashes \in Nat /\ NULL \notin Versions /\ NULL \notin Inodes
  BY DlConstants DEF Crash, Idle, DlRecord, DlProper, DlInv, DlTypes
<1>2. /\ data' \in [Inodes -> Seq(Nat)]
      /\ \A i \in Inodes, v \in Versions : FileOf(i, v)' => data'[i] = data[i]
  BY <1>1, StoreIs
<1>3. DlTypes'
  <2>1. job' \in [Jobs -> DlRecord]
    BY <1>1
  <2>2. Dirs' = Dirs /\ crashes' \in Nat
    BY <1>1 DEF Dirs
  <2> QED BY <1>1, <1>2, <2>1, <2>2 DEF DlInv, DlTypes
<1>4. \A j \in Jobs : job'[j] = Idle
  BY <1>1
<1>5. \A j \in Jobs : DlProper(job[j])'
  BY <1>1, <1>4 DEF DlProper
<1>6. \A i \in Inodes, v \in Versions : FileOf(i, v)' => FileOf(i, v)
  BY <1>1, <1>4 DEF FileOf
<1>7. OneVersion'
  BY <1>1, <1>6 DEF DlInv, OneVersion
<1>8. ASSUME NEW v \in Versions \ Contended
      PROVE  Kept(v)'
  <2>1. \A i \in Inodes : i \in {part[v], dest'[v]} => data'[i] = data[i]
    BY <1>1, <1>2 DEF FileOf
  <2>2. \A j \in Jobs : job'[j].version # v
    BY <1>1, <1>4
  <2>3. part'[v] = part[v] /\ dest'[v] = dest[v] /\ installed' = installed
    BY <1>1
  <2>4. crashes' \in Nat /\ crashes' >= crashes /\ crashes' > 0
    BY <1>1
  <2> QED BY <2>1, <2>2, <2>3, <2>4, EndKept
<1> QED BY <1>3, <1>5, <1>7, <1>8 DEF DlInv

\* A request or a copy fails, or the gateway refuses the range.
LEMMA DlFailsKeep ==
  ASSUME DlInv, NEW j \in Jobs,
         RequestFails(j) \/ RangeRejected(j) \/ CopyFails(j) \/ CloseFails(j)
  PROVE  DlInv'
<1>1. /\ Dirs \subseteq Versions /\ crashes \in Nat /\ DlProper(job[j]) /\ job[j] \in DlRecord
  BY DEF DlInv, DlTypes
<1>2. /\ Ends(j) /\ UNCHANGED <<part, dest, dirs, installed>> /\ crashes' \in {crashes, crashes + 1}
      /\ Store(data) \/ data' = data
      /\ job[j].phase \in {"request", "copy"}
      /\ job[j].phase = "copy" => job[j].off < Chunks \/ crashes' = crashes + 1
  BY DEF RequestFails, RangeRejected, CopyFails, CloseFails, fileVars
<1>3. PICK w \in Versions : job[j].version = w
  BY <1>1, <1>2 DEF DlProper, DlRecord
<1>4. Dirs' = Dirs
  BY <1>2 DEF Dirs
<1>5. crashes' \in Nat /\ crashes' >= crashes /\ (crashes' = crashes + 1 => crashes' > 0)
  BY <1>1, <1>2
<1>6. GivesUp(j, w)
  BY <1>1, <1>2, <1>3, <1>4, <1>5 DEF GivesUp
<1> QED BY <1>6, FailKeeps

\* The invariant is inductive.
LEMMA DlStep == DlInv /\ [DlNext]_downloadVars => DlInv'
<1> SUFFICES ASSUME DlInv, [DlNext]_downloadVars PROVE DlInv'
  OBVIOUS
<1>1. ASSUME NEW j \in Jobs,
             \/ \E v \in Versions, checked \in BOOLEAN : Download(j, v, checked)
             \/ RequestFails(j) \/ RangeRejected(j) \/ OpenPart(j)
             \/ Copy(j) \/ CopyFails(j) \/ CloseFails(j) \/ Rename(j)
             \/ Verify(j) \/ PruneList(j) \/ Prune(j) \/ DownloadReturns(j)
      PROVE  DlInv'
  <2>1. CASE \E v \in Versions, checked \in BOOLEAN : Download(j, v, checked)
    BY <2>1, DownloadKeeps
  <2>2. CASE RequestFails(j) \/ RangeRejected(j) \/ CopyFails(j) \/ CloseFails(j)
    BY <2>2, DlFailsKeep
  <2>3. CASE OpenPart(j)
    BY <2>3, OpenPartKeeps
  <2>4. CASE Copy(j)
    <3>1. PICK c \in Nat : c \in {job[j].off + 1, 0} /\ CopyChunk(j, c)
      <4>1. job[j].off \in Nat
        BY DEF DlInv, DlTypes, DlRecord
      <4> QED BY <2>4, <4>1 DEF Copy
    <3> QED BY <3>1, CopyChunkKeeps
  <2>5. CASE Rename(j)
    BY <2>5, DlRenameKeeps
  <2>6. CASE Verify(j)
    BY <2>6, VerifyKeeps
  <2>7. CASE PruneList(j)
    BY <2>7, PruneListKeeps
  <2>8. CASE Prune(j)
    BY <2>8, PruneKeeps
  <2>9. CASE DownloadReturns(j)
    BY <2>9, ReturnKeeps
  <2> QED BY <1>1, <2>1, <2>2, <2>3, <2>4, <2>5, <2>6, <2>7, <2>8, <2>9
<1>2. CASE \E v \in Versions : deleteModel(v)
  BY <1>2, DeleteKeeps
<1>3. CASE Crash
  BY <1>3, CrashKeeps
<1>4. CASE UNCHANGED downloadVars
  <2>1. UNCHANGED <<part, dest, dirs, data, job, installed, crashes>>
    BY <1>4 DEF downloadVars, fileVars
  <2>2. DlTypes' /\ \A j \in Jobs : DlProper(job[j])'
    BY <2>1 DEF DlInv, DlTypes, Dirs, DlProper
  <2>3. OneVersion'
    BY <2>1 DEF DlInv, OneVersion, FileOf
  <2>4. crashes \in Nat
    BY DEF DlInv, DlTypes
  <2>5. Dirs' = Dirs
    BY <2>1 DEF Dirs
  <2>6. \A v \in Versions \ Contended : Kept(v)'
    BY <2>1, <2>4, <2>5, OthersKept DEF Alike
  <2> QED BY <2>2, <2>3, <2>6 DEF DlInv
<1> QED BY <1>1, <1>2, <1>3, <1>4 DEF DlNext

\* Any reachable state satisfies the invariant.
LEMMA DlInvariant == DlSpec => []DlInv
BY DlStart, DlStep, PTL DEF DlSpec

\* An install that verified its checksum and reported success (Downloader.Download) leaves
\* the artifact in model.bin until the version is installed again, deleted or pruned,
\* whatever resumes, crashes, torn copies and downloads of other versions come between.
THEOREM InstallsStayIntact == DlSpec => []SuccessIsIntact
<1>1. DlInv => SuccessIsIntact
  BY DEF DlInv, DlTypes, Kept, SuccessIsIntact
<1> QED BY <1>1, DlInvariant, PTL

\* What a failed download leaves at the .part path (downloadWithResume) can be resumed: its
\* chunks are in place, and some are missing unless the agent crashed or a close failed.
THEOREM PartsCanBeResumed == DlSpec => []ResumePoint
<1>1. ASSUME DlInv PROVE ResumePoint
  <2> SUFFICES ASSUME NEW v \in Versions \ Contended, part[v] # NULL, ~Busy(v)
               PROVE  Resumable(data[part[v]])
    BY DEF ResumePoint, Resumable, InPlace
  <2>1. ~\E j \in Jobs : job[j].version = v /\ job[j].phase = "copy"
    BY DEF Busy
  <2> QED BY <1>1, <2>1 DEF DlInv, Kept
<1> QED BY <1>1, DlInvariant, PTL
===============================================================================
