----------------------------- MODULE LocalProofs ------------------------------
(***************************************************************************)
(* Theorems about what happens beside a server: the model files, the       *)
(* caches of models, the handles of the bindings, the watch of a directory,*)
(* the device and the boot of a service.                                   *)
(***************************************************************************)
EXTENDS Caches, ModelFiles, Bindings, Batch, Service, QueueLemmas, FiniteSetTheorems, TLAPS

------------------------------------------------------------------------------
(* The model files.                                                        *)

Holding == {"stream", "verify", "rename"}

FilesTyped ==
  /\ disk \in [Names -> {"absent", "good", "other", "torn"}] /\ placed \subseteq Names
  /\ DOMAIN step = Processes /\ DOMAIN task = Processes /\ DOMAIN head = Processes
  /\ rest \in [Processes -> Seq(Names)]
  /\ \A p \in Processes : task[p].kind = "head" => head[p] \in ToSet(Heads)

\* Nobody places an archive, so what is unpacked was verified.
ArchiveIsVerified == Tar \notin placed

\* What is about to be renamed into place; nobody else uses these staging names.
StagedIsVerified ==
  \A p \in Processes :
    /\ step[p] \in Holding => rest[p] # <<>>
    /\ step[p] = "rename" =>
         (Partial(Head(rest[p]), p) \in DOMAIN staged => staged[Partial(Head(rest[p]), p)] = "good")
    /\ step[p] = "swap" =>
         /\ Partial(Package, p) \in DOMAIN staged
         /\ staged[Partial(Package, p)] \in {"absent", "good"}

FilesInv ==
  FilesTyped /\ ArchiveIsVerified /\ StagedIsVerified /\ InstalledIsVerified /\ ReadyIsWhole

\* The other processes and their staging names stay as they are.
Alone(p) ==
  /\ \A q \in Processes \ {p} : /\ step'[q] = step[q] /\ task'[q] = task[q]
                                /\ head'[q] = head[q] /\ rest'[q] = rest[q]
  /\ \A f \in Names, q \in Processes \ {p} :
       /\ Partial(f, q) \in DOMAIN staged' <=> Partial(f, q) \in DOMAIN staged
       /\ Partial(f, q) \in DOMAIN staged => staged'[Partial(f, q)] = staged[Partial(f, q)]

\* Only what is verified is installed, and nothing goes that a head needs.
InstallsVerified ==
  /\ placed' \subseteq placed
  /\ \A n \in Names : \/ disk'[n] = disk[n] /\ (n \in placed => n \in placed')
                      \/ disk'[n] = "good"
                      \/ disk'[n] = "absent" /\ n \notin Files

LEMMA FilesKnown ==
  /\ \A h \in ToSet(Heads) : ToSet(FilesOf[h]) \subseteq Files /\ FilesOf[h] \in Seq(Names)
  /\ \A f \in Files : f # Package /\ f # Tar
  /\ Package \in Names /\ Tar \in Names /\ Speaker \in Names /\ Files \subseteq Names
  /\ \A i \in DOMAIN Heads : Heads[i] \in ToSet(Heads)
  /\ 1 \in DOMAIN Heads
<1>1. \A h \in ToSet(Heads) : ToSet(FilesOf[h]) \subseteq Files
  BY DEF Files
<1>2. \A h \in ToSet(Heads) : FilesOf[h] \in Seq(Files)
  BY FilesAssumption
<1>3. Files \subseteq Names
  BY DEF Names
<1>4. Seq(Files) \subseteq Seq(Names)
  BY <1>3
<1>5. \A f \in Files : f # Package /\ f # Tar
  BY FilesAssumption
<1>6. \A i \in DOMAIN Heads : Heads[i] \in ToSet(Heads)
  BY DEF ToSet
<1>7. 1 \in DOMAIN Heads
  BY FilesAssumption
<1> QED BY <1>1, <1>2, <1>3, <1>4, <1>5, <1>6, <1>7 DEF Names

LEMMA InitFiles == FilesInit => FilesInv
<1> SUFFICES ASSUME FilesInit PROVE FilesInv
  OBVIOUS
<1>1. FilesTyped
  BY DEF FilesInit, FilesTyped, NoTask
<1>2. ArchiveIsVerified /\ InstalledIsVerified
  BY FilesKnown DEF FilesInit, ArchiveIsVerified, InstalledIsVerified
<1>3. StagedIsVerified
  BY DEF FilesInit, StagedIsVerified, Holding
<1>4. ReadyIsWhole
  BY DEF FilesInit, ReadyIsWhole
<1> QED BY <1>1, <1>2, <1>3, <1>4 DEF FilesInv

\* What `Leave` makes of a process, and what it leaves of the others.
LEMMA Leaving ==
  ASSUME FilesTyped, NEW p \in Processes, Leave(p)
  PROVE  /\ DOMAIN step' = Processes /\ step'[p] = "off"
         /\ DOMAIN task' = Processes /\ task'[p] = NoTask
         /\ DOMAIN head' = Processes /\ rest' \in [Processes -> Seq(Names)]
         /\ \A q \in Processes \ {p} : /\ step'[q] = step[q] /\ task'[q] = task[q]
                                       /\ head'[q] = head[q] /\ rest'[q] = rest[q]
<1>1. <<>> \in Seq(Names)
  OBVIOUS
<1> QED BY <1>1 DEF Leave, FilesTyped

\* A step of one process, on its own staging names, that installs only what is
\* verified and takes nothing away that a head needs.
LEMMA FilesStep ==
  ASSUME FilesInv, NEW p \in Processes,
         FilesTyped',
         Alone(p), InstallsVerified,
         step'[p] \in Holding => rest'[p] # <<>>,
         step'[p] = "rename" => (Partial(Head(rest'[p]), p) \in DOMAIN staged'
                                   => staged'[Partial(Head(rest'[p]), p)] = "good"),
         step'[p] = "swap" => /\ Partial(Package, p) \in DOMAIN staged'
                              /\ staged'[Partial(Package, p)] \in {"absent", "good"},
         step'[p] = "ready" =>
           \/ step[p] = "ready" /\ task'[p] = task[p] /\ head'[p] = head[p]
           \/ Loadable(p) /\ task'[p] = task[p] /\ head'[p] = head[p]
  PROVE  FilesInv'
<1>1. ArchiveIsVerified'
  BY DEF FilesInv, ArchiveIsVerified, InstallsVerified
<1>2. InstalledIsVerified'
  BY DEF FilesInv, InstalledIsVerified, InstallsVerified
<1>3. StagedIsVerified'
  <2> SUFFICES ASSUME NEW q \in Processes
               PROVE  (/\ step[q] \in Holding => rest[q] # <<>>
                       /\ step[q] = "rename" =>
                            (Partial(Head(rest[q]), q) \in DOMAIN staged
                               => staged[Partial(Head(rest[q]), q)] = "good")
                       /\ step[q] = "swap" =>
                            /\ Partial(Package, q) \in DOMAIN staged
                            /\ staged[Partial(Package, q)] \in {"absent", "good"})'
    BY DEF StagedIsVerified
  <2>1. CASE q = p
    BY <2>1 DEF Partial
  <2>2. CASE q # p
    <3>1. step'[q] = step[q] /\ rest'[q] = rest[q]
      BY <2>2 DEF Alone
    <3>2. rest[q] # <<>> => Head(rest[q]) \in Names
      BY DEF FilesInv, FilesTyped
    <3>3. Package \in Names
      BY FilesKnown
    <3> QED BY <2>2, <3>1, <3>2, <3>3 DEF FilesInv, StagedIsVerified, Holding, Alone
  <2> QED BY <2>1, <2>2
<1>4. ReadyIsWhole'
  <2> SUFFICES ASSUME NEW q \in Processes, step'[q] = "ready", task'[q].kind = "head",
                      NEW f \in ToSet(FilesOf[head'[q]])
               PROVE  disk'[f] = "good" \/ (f \in Trusted \cap placed' /\ disk'[f] = "other")
    BY DEF ReadyIsWhole
  <2>1. f \in Files /\ f \in Names
    BY FilesKnown DEF FilesTyped
  <2>2. disk[f] = "good" \/ (f \in Trusted \cap placed /\ disk[f] = "other")
    <3>1. CASE step[q] = "ready" /\ task'[q] = task[q] /\ head'[q] = head[q]
      BY <3>1 DEF FilesInv, ReadyIsWhole
    <3>2. CASE q = p /\ Loadable(p) /\ task'[p] = task[p] /\ head'[p] = head[p]
      <4>1. There(f) /\ (f \notin Trusted => disk[f] = "good")
        BY <3>2 DEF Loadable, Usable
      <4>2. f \notin placed => disk[f] \in {"absent", "good"}
        BY <2>1 DEF FilesInv, InstalledIsVerified
      <4>3. disk[f] \in {"absent", "good", "other", "torn"}
        BY <2>1 DEF FilesInv, FilesTyped
      <4> QED BY <4>1, <4>2, <4>3 DEF There
    <3> QED BY <3>1, <3>2 DEF Alone
  <2> QED BY <2>1, <2>2 DEF InstallsVerified
<1> QED BY <1>1, <1>2, <1>3, <1>4 DEF FilesInv


LEMMA OwnNames ==
  ASSUME NEW p \in Processes, NEW f \in Names, NEW q \in Processes \ {p}, NEW g, NEW c,
         staged' = staged \/ staged' = Put(Partial(g, p), c) \/ staged' = Gone({Partial(g, p)})
  PROVE  /\ Partial(f, q) \in DOMAIN staged' <=> Partial(f, q) \in DOMAIN staged
         /\ Partial(f, q) \in DOMAIN staged => staged'[Partial(f, q)] = staged[Partial(f, q)]
<1>1. Partial(f, q) # Partial(g, p)
  BY DEF Partial
<1> QED BY <1>1 DEF Put, Gone

\* Where a process leaves, and at most drops a staging name of its own or the archive.
LEMMA LeaveInv ==
  ASSUME FilesInv, NEW p \in Processes, Leave(p), placed' = placed,
         disk' = disk \/ disk' = [disk EXCEPT ![Tar] = "absent"],
         staged' = staged \/ \E f \in Names : staged' = Gone({Partial(f, p)})
  PROVE  FilesInv'
<1>1. FilesTyped
  BY DEF FilesInv
<1>2. FilesTyped'
  <2>1. disk' \in [Names -> {"absent", "good", "other", "torn"}] /\ placed' \subseteq Names
    BY <1>1 DEF FilesTyped
  <2>2. \A q \in Processes : task'[q].kind = "head" => head'[q] \in ToSet(Heads)
    <3>1. NoTask.kind # "head"
      BY DEF NoTask
    <3> QED BY <1>1, <3>1, Leaving DEF FilesTyped
  <2> QED BY <1>1, <2>1, <2>2, Leaving DEF FilesTyped
<1>3. Alone(p)
  <2>1. \A f \in Names, q \in Processes \ {p} :
          /\ Partial(f, q) \in DOMAIN staged' <=> Partial(f, q) \in DOMAIN staged
          /\ Partial(f, q) \in DOMAIN staged => staged'[Partial(f, q)] = staged[Partial(f, q)]
    <3>1. CASE staged' = staged
      BY <3>1
    <3>2. CASE \E f \in Names : staged' = Gone({Partial(f, p)})
      <4> PICK g \in Names : staged' = Gone({Partial(g, p)})
        BY <3>2
      <4> QED BY OwnNames
    <3> QED BY <3>1, <3>2
  <2> QED BY <1>1, <2>1, Leaving DEF Alone
<1>4. InstallsVerified
  BY <1>1, FilesKnown DEF InstallsVerified, FilesTyped
<1>5. step'[p] = "off"
  BY <1>1, Leaving
<1> QED BY <1>2, <1>3, <1>4, <1>5, FilesStep DEF Holding

LEMMA EnsureInv ==
  ASSUME FilesInv, NEW p \in Processes, NEW t \in Tasks, Ensure(p, t)
  PROVE  FilesInv'
<1> DEFINE h == IF t.kind = "head" THEN Resolved(t.head) ELSE NoHead
<1>1. FilesTyped
  BY DEF FilesInv
<1>2. t.kind \in {"head", "speaker", "ane"}
      /\ (t.kind = "head" => t.head \in ToSet(Heads) \cup {NoHead})
  BY DEF Tasks
<1>3. t.kind = "head" => h \in ToSet(Heads)
  <2>1. Detected \in ToSet(Heads) \cup {NoHead}
    <3>1. CASE \E i \in DOMAIN Heads : First(i) /\ Usable(Heads[i])
      <4>1. (CHOOSE i \in DOMAIN Heads : First(i)) \in DOMAIN Heads
        BY <3>1
      <4> QED BY <3>1, <4>1, FilesKnown DEF Detected
    <3>2. CASE ~\E i \in DOMAIN Heads : First(i) /\ Usable(Heads[i])
      BY <3>2 DEF Detected
    <3> QED BY <3>1, <3>2
  <2> QED BY <1>2, <2>1, FilesKnown DEF Resolved
<1>4. h \in ToSet(Heads) \cup {NoHead}
  BY <1>3
<1>5. Wanted(t, h) \in Seq(Names)
  BY <1>2, <1>3, FilesKnown DEF Wanted
<1> HIDE DEF h
<1>6. /\ step[p] = "off" /\ UNCHANGED <<disk, staged, lock, placed>>
      /\ task' = [task EXCEPT ![p] = t] /\ head' = [head EXCEPT ![p] = h]
      /\ \/ step' = [step EXCEPT ![p] = "load"] /\ rest' = [rest EXCEPT ![p] = <<>>]
         \/ /\ step' = [step EXCEPT ![p] = "fetch"] \/ step' = [step EXCEPT ![p] = "lock"]
            /\ rest' = [rest EXCEPT ![p] = Wanted(t, h)]
  BY DEF Ensure, h
<1>7. <<>> \in Seq(Names)
  OBVIOUS
<1>8. FilesTyped'
  BY <1>1, <1>3, <1>4, <1>5, <1>6, <1>7 DEF FilesTyped
<1>9. Alone(p) /\ InstallsVerified /\ step'[p] \in {"load", "fetch", "lock"}
  BY <1>1, <1>6 DEF Alone, InstallsVerified, FilesTyped
<1> QED BY <1>8, <1>9, FilesStep DEF Holding

LEMMA FetchInv ==
  ASSUME FilesInv, NEW p \in Processes,
         Lock(p) \/ Skip(p) \/ OpenPartial(p) \/ Received(p) \/ FetchFails(p)
           \/ Verify(p) \/ Rename(p) \/ Complete(p)
  PROVE  FilesInv'
<1>1. FilesTyped
  BY DEF FilesInv
<1>2. rest[p] # <<>> => Head(rest[p]) \in Names /\ Tail(rest[p]) \in Seq(Names)
  BY <1>1 DEF FilesTyped
<1>3. CASE Lock(p)
  <2>1. FilesTyped'
    BY <1>1, <1>3 DEF Lock, FilesTyped
  <2>2. Alone(p) /\ InstallsVerified /\ step'[p] \in {"load", "fetch"}
    BY <1>1, <1>3 DEF Lock, Alone, InstallsVerified, FilesTyped
  <2> QED BY <2>1, <2>2, FilesStep DEF Holding
<1>4. CASE Skip(p)
  <2>1. FilesTyped'
    BY <1>1, <1>2, <1>4 DEF Skip, FilesTyped
  <2>2. Alone(p) /\ InstallsVerified /\ step'[p] = "fetch"
    BY <1>1, <1>4 DEF Skip, Alone, InstallsVerified, FilesTyped
  <2> QED BY <2>1, <2>2, FilesStep DEF Holding
<1>5. CASE OpenPartial(p) \/ Received(p)
  <2>1. rest[p] # <<>> /\ UNCHANGED <<disk, lock, task, head, rest, lives, placed>>
    BY <1>5 DEF OpenPartial, Received, FilesInv, StagedIsVerified, Holding
  <2>2. /\ step' = [step EXCEPT ![p] = "stream"] \/ step' = [step EXCEPT ![p] = "verify"]
        /\ \E c \in {"torn", "good", "other"} : staged' = Put(Partial(Head(rest[p]), p), c)
    BY <1>5 DEF OpenPartial, Received
  <2>3. FilesTyped'
    BY <1>1, <2>1, <2>2 DEF FilesTyped
  <2>4. Alone(p)
    <3> PICK c \in {"torn", "good", "other"} : staged' = Put(Partial(Head(rest[p]), p), c)
      BY <2>2
    <3>1. \A q \in Processes \ {p} : step'[q] = step[q]
      BY <1>1, <2>2 DEF FilesTyped
    <3> QED BY <2>1, <3>1, OwnNames DEF Alone
  <2>5. InstallsVerified /\ step'[p] \in {"stream", "verify"} /\ rest'[p] # <<>>
    BY <1>1, <2>1, <2>2 DEF InstallsVerified, FilesTyped
  <2> QED BY <2>3, <2>4, <2>5, FilesStep DEF Holding
<1>6. CASE FetchFails(p)
  BY <1>2, <1>6, LeaveInv DEF FetchFails
<1>7. CASE Verify(p)
  <2> DEFINE part == Partial(Head(rest[p]), p)
  <2>1. rest[p] # <<>>
    BY <1>7 DEF Verify, FilesInv, StagedIsVerified, Holding
  <2>2. CASE part \in DOMAIN staged /\ staged[part] = "good"
    <3>1. step' = [step EXCEPT ![p] = "rename"]
          /\ UNCHANGED <<staged, lock, task, head, rest, disk, lives, placed>>
      BY <1>7, <2>2 DEF Verify
    <3>2. FilesTyped'
      BY <1>1, <3>1 DEF FilesTyped
    <3>3. Alone(p) /\ InstallsVerified /\ step'[p] = "rename"
      BY <1>1, <3>1 DEF Alone, InstallsVerified, FilesTyped
    <3>4. rest'[p] # <<>> /\ staged'[Partial(Head(rest'[p]), p)] = "good"
      BY <2>1, <2>2, <3>1
    <3> QED BY <3>2, <3>3, <3>4, FilesStep DEF Holding
  <2>3. CASE ~(part \in DOMAIN staged /\ staged[part] = "good")
    BY <1>2, <1>7, <2>1, <2>3, LeaveInv DEF Verify
  <2> QED BY <2>2, <2>3
<1>8. CASE Rename(p)
  <2> DEFINE part == Partial(Head(rest[p]), p)
  <2>1. rest[p] # <<>> /\ (part \in DOMAIN staged => staged[part] = "good")
    BY <1>8 DEF Rename, FilesInv, StagedIsVerified, Holding
  <2>2. CASE part \in DOMAIN staged
    <3>1. /\ disk' = [disk EXCEPT ![Head(rest[p])] = "good"] /\ placed' = placed \ {Head(rest[p])}
          /\ rest' = [rest EXCEPT ![p] = Tail(@)] /\ UNCHANGED <<lock, task, head, lives>>
          /\ step' = [step EXCEPT ![p] = "unpack"] \/ step' = [step EXCEPT ![p] = "fetch"]
          /\ staged' = Gone({part})
      BY <1>8, <2>1, <2>2 DEF Rename
    <3>2. FilesTyped'
      BY <1>1, <1>2, <2>1, <3>1 DEF FilesTyped
    <3>3. Alone(p) /\ InstallsVerified /\ step'[p] \in {"unpack", "fetch"}
      BY ZenonT(60), <1>1, <1>2, <2>1, <3>1, OwnNames DEF Alone, InstallsVerified, FilesTyped
    <3> QED BY <3>2, <3>3, FilesStep DEF Holding
  <2>3. CASE part \notin DOMAIN staged
    BY <1>2, <1>8, <2>1, <2>3, LeaveInv DEF Rename
  <2> QED BY <2>2, <2>3
<1>9. CASE Complete(p)
  <2>1. FilesTyped'
    BY <1>1, <1>9 DEF Complete, FilesTyped
  <2>2. Alone(p) /\ InstallsVerified /\ step'[p] = "load"
    BY <1>1, <1>9 DEF Complete, Alone, InstallsVerified, FilesTyped
  <2> QED BY <2>1, <2>2, FilesStep DEF Holding
<1> QED BY <1>3, <1>4, <1>5, <1>6, <1>7, <1>8, <1>9

LEMMA UnpackInv ==
  ASSUME FilesInv, NEW p \in Processes,
         Unpack(p) \/ ClearPackage(p) \/ SwapPackage(p) \/ RemoveTar(p) \/ UnpackFails(p)
  PROVE  FilesInv'
<1>1. FilesTyped
  BY DEF FilesInv
<1>2. /\ Package \in Names /\ Tar \in Names /\ Package \notin Files /\ Tar \notin Files
      /\ disk[Tar] \in {"absent", "good"}
  BY FilesKnown DEF FilesInv, ArchiveIsVerified, InstalledIsVerified
<1>3. CASE Unpack(p)
  <2>1. FilesTyped'
    BY <1>1, <1>3 DEF Unpack, FilesTyped
  <2>2. Alone(p) /\ InstallsVerified /\ step'[p] = "unpacking"
    BY <1>1, <1>3, OwnNames DEF Unpack, Alone, InstallsVerified, FilesTyped
  <2> QED BY <2>1, <2>2, FilesStep DEF Holding
<1>4. CASE ClearPackage(p)
  <2>1. FilesTyped'
    BY <1>1, <1>2, <1>4 DEF ClearPackage, FilesTyped
  <2>2. Alone(p) /\ InstallsVerified /\ step'[p] = "swap"
    BY <1>1, <1>2, <1>4, OwnNames DEF ClearPackage, Alone, InstallsVerified, FilesTyped
  <2>3. /\ Partial(Package, p) \in DOMAIN staged'
        /\ staged'[Partial(Package, p)] \in {"absent", "good"}
    BY <1>2, <1>4 DEF ClearPackage, Put
  <2> QED BY <2>1, <2>2, <2>3, FilesStep DEF Holding
<1>5. CASE SwapPackage(p)
  <2>1. staged[Partial(Package, p)] \in {"absent", "good"}
    BY <1>5 DEF SwapPackage, FilesInv, StagedIsVerified
  <2>2. FilesTyped'
    BY <1>1, <1>2, <1>5, <2>1 DEF SwapPackage, FilesTyped
  <2>3. Alone(p) /\ step'[p] = "untar"
    BY <1>1, <1>5, OwnNames DEF SwapPackage, Alone, FilesTyped
  <2>4. InstallsVerified
    BY <1>1, <1>2, <1>5, <2>1 DEF SwapPackage, InstallsVerified, FilesTyped
  <2> QED BY <2>2, <2>3, <2>4, FilesStep DEF Holding
<1>6. CASE RemoveTar(p)
  <2>1. FilesTyped'
    BY <1>1, <1>2, <1>6 DEF RemoveTar, FilesTyped
  <2>2. Alone(p) /\ InstallsVerified /\ step'[p] = "fetch"
    BY <1>1, <1>2, <1>6 DEF RemoveTar, Alone, InstallsVerified, FilesTyped
  <2> QED BY <2>1, <2>2, FilesStep DEF Holding
<1>7. CASE UnpackFails(p)
  BY <1>2, <1>7, LeaveInv DEF UnpackFails
<1> QED BY <1>3, <1>4, <1>5, <1>6, <1>7

LEMMA UseInv ==
  ASSUME FilesInv, NEW p \in Processes, Load(p) \/ Killed(p)
  PROVE  FilesInv'
<1>1. CASE Load(p) /\ Loadable(p)
  <2>1. FilesTyped
    BY DEF FilesInv
  <2>2. step' = [step EXCEPT ![p] = "ready"]
        /\ UNCHANGED <<disk, staged, lock, task, head, rest, lives, placed>>
    BY <1>1 DEF Load
  <2>3. FilesTyped'
    BY <2>1, <2>2 DEF FilesTyped
  <2>4. Alone(p) /\ InstallsVerified /\ step'[p] = "ready"
    BY <2>1, <2>2 DEF Alone, InstallsVerified, FilesTyped
  <2> QED BY <1>1, <2>2, <2>3, <2>4, FilesStep DEF Holding
<1>2. CASE Leave(p) /\ UNCHANGED <<disk, staged, lives, placed>>
  BY <1>2, LeaveInv
<1> QED BY <1>1, <1>2 DEF Load, Killed

\* For any processes, heads and files: what is installed was verified, and who runs has
\* every file of its head (finalize_download, extract_ane_tar_atomic,
\* verify_pinned_checksums).
THEOREM ModelsHold == FilesSpec => []ModelsAreWhole
<1>1. FilesInv /\ [FilesNext]_filesVars => FilesInv'
  <2> SUFFICES ASSUME FilesInv, [FilesNext]_filesVars PROVE FilesInv'
    OBVIOUS
  <2>1. CASE UNCHANGED filesVars
    BY <2>1 DEF filesVars, FilesInv, FilesTyped, ArchiveIsVerified, StagedIsVerified, Partial,
                InstalledIsVerified, ReadyIsWhole
  <2>2. CASE FilesNext
    BY <2>2, EnsureInv, FetchInv, UnpackInv, UseInv DEF FilesNext
  <2> QED BY <2>1, <2>2
<1>2. FilesInv => ModelsAreWhole
  BY DEF FilesInv, ModelsAreWhole
<1> QED BY InitFiles, <1>1, <1>2, PTL DEF FilesSpec

-----------------------------------------------------------------------------
(* The cache of compiled models.                                           *)

\* From the compile to the key: what the process works on must not be replaced.
Under == {"populate", "copy", "aside", "swap", "meta"}

CompiledTyped ==
  /\ package \in 1 .. Packages /\ final \in Nat /\ meta \in 0 .. package
  /\ DOMAIN at = Loaders /\ compiled \in [Loaders -> Nat]

\* Who is to write a model compiled it from the package; where the key is that of the
\* package, or about to be, there is no model of anything else.
CompiledFromPackage ==
  ~crossed =>
    /\ \A p \in Loaders : at[p] \in Under => compiled[p] = package
    /\ (meta = package \/ \E p \in Loaders : at[p] = "meta") => final \in {0, package, TornModel}

CompiledInv == CompiledTyped /\ CompiledFromPackage

LEMMA CompiledStep ==
  ASSUME CompiledInv, CompiledNext
  PROVE  CompiledInv'
<1> USE CompiledAssumption DEF CompiledInv, CompiledTyped, CompiledFromPackage, Goes
<1>1. CASE Install
  <2>1. /\ package < Packages /\ package' = package + 1
        /\ UNCHANGED <<final, meta, at, compiled>>
        /\ ~crossed' => ~crossed /\ \A p \in Loaders : at[p] \notin Under
    BY <1>1 DEF Install, Under
  <2>2. CompiledTyped'
    BY <2>1
  <2>3. meta' # package' /\ (~crossed' => \A p \in Loaders : at'[p] # "meta")
    BY <2>1 DEF Under
  <2> QED BY <2>1, <2>2, <2>3
<1>2. ASSUME NEW p \in Loaders, LookCompiled(p) \/ OpenCompiled(p) \/ LoadTemp(p) \/ LoaderKilled(p)
      PROVE  CompiledInv'
  BY <1>2 DEF LookCompiled, OpenCompiled, LoadTemp, LoaderKilled, Under
<1>3. ASSUME NEW p \in Loaders, Compile(p) \/ Sweep(p) \/ CopyModel(p)
      PROVE  CompiledInv'
  BY <1>3 DEF Compile, Sweep, SweepDirs, CopyModel, GiveUp, Under
<1>4. ASSUME NEW p \in Loaders, Aside(p)
      PROVE  CompiledInv'
  BY <1>4 DEF Aside, GiveUp, Under
<1>5. ASSUME NEW p \in Loaders, SwapIn(p)
      PROVE  CompiledInv'
  BY <1>5 DEF SwapIn, GiveUp, Under, TornModel
<1>6. ASSUME NEW p \in Loaders, WriteMeta(p)
      PROVE  CompiledInv'
  BY <1>6 DEF WriteMeta, Under
<1> QED BY <1>1, <1>2, <1>3, <1>4, <1>5, <1>6 DEF CompiledNext

LEMMA CompiledHolds == CompiledSpec => []CompiledHitIsCurrent
<1>1. CompiledInit => CompiledInv
  BY CompiledAssumption
     DEF CompiledInit, CompiledInv, CompiledTyped, CompiledFromPackage, Under, TornModel
<1>2. CompiledInv /\ [CompiledNext]_compiledVars => CompiledInv'
  <2> SUFFICES ASSUME CompiledInv, [CompiledNext]_compiledVars PROVE CompiledInv'
    OBVIOUS
  <2>1. CASE UNCHANGED compiledVars
    BY <2>1 DEF compiledVars, CompiledInv, CompiledTyped, CompiledFromPackage
  <2> QED BY <2>1, CompiledStep
<1>3. CompiledInv => CompiledHitIsCurrent
  BY CompiledAssumption
     DEF CompiledInv, CompiledTyped, CompiledFromPackage, CompiledHitIsCurrent, Readable,
         TornModel
<1> QED BY <1>1, <1>2, <1>3, PTL DEF CompiledSpec

-----------------------------------------------------------------------------
(* The loading of engines and the cache of optimized graphs.               *)

\* No staging file is in use.
Idling == {"none", "start", "look", "open", "stage", "parts", "done", "failed"}

\* What the step of a triplet says of the digest of its load, of its staging file and
\* of its session.
Tidy(at_, hash, file, graph) ==
  /\ at_ \in Idling => file = 0
  /\ at_ = "open" => hash # 0
  /\ at_ = "commit" => file = 0 \/ hash # 0
  /\ at_ = "rehash" => hash # 0 /\ file \in hash .. encoder
  /\ at_ = "publish" => hash # 0 /\ file = hash
  /\ at_ \in {"rehash", "publish", "parts", "done"} => graph >= hash

LoadTyped ==
  /\ encoder \in 1 .. Contents /\ entry \in [1 .. Contents -> Nat] /\ ask \in Asks
  /\ DOMAIN phase = Loads /\ digest \in [Loads -> Nat] /\ \A e \in Loads : digest[e] <= encoder
  /\ DOMAIN thread = Loads /\ DOMAIN staging = Loads /\ DOMAIN session = Loads
  /\ \A e \in Loads : /\ DOMAIN thread[e] = Triplets(e) /\ DOMAIN staging[e] = Triplets(e)
                      /\ DOMAIN session[e] = Triplets(e)
                      /\ \A i \in Triplets(e) : staging[e][i] \in Nat /\ session[e][i] \in Nat

TripletsAreTidy ==
  \A e \in Loads : \A i \in Triplets(e) :
    /\ Tidy(thread[e][i], digest[e], staging[e][i], session[e][i])
    /\ phase[e] = "off" => thread[e][i] = "none"
    /\ phase[e] = "probe" => thread[e][i] \in {"done", "failed"}

LoadInv == LoadTyped /\ EntryIsOfItsDigest /\ TripletsAreTidy

\* g is f but for one field of one row.
Sets(f, g, e, i, v) ==
  /\ DOMAIN g = DOMAIN f
  /\ \A x \in DOMAIN f : /\ DOMAIN g[x] = DOMAIN f[x]
                         /\ \A j \in DOMAIN f[x] : g[x][j] = IF x = e /\ j = i THEN v ELSE f[x][j]

LEMMA SetsOne ==
  ASSUME NEW f, NEW e \in DOMAIN f, NEW i \in DOMAIN f[e], NEW v
  PROVE  Sets(f, [f EXCEPT ![e][i] = v], e, i, v) /\ Sets(f, f, e, i, f[e][i])
BY DEF Sets

\* One thread goes on, and leaves its triplet tidy.
LEMMA ThreadStep ==
  ASSUME LoadInv, NEW e \in Loads, NEW i \in Triplets(e), NEW at_,
         NEW file \in Nat, NEW graph \in Nat,
         UNCHANGED <<encoder, ask, phase, digest>>,
         entry' \in [1 .. Contents -> Nat], EntryIsOfItsDigest',
         thread[e][i] \notin {"none", "done", "failed"},
         Sets(thread, thread', e, i, at_), Sets(staging, staging', e, i, file),
         Sets(session, session', e, i, graph),
         Tidy(at_, digest[e], file, graph)
  PROVE  LoadInv'
<1>1. \A x \in Loads : Triplets(x)' = Triplets(x)
  BY DEF Triplets
<1>2. LoadTyped'
  BY SMTT(30), <1>1 DEF LoadInv, LoadTyped, Sets
<1>3. TripletsAreTidy'
  <2> SUFFICES ASSUME NEW x \in Loads, NEW j \in Triplets(x)
               PROVE  (/\ Tidy(thread[x][j], digest[x], staging[x][j], session[x][j])
                       /\ phase[x] = "off" => thread[x][j] = "none"
                       /\ phase[x] = "probe" => thread[x][j] \in {"done", "failed"})'
    BY <1>1 DEF TripletsAreTidy
  <2>1. /\ thread'[x][j] = IF x = e /\ j = i THEN at_ ELSE thread[x][j]
        /\ staging'[x][j] = IF x = e /\ j = i THEN file ELSE staging[x][j]
        /\ session'[x][j] = IF x = e /\ j = i THEN graph ELSE session[x][j]
    BY DEF LoadInv, LoadTyped, Sets
  <2>2. /\ Tidy(thread[x][j], digest[x], staging[x][j], session[x][j])
        /\ phase[x] = "off" => thread[x][j] = "none"
        /\ phase[x] = "probe" => thread[x][j] \in {"done", "failed"}
    BY DEF LoadInv, TripletsAreTidy
  <2>3. CASE x = e /\ j = i
    BY <2>1, <2>2, <2>3 DEF Tidy
  <2>4. CASE ~(x = e /\ j = i)
    BY <2>1, <2>2, <2>4 DEF Tidy
  <2> QED BY <2>3, <2>4
<1> QED BY <1>2, <1>3 DEF LoadInv

\* A step of a load that begins with all its threads idle: none, done or failed.
LEMMA SpawnInv ==
  ASSUME LoadInv, NEW e \in Loads,
         \A i \in Triplets(e) : thread[e][i] \in {"none", "done", "failed"},
         UNCHANGED <<encoder, entry, ask, session, staging>>,
         digest' \in [Loads -> Nat], digest'[e] <= encoder,
         \A x \in Loads \ {e} : digest'[x] = digest[x],
         Spawn(e)
  PROVE  LoadInv'
<1>1. \A x \in Loads : Triplets(x)' = Triplets(x)
  BY DEF Triplets
<1>2. /\ DOMAIN phase' = Loads /\ DOMAIN thread' = Loads
      /\ phase'[e] = "triplets" /\ DOMAIN thread'[e] = Triplets(e)
      /\ \A i \in Triplets(e) : thread'[e][i] = "start"
      /\ \A x \in Loads \ {e} : phase'[x] = phase[x] /\ thread'[x] = thread[x]
  BY DEF Spawn, LoadInv, LoadTyped
<1>3. LoadTyped'
  <2>1. \A x \in Loads : DOMAIN thread'[x] = Triplets(x)
    BY ZenonT(60), <1>2 DEF LoadInv, LoadTyped
  <2>2. \A x \in Loads : digest'[x] <= encoder
    BY DEF LoadInv, LoadTyped
  <2> QED BY <1>1, <1>2, <2>1, <2>2 DEF LoadInv, LoadTyped
<1>4. EntryIsOfItsDigest'
  BY DEF LoadInv, EntryIsOfItsDigest
<1>5. TripletsAreTidy'
  <2> SUFFICES ASSUME NEW x \in Loads, NEW j \in Triplets(x)
               PROVE  (/\ Tidy(thread[x][j], digest[x], staging[x][j], session[x][j])
                       /\ phase[x] = "off" => thread[x][j] = "none"
                       /\ phase[x] = "probe" => thread[x][j] \in {"done", "failed"})'
    BY <1>1 DEF TripletsAreTidy
  <2>1. /\ Tidy(thread[x][j], digest[x], staging[x][j], session[x][j])
        /\ phase[x] = "off" => thread[x][j] = "none"
        /\ phase[x] = "probe" => thread[x][j] \in {"done", "failed"}
    BY DEF LoadInv, TripletsAreTidy
  <2>2. CASE x = e
    BY <1>2, <2>1, <2>2 DEF Tidy, Idling
  <2>3. CASE x # e
    BY <1>2, <2>1, <2>3 DEF Tidy
  <2> QED BY <2>2, <2>3
<1> QED BY <1>3, <1>4, <1>5 DEF LoadInv

\* A load goes on and its threads stay as they are.
LEMMA PhaseInv ==
  ASSUME LoadInv, NEW e \in Loads, NEW next \in {"probe", "ready", "error"},
         phase' = [phase EXCEPT ![e] = next],
         next = "probe" => \A i \in Triplets(e) : thread[e][i] \in {"done", "failed"},
         UNCHANGED <<encoder, entry, ask, digest, thread, session, staging>>
  PROVE  LoadInv'
<1>1. \A x \in Loads : Triplets(x)' = Triplets(x)
  BY DEF Triplets
<1>2. LoadTyped'
  BY <1>1 DEF LoadInv, LoadTyped
<1>3. EntryIsOfItsDigest'
  BY DEF LoadInv, EntryIsOfItsDigest
<1>4. TripletsAreTidy'
  BY <1>1 DEF LoadInv, LoadTyped, TripletsAreTidy, Tidy
<1> QED BY <1>2, <1>3, <1>4 DEF LoadInv

LEMMA LoadStepsInv ==
  ASSUME LoadInv, NEW e \in DOMAIN ask, Digest(e) \/ Collect(e) \/ Probe(e) \/ LoadKilled(e)
  PROVE  LoadInv'
<1>1. e \in Loads
  BY LoadAssumption DEF LoadInv, LoadTyped
<1>2. CASE Digest(e)
  <2>1. \A i \in Triplets(e) : thread[e][i] = "none"
    BY <1>1, <1>2 DEF Digest, LoadInv, TripletsAreTidy
  <2>2. PICK d \in {encoder, 0} : digest' = [digest EXCEPT ![e] = d]
    BY <1>2 DEF Digest
  <2>3. encoder \in Nat /\ d \in Nat /\ d <= encoder
    BY DEF LoadInv, LoadTyped
  <2>4. digest' \in [Loads -> Nat] /\ digest'[e] <= encoder
        /\ \A x \in Loads \ {e} : digest'[x] = digest[x]
    BY <1>1, <2>2, <2>3 DEF LoadInv, LoadTyped
  <2> QED BY <1>1, <1>2, <2>1, <2>4, SpawnInv DEF Digest
<1>3. digest \in [Loads -> Nat] /\ digest[e] <= encoder
  BY <1>1 DEF LoadInv, LoadTyped
<1>4. CASE Collect(e)
  <2>1. \A i \in Triplets(e) : thread[e][i] \in {"done", "failed"}
    BY <1>4 DEF Collect
  <2>2. CASE FallBack(e)
    BY <1>1, <1>3, <1>4, <2>1, <2>2, SpawnInv DEF Collect, FallBack
  <2>3. CASE /\ \E next \in {"probe", "ready", "error"} : phase' = [phase EXCEPT ![e] = next]
             /\ UNCHANGED thread
    BY <1>1, <1>4, <2>1, <2>3, PhaseInv DEF Collect
  <2> QED BY <1>4, <2>2, <2>3 DEF Collect
<1>5. CASE Probe(e)
  <2>1. \A i \in Triplets(e) : thread[e][i] \in {"done", "failed"}
    BY <1>1, <1>5 DEF Probe, LoadInv, TripletsAreTidy
  <2>2. CASE FallBack(e)
    BY <1>1, <1>3, <1>5, <2>1, <2>2, SpawnInv DEF Probe, FallBack
  <2>3. CASE /\ \E next \in {"ready", "error"} : phase' = [phase EXCEPT ![e] = next]
             /\ UNCHANGED thread
    BY <1>1, <1>5, <2>3, PhaseInv DEF Probe
  <2> QED BY <1>5, <2>2, <2>3 DEF Probe
<1>6. CASE LoadKilled(e)
  <2>1. \A x \in Loads : Triplets(x)' = Triplets(x)
    BY <1>6 DEF LoadKilled, Triplets
  <2>2. /\ UNCHANGED <<encoder, entry, ask>>
        /\ phase' = [phase EXCEPT ![e] = "killed"] /\ digest' = [digest EXCEPT ![e] = 0]
        /\ thread' = [thread EXCEPT ![e] = [i \in Triplets(e) |-> "none"]]
        /\ session' = [session EXCEPT ![e] = [i \in Triplets(e) |-> 0]]
        /\ staging' = [staging EXCEPT ![e] = [i \in Triplets(e) |-> 0]]
    BY <1>6 DEF LoadKilled
  <2>3. /\ DOMAIN phase' = Loads /\ DOMAIN thread' = Loads /\ DOMAIN session' = Loads
        /\ DOMAIN staging' = Loads /\ digest' \in [Loads -> Nat]
        /\ phase'[e] = "killed" /\ digest'[e] = 0
        /\ DOMAIN thread'[e] = Triplets(e) /\ DOMAIN session'[e] = Triplets(e)
        /\ DOMAIN staging'[e] = Triplets(e)
        /\ \A i \in Triplets(e) : thread'[e][i] = "none" /\ session'[e][i] = 0 /\ staging'[e][i] = 0
        /\ \A x \in Loads \ {e} : /\ phase'[x] = phase[x] /\ digest'[x] = digest[x]
                                  /\ thread'[x] = thread[x] /\ session'[x] = session[x]
                                  /\ staging'[x] = staging[x]
    BY <1>1, <2>2 DEF LoadInv, LoadTyped
  <2>4. LoadTyped'
    BY <2>1, <2>2, <2>3 DEF LoadInv, LoadTyped
  <2>5. EntryIsOfItsDigest'
    BY <2>2 DEF LoadInv, EntryIsOfItsDigest
  <2>6. TripletsAreTidy'
    BY <2>1, <2>2, <2>3 DEF LoadInv, LoadTyped, TripletsAreTidy, Tidy, Idling
  <2> QED BY <2>4, <2>5, <2>6 DEF LoadInv
<1> QED BY <1>2, <1>4, <1>5, <1>6

LEMMA ThreadInv ==
  ASSUME LoadInv, NEW e \in DOMAIN ask, NEW i \in Triplets(e),
         Gate(e, i) \/ Look(e, i) \/ OpenEntry(e, i) \/ StageFile(e, i) \/ Commit(e, i)
           \/ CommitAgain(e, i) \/ Rehash(e, i) \/ PublishEntry(e, i) \/ Parts(e, i)
  PROVE  LoadInv'
<1> DEFINE at_ == thread[e][i]
           file == staging[e][i]
           graph == session[e][i]
<1>1. e \in Loads
  BY LoadAssumption DEF LoadInv, LoadTyped
<1>2. /\ UNCHANGED <<encoder, ask, phase, digest>>
      /\ at_ \notin {"none", "done", "failed"}
  BY DEF Gate, Look, OpenEntry, StageFile, Commit, CommitAgain, Rehash, PublishEntry, Parts
<1>3. /\ \A v : Sets(thread, [thread EXCEPT ![e][i] = v], e, i, v)
      /\ \A v : Sets(staging, [staging EXCEPT ![e][i] = v], e, i, v)
      /\ \A v : Sets(session, [session EXCEPT ![e][i] = v], e, i, v)
      /\ Sets(staging, staging, e, i, file) /\ Sets(session, session, e, i, graph)
  BY <1>1, SetsOne DEF LoadInv, LoadTyped
<1>4. /\ file \in Nat /\ graph \in Nat /\ encoder \in 1 .. Contents /\ encoder \in Nat
      /\ Contents \in Nat
      /\ digest[e] \in Nat /\ digest[e] <= encoder /\ entry \in [1 .. Contents -> Nat]
      /\ EntryIsOfItsDigest /\ Tidy(at_, digest[e], file, graph)
  BY <1>1, LoadAssumption DEF LoadInv, LoadTyped, TripletsAreTidy
<1>5. UNCHANGED entry => entry' \in [1 .. Contents -> Nat] /\ EntryIsOfItsDigest'
  BY <1>4 DEF EntryIsOfItsDigest
<1> HIDE DEF at_, file, graph
<1>6. ASSUME NEW step_, NEW file_ \in Nat, NEW graph_ \in Nat,
             thread' = [thread EXCEPT ![e][i] = step_],
             staging' = [staging EXCEPT ![e][i] = file_] \/ (UNCHANGED staging /\ file_ = file),
             session' = [session EXCEPT ![e][i] = graph_] \/ (UNCHANGED session /\ graph_ = graph),
             entry' \in [1 .. Contents -> Nat], EntryIsOfItsDigest',
             Tidy(step_, digest[e], file_, graph_)
      PROVE  LoadInv'
  <2>1. Sets(thread, thread', e, i, step_)
    BY <1>3, <1>6
  <2>2. Sets(staging, staging', e, i, file_)
    BY <1>3, <1>6
  <2>3. Sets(session, session', e, i, graph_)
    BY <1>3, <1>6
  <2> QED BY <1>1, <1>2, <1>6, <2>1, <2>2, <2>3, ThreadStep DEF at_
<1>7. CASE Gate(e, i)
  <2>1. /\ at_ = "start" /\ UNCHANGED <<entry, staging, session>>
        /\ \E s \in {"look", "commit"} : thread' = [thread EXCEPT ![e][i] = s]
    BY <1>7 DEF Gate, Move, at_
  <2>2. file = 0
    BY <1>4, <2>1 DEF Tidy, Idling
  <2>3. \A s \in {"look", "commit"} : Tidy(s, digest[e], file, graph)
    BY <2>2 DEF Tidy, Idling
  <2> QED BY <1>4, <1>5, <1>6, <2>1, <2>3
<1>8. CASE Look(e, i)
  <2>1. /\ at_ = "look" /\ UNCHANGED <<entry, staging, session>>
        /\ \E s \in {"open", "stage"} : /\ thread' = [thread EXCEPT ![e][i] = s]
                                        /\ s = "open" => digest[e] # 0
    BY <1>8 DEF Look, Move, Key, at_
  <2>2. file = 0
    BY <1>4, <2>1 DEF Tidy, Idling
  <2>3. \A s \in {"open", "stage"} :
          (s = "open" => digest[e] # 0) => Tidy(s, digest[e], file, graph)
    BY <2>2 DEF Tidy, Idling
  <2> QED BY <1>4, <1>5, <1>6, <2>1, <2>3
<1>9. CASE OpenEntry(e, i)
  <2>1. at_ = "open" /\ UNCHANGED entry
    BY <1>9 DEF OpenEntry, at_
  <2>2. file = 0 /\ digest[e] # 0
    BY <1>4, <2>1 DEF Tidy, Idling
  <2>3. CASE entry[Key(e)] \in 1 .. Contents
    <3>1. /\ session' = [session EXCEPT ![e][i] = entry[digest[e]]]
          /\ thread' = [thread EXCEPT ![e][i] = "parts"]
          /\ staging' = [staging EXCEPT ![e][i] = 0]
      BY <1>9, <2>3 DEF OpenEntry, Have, Move, Stage, Key
    <3>2. digest[e] \in 1 .. Contents
      BY <1>4, <2>2
    <3>3. entry[digest[e]] = digest[e]
      BY <1>4, <2>3, <3>2 DEF EntryIsOfItsDigest, Key, Torn
    <3>4. Tidy("parts", digest[e], 0, digest[e])
      BY <1>4 DEF Tidy, Idling
    <3> QED BY <1>4, <1>5, <1>6, <2>1, <3>1, <3>3, <3>4
  <2>4. CASE entry[Key(e)] \notin 1 .. Contents
    <3>1. UNCHANGED <<staging, session>> /\ thread' = [thread EXCEPT ![e][i] = "stage"]
      BY <1>9, <2>4 DEF OpenEntry, Move
    <3>2. Tidy("stage", digest[e], file, graph)
      BY <2>2 DEF Tidy, Idling
    <3> QED BY <1>4, <1>5, <1>6, <2>1, <3>1, <3>2
  <2> QED BY <2>3, <2>4
<1>10. CASE StageFile(e, i)
  <2>1. /\ at_ = "stage" /\ UNCHANGED <<entry, session>>
        /\ thread' = [thread EXCEPT ![e][i] = "commit"]
        /\ \/ digest[e] # 0 /\ staging' = [staging EXCEPT ![e][i] = Torn]
           \/ UNCHANGED staging
    BY <1>10 DEF StageFile, Move, Stage, Key, at_
  <2>2. file = 0 /\ Torn \in Nat
    BY <1>4, <2>1 DEF Tidy, Idling, Torn
  <2>3. /\ digest[e] # 0 => Tidy("commit", digest[e], Torn, graph)
        /\ Tidy("commit", digest[e], file, graph)
    BY <2>2 DEF Tidy, Idling
  <2> QED BY <1>4, <1>5, <1>6, <2>1, <2>2, <2>3
<1>11. CASE Commit(e, i)
  <2>1. at_ = "commit" /\ UNCHANGED entry
    BY <1>11 DEF Commit, at_
  <2>2. file = 0 \/ digest[e] # 0
    BY <1>4, <2>1 DEF Tidy
  <2>3. CASE /\ session' = [session EXCEPT ![e][i] = encoder]
             /\ thread' = [thread EXCEPT ![e][i] = "parts"]
             /\ staging' = [staging EXCEPT ![e][i] = 0]
    <3>1. Tidy("parts", digest[e], 0, encoder)
      BY <1>4 DEF Tidy, Idling
    <3> QED BY <1>4, <1>5, <1>6, <2>1, <2>3, <3>1
  <2>4. CASE /\ file # 0 /\ session' = [session EXCEPT ![e][i] = encoder]
             /\ thread' = [thread EXCEPT ![e][i] = "rehash"]
             /\ staging' = [staging EXCEPT ![e][i] = encoder]
    <3>1. Tidy("rehash", digest[e], encoder, encoder)
      BY <1>4, <2>2, <2>4 DEF Tidy, Idling
    <3> QED BY <1>4, <1>5, <1>6, <2>1, <2>4, <3>1
  <2>5. CASE thread' = [thread EXCEPT ![e][i] = "again"] /\ UNCHANGED <<staging, session>>
    <3>1. Tidy("again", digest[e], file, graph)
      BY DEF Tidy, Idling
    <3> QED BY <1>4, <1>5, <1>6, <2>1, <2>5, <3>1
  <2>6. CASE /\ thread' = [thread EXCEPT ![e][i] = "failed"] /\ UNCHANGED session
             /\ staging' = [staging EXCEPT ![e][i] = 0]
    <3>1. Tidy("failed", digest[e], 0, graph)
      BY DEF Tidy, Idling
    <3> QED BY <1>4, <1>5, <1>6, <2>1, <2>6, <3>1
  <2> QED BY <1>11, <2>3, <2>4, <2>5, <2>6 DEF Commit, Have, Broken, Move, Stage, file
<1>12. CASE CommitAgain(e, i)
  <2>1. UNCHANGED entry
    BY <1>12 DEF CommitAgain
  <2>2. CASE /\ session' = [session EXCEPT ![e][i] = encoder]
             /\ thread' = [thread EXCEPT ![e][i] = "parts"]
             /\ staging' = [staging EXCEPT ![e][i] = 0]
    <3>1. Tidy("parts", digest[e], 0, encoder)
      BY <1>4 DEF Tidy, Idling
    <3> QED BY <1>4, <1>5, <1>6, <2>1, <2>2, <3>1
  <2>3. CASE /\ thread' = [thread EXCEPT ![e][i] = "failed"] /\ UNCHANGED session
             /\ staging' = [staging EXCEPT ![e][i] = 0]
    <3>1. Tidy("failed", digest[e], 0, graph)
      BY DEF Tidy, Idling
    <3> QED BY <1>4, <1>5, <1>6, <2>1, <2>3, <3>1
  <2> QED BY <1>12, <2>2, <2>3 DEF CommitAgain, Have, Broken, Move, Stage
<1>13. ASSUME at_ \in {"rehash", "publish"}, entry' \in [1 .. Contents -> Nat], EntryIsOfItsDigest',
              Have(e, i, session[e][i])
       PROVE  LoadInv'
  <2>1. graph >= digest[e]
    BY <1>4, <1>13 DEF Tidy
  <2>2. Tidy("parts", digest[e], 0, graph)
    BY <2>1 DEF Tidy, Idling
  <2>3. /\ session' = [session EXCEPT ![e][i] = graph]
        /\ thread' = [thread EXCEPT ![e][i] = "parts"]
        /\ staging' = [staging EXCEPT ![e][i] = 0]
    BY <1>13 DEF Have, Move, Stage, graph
  <2> QED BY <1>4, <1>6, <1>13, <2>2, <2>3
<1>14. CASE Rehash(e, i)
  <2>1. at_ = "rehash" /\ UNCHANGED entry
    BY <1>14 DEF Rehash, at_
  <2>2. CASE StillSource(e)
    <3>1. thread' = [thread EXCEPT ![e][i] = "publish"] /\ UNCHANGED <<staging, session>>
      BY <1>14, <2>2 DEF Rehash, Move
    <3>2. Tidy("publish", digest[e], file, graph)
      BY <1>4, <2>1, <2>2 DEF Tidy, Idling, StillSource
    <3> QED BY <1>4, <1>5, <1>6, <2>1, <3>1, <3>2
  <2>3. CASE ~StillSource(e)
    BY <1>5, <1>13, <1>14, <2>1, <2>3 DEF Rehash
  <2> QED BY <2>2, <2>3
<1>15. CASE PublishEntry(e, i)
  <2>1. at_ = "publish" /\ Have(e, i, session[e][i])
        /\ (entry' = [entry EXCEPT ![digest[e]] = file] \/ UNCHANGED entry)
    BY <1>15 DEF PublishEntry, Key, at_, file
  <2>2. digest[e] \in 1 .. Contents /\ file = digest[e]
    BY <1>4, <2>1 DEF Tidy
  <2>3. entry' \in [1 .. Contents -> Nat] /\ EntryIsOfItsDigest'
    BY <1>4, <1>5, <2>1, <2>2 DEF EntryIsOfItsDigest
  <2> QED BY <1>13, <2>1, <2>3
<1>16. CASE Parts(e, i)
  <2>1. at_ = "parts" /\ UNCHANGED <<entry, session>>
    BY <1>16 DEF Parts, at_
  <2>2. file = 0 /\ graph >= digest[e]
    BY <1>4, <2>1 DEF Tidy, Idling
  <2>3. /\ Tidy("done", digest[e], file, graph) /\ Tidy("failed", digest[e], 0, graph)
    BY <2>2 DEF Tidy, Idling
  <2>4. \/ thread' = [thread EXCEPT ![e][i] = "done"] /\ UNCHANGED staging
        \/ thread' = [thread EXCEPT ![e][i] = "failed"] /\ staging' = [staging EXCEPT ![e][i] = 0]
    BY <1>16 DEF Parts, Broken, Move, Stage
  <2> QED BY <1>4, <1>5, <1>6, <2>1, <2>3, <2>4
<1> QED BY <1>7, <1>8, <1>9, <1>10, <1>11, <1>12, <1>14, <1>15, <1>16

LEMMA ReplaceInv ==
  ASSUME LoadInv, Replace \/ Prune
  PROVE  LoadInv'
<1>1. UNCHANGED <<ask, phase, digest, thread, session, staging>>
      /\ \A x \in Loads : Triplets(x)' = Triplets(x)
  BY DEF Replace, Prune, Triplets
<1>2. /\ encoder' \in 1 .. Contents /\ encoder <= encoder' /\ encoder \in Nat
      /\ entry' \in [1 .. Contents -> Nat] /\ EntryIsOfItsDigest'
  BY LoadAssumption DEF Replace, Prune, LoadInv, LoadTyped, EntryIsOfItsDigest
<1>3. LoadTyped'
  BY <1>1, <1>2 DEF LoadInv, LoadTyped
<1>4. TripletsAreTidy'
  BY <1>1, <1>2 DEF LoadInv, LoadTyped, TripletsAreTidy, Tidy
<1> QED BY <1>2, <1>3, <1>4 DEF LoadInv

LEMMA LoadHolds == LoadSpec => []CacheIsOfItsEncoder
<1>1. LoadInit => LoadInv
  <2> SUFFICES ASSUME LoadInit PROVE LoadInv
    OBVIOUS
  <2>1. LoadTyped
    BY LoadAssumption DEF LoadInit, LoadTyped, Torn
  <2>2. EntryIsOfItsDigest
    BY LoadAssumption DEF LoadInit, EntryIsOfItsDigest, Torn
  <2>3. TripletsAreTidy
    BY DEF LoadInit, TripletsAreTidy, Tidy, Idling
  <2> QED BY <2>1, <2>2, <2>3 DEF LoadInv
<1>2. LoadInv /\ [LoadNext]_loadVars => LoadInv'
  <2> SUFFICES ASSUME LoadInv, [LoadNext]_loadVars PROVE LoadInv'
    OBVIOUS
  <2>1. CASE UNCHANGED loadVars
    BY <2>1 DEF loadVars, LoadInv, LoadTyped, EntryIsOfItsDigest, TripletsAreTidy, Tidy, Triplets
  <2>2. CASE LoadNext
    BY <2>2, LoadStepsInv, ThreadInv, ReplaceInv DEF LoadNext
  <2> QED BY <2>1, <2>2
<1>3. LoadInv => CacheIsOfItsEncoder
  BY DEF LoadInv, TripletsAreTidy, Tidy, CacheIsOfItsEncoder, NeverAnOlderEncoder, Loaded
<1> QED BY <1>1, <1>2, <1>3, PTL DEF LoadSpec

\* For any loads, processes and contents: a graph in the cache is of its digest, no engine
\* runs an older encoder than it verified, and a compiled model with the key of the
\* package was compiled from it (load_session_with_model_hash, populate_cache).
THEOREM CachesHold == LoadSpec /\ CompiledSpec => []CachesAreCurrent
BY LoadHolds, CompiledHolds, PTL DEF CachesAreCurrent

------------------------------------------------------------------------------
(* The bindings.                                                           *)

\* A call of engine e works with its triplet t; stream s of the engine owns it.
WorksWith(h, e, t) ==
  call[h] # Idle /\ call[h].op \in {"file", "open"} /\ call[h].on = e /\ call[h].triplet = t
Keeps(s, e, t) == kind[s] = "stream" /\ owner[s] = e /\ owns[s] = t

HandlesTyped ==
  /\ DOMAIN kind = Id /\ \A i \in Id : kind[i] \in {"none", "engine", "stream"}
  /\ held \subseteq Id
  /\ DOMAIN call = Hosts /\ \A h \in Hosts : call[h] = Idle \/ call[h] \in Calls
  /\ DOMAIN idle = Id /\ \A i \in Id : idle[i] \subseteq 1 .. PoolSize
  /\ DOMAIN owner = Id /\ DOMAIN owns = Id /\ \A i \in Id : owns[i] \in 0 .. PoolSize
  /\ DOMAIN locked = Id

\* What a call is on is there, and its triplet is the one of its step.
CallIsProper(h) ==
  LET c == call[h] IN
  \/ /\ c.op \in {"file", "open"} /\ kind[c.on] = "engine"
     /\ IF c.triplet = 0 THEN c.at = "checkout"
        ELSE c.at = IF c.op = "file" THEN "decode" ELSE "insert"
  \/ /\ c.op \in {"chunk", "flush"} /\ kind[c.on] = "stream" /\ owns[c.on] # 0
     /\ \/ c.at = "lock" /\ c.triplet = 0
        \/ c.at = "decode" /\ locked[c.on] /\ c.triplet = owns[c.on]

CallsAreProper == \A h \in Hosts : call[h] # Idle => CallIsProper(h)

\* The mutex of a stream.
OneInStream ==
  \A h, g \in Hosts :
    /\ call[h] # Idle /\ call[g] # Idle /\ call[h].on = call[g].on
    /\ call[h].op \in {"chunk", "flush"} /\ call[h].at = "decode" /\ call[g].at = "decode"
    => g = h

StreamsAreLive ==
  \A i \in Id : /\ kind[i] = "none" => i \notin held /\ owns[i] = 0
                /\ kind[i] = "stream" => /\ owner[i] \in Id /\ kind[owner[i]] = "engine"
                                         /\ i \in held => owns[i] # 0

\* Each triplet is in one place: the pool, a call, a stream.
SomeUser ==
  \A e \in Id, t \in 1 .. PoolSize : kind[e] = "engine" =>
    t \in idle[e] \/ (\E h \in Hosts : WorksWith(h, e, t)) \/ (\E s \in Id : Keeps(s, e, t))
OneUser ==
  \A e \in Id, t \in 1 .. PoolSize : kind[e] = "engine" =>
    /\ \A h \in Hosts : WorksWith(h, e, t) =>
         /\ t \notin idle[e] /\ \A s \in Id : ~Keeps(s, e, t)
         /\ \A g \in Hosts : WorksWith(g, e, t) => g = h
    /\ \A s \in Id : Keeps(s, e, t) => t \notin idle[e] /\ \A r \in Id : Keeps(r, e, t) => r = s

HandlesInv ==
  /\ HandlesTyped /\ CallsAreProper /\ OneInStream /\ StreamsAreLive /\ SomeUser /\ OneUser

LEMMA HandlesImply == HandlesInv => TripletHasOneUser
<1> SUFFICES ASSUME HandlesInv, NEW e \in Issued("engine")
             PROVE  /\ \A h \in Working(e) :
                         /\ call[h].triplet \notin idle[e]
                         /\ \A g \in Working(e) \ {h} : call[g].triplet # call[h].triplet
                    /\ idle[e] \cup {owns[s] : s \in OpenStreams(e)}
                         \cup {call[h].triplet : h \in Working(e)} = 1 .. PoolSize
  BY DEF TripletHasOneUser
<1>1. e \in Id /\ kind[e] = "engine"
  BY DEF Issued
<1>2. \A h \in Working(e) :
        /\ h \in Hosts /\ call[h] # Idle /\ call[h].triplet \in 1 .. PoolSize
        /\ \/ WorksWith(h, e, call[h].triplet)
           \/ /\ call[h].op \in {"chunk", "flush"} /\ call[h].at = "decode" /\ call[h].on \in Id
              /\ Keeps(call[h].on, e, call[h].triplet)
  <2> SUFFICES ASSUME NEW h \in Working(e)
               PROVE  /\ h \in Hosts /\ call[h] # Idle /\ call[h].triplet \in 1 .. PoolSize
                      /\ \/ WorksWith(h, e, call[h].triplet)
                         \/ /\ call[h].op \in {"chunk", "flush"} /\ call[h].at = "decode"
                            /\ call[h].on \in Id /\ Keeps(call[h].on, e, call[h].triplet)
    OBVIOUS
  <2>1. h \in Hosts /\ call[h] # Idle /\ call[h] \in Calls /\ call[h].triplet # 0
    BY DEF Working, HandlesInv, HandlesTyped
  <2>2. CallIsProper(h)
    BY <2>1 DEF HandlesInv, CallsAreProper
  <2> QED BY <1>1, <2>1, <2>2, BindingsAssumption DEF Calls, Working, CallIsProper, WorksWith, Keeps
<1>3. \A h \in Working(e) :
        /\ call[h].triplet \notin idle[e]
        /\ \A g \in Working(e) \ {h} : call[g].triplet # call[h].triplet
  <2>1. \A h \in Working(e) : call[h].triplet \notin idle[e]
    BY <1>1, <1>2 DEF HandlesInv, OneUser
  <2>2. ASSUME NEW h \in Working(e), NEW g \in Working(e), call[g].triplet = call[h].triplet
        PROVE  g = h
    <3>1. CASE WorksWith(h, e, call[h].triplet)
      BY <1>1, <1>2, <2>2, <3>1 DEF HandlesInv, OneUser
    <3>2. CASE WorksWith(g, e, call[g].triplet)
      BY <1>1, <1>2, <2>2, <3>2 DEF HandlesInv, OneUser
    <3>3. CASE ~WorksWith(h, e, call[h].triplet) /\ ~WorksWith(g, e, call[g].triplet)
      <4>1. call[h].on = call[g].on
        BY <1>1, <1>2, <2>2, <3>3 DEF HandlesInv, OneUser
      <4> QED BY <1>2, <3>3, <4>1 DEF HandlesInv, OneInStream
    <3> QED BY <3>1, <3>2, <3>3
  <2> QED BY <2>1, <2>2
<1>4. ASSUME NEW t \in 1 .. PoolSize
      PROVE  t \in idle[e] \cup {owns[s] : s \in OpenStreams(e)}
                     \cup {call[h].triplet : h \in Working(e)}
  <2>1. \A h \in Hosts : WorksWith(h, e, t) => h \in Working(e) /\ call[h].triplet = t
    BY BindingsAssumption DEF WorksWith, Working
  <2>2. \A s \in Id : Keeps(s, e, t) => s \in OpenStreams(e) /\ owns[s] = t
    BY BindingsAssumption DEF Keeps, OpenStreams, Issued
  <2> QED BY <1>1, <2>1, <2>2 DEF HandlesInv, SomeUser
<1>5. \A s \in OpenStreams(e) : owns[s] \in 1 .. PoolSize
  BY BindingsAssumption DEF HandlesInv, HandlesTyped, OpenStreams, Issued
<1> QED BY <1>1, <1>2, <1>3, <1>4, <1>5 DEF HandlesInv, HandlesTyped

\* Whatever is freed or returned, what nobody refers to any more gives its triplet back.
LEMMA DropsInv ==
  ASSUME HandlesInv, NEW ids \in SUBSET held, NEW calls, NEW e, NEW back,
         Drops(ids, calls, e, back), UNCHANGED <<kind, owner>>, DOMAIN locked' = Id,
         DOMAIN calls = Hosts, \A g \in Hosts : calls[g] = call[g] \/ calls[g] = Idle,
         \A g \in Hosts, x \in Id, t \in 1 .. PoolSize :
           calls[g] = Idle /\ WorksWith(g, x, t) => x = e /\ back = {t},
         back = {} \/ \E g \in Hosts, t \in 1 .. PoolSize :
                        calls[g] = Idle /\ WorksWith(g, e, t) /\ back = {t},
         \A g \in Hosts : calls[g] # Idle /\ call[g].op \in {"chunk", "flush"}
                            /\ call[g].at = "decode" => locked'[call[g].on]
  PROVE  HandlesInv'
<1> DEFINE dead == {s \in Issued("stream") : owns[s] # 0 /\ LastReference(s, ids, calls)}
<1>1. /\ held' = ids /\ call' = calls
      /\ owns' = [s \in Id |-> IF s \in dead THEN 0 ELSE owns[s]]
      /\ idle' = [i \in Id |-> idle[i] \cup {owns[s] : s \in {d \in dead : owner[d] = i}}
                                       \cup (IF i = e THEN back ELSE {})]
  BY DEF Drops
<1>2. \A s \in dead : /\ s \in Id /\ kind[s] = "stream" /\ owns[s] \in 1 .. PoolSize /\ s \notin ids
                      /\ \A h \in Hosts : calls[h] = Idle \/ calls[h].on # s
  BY BindingsAssumption DEF Issued, LastReference, HandlesInv, HandlesTyped
<1>3. \A s \in Id : s \in dead <=> /\ kind[s] = "stream" /\ owns[s] # 0 /\ s \notin ids
                                   /\ \A h \in Hosts : calls[h] = Idle \/ calls[h].on # s
  BY DEF Issued, LastReference
<1> HIDE DEF dead
<1>4. \A s \in Id, x \in Id, t \in 1 .. PoolSize :
        Keeps(s, x, t)' <=> Keeps(s, x, t) /\ s \notin dead
  BY <1>1, BindingsAssumption DEF Keeps
<1>5. \A h \in Hosts, x \in Id, t \in 1 .. PoolSize :
        WorksWith(h, x, t)' <=> WorksWith(h, x, t) /\ calls[h] # Idle
  BY <1>1 DEF WorksWith
<1>6. \A x \in Id, t \in 1 .. PoolSize :
        t \in idle'[x] <=> \/ t \in idle[x]
                           \/ \E s \in Id : s \in dead /\ Keeps(s, x, t)
                           \/ \E h \in Hosts : calls[h] = Idle /\ WorksWith(h, x, t)
  <2> SUFFICES ASSUME NEW x \in Id, NEW t \in 1 .. PoolSize
               PROVE  t \in idle'[x] <=>
                        \/ t \in idle[x]
                        \/ \E s \in Id : s \in dead /\ Keeps(s, x, t)
                        \/ \E h \in Hosts : calls[h] = Idle /\ WorksWith(h, x, t)
    OBVIOUS
  <2>1. t \in {owns[s] : s \in {d \in dead : owner[d] = x}}
          <=> \E s \in Id : s \in dead /\ Keeps(s, x, t)
    BY <1>2 DEF Keeps
  <2>2. t \in (IF x = e THEN back ELSE {})
          <=> \E h \in Hosts : calls[h] = Idle /\ WorksWith(h, x, t)
    OBVIOUS
  <2> QED BY <1>1, <2>1, <2>2
<1>7. HandlesTyped'
  <2>1. \A x \in Id : idle'[x] \subseteq 1 .. PoolSize
    BY <1>1, <1>2 DEF HandlesInv, HandlesTyped
  <2> QED BY <1>1, <2>1, BindingsAssumption DEF HandlesInv, HandlesTyped
<1>8. CallsAreProper'
  <2> SUFFICES ASSUME NEW h \in Hosts, calls[h] # Idle PROVE CallIsProper(h)'
    BY <1>1 DEF CallsAreProper
  <2>1. calls[h] = call[h] /\ call[h] # Idle /\ call[h] \in Calls /\ CallIsProper(h)
    BY DEF HandlesInv, CallsAreProper, HandlesTyped
  <2>2. call[h].on \in Id /\ call[h].on \notin dead
    BY <1>3, <2>1 DEF Calls
  <2> QED BY <1>1, <2>1, <2>2 DEF CallIsProper
<1>9. OneInStream'
  BY <1>1 DEF HandlesInv, OneInStream
<1>10. StreamsAreLive'
  BY <1>1, <1>2, <1>3, BindingsAssumption DEF HandlesInv, HandlesTyped, StreamsAreLive
<1>11. SomeUser'
  BY <1>4, <1>5, <1>6 DEF HandlesInv, SomeUser
<1>12. OneUser'
  BY <1>4, <1>5, <1>6 DEF HandlesInv, OneUser
<1> QED BY <1>7, <1>8, <1>9, <1>10, <1>11, <1>12 DEF HandlesInv

LEMMA EnterInv ==
  ASSUME HandlesInv, NEW h \in Hosts, NEW i \in Id, OnEngine(h, i) \/ OnStream(h, i)
  PROVE  HandlesInv'
<1>1. PICK op \in {"file", "open", "chunk", "flush"}, where \in {"checkout", "lock"} :
        /\ Enter(h, op, where, i)
        /\ \/ op \in {"file", "open"} /\ where = "checkout" /\ kind[i] = "engine"
           \/ op \in {"chunk", "flush"} /\ where = "lock" /\ kind[i] = "stream"
  BY DEF OnEngine, OnStream, Issued
<1>2. /\ UNCHANGED <<kind, held, idle, owner, owns, locked>> /\ call[h] = Idle /\ i \in held
      /\ call' = [call EXCEPT ![h] = [op |-> op, at |-> where, on |-> i, triplet |-> 0]]
  BY <1>1 DEF Enter
<1>3. /\ DOMAIN call' = Hosts /\ \A g \in Hosts \ {h} : call'[g] = call[g]
      /\ call'[h].op = op /\ call'[h].at = where /\ call'[h].on = i /\ call'[h].triplet = 0
      /\ call'[h] \in Calls
  BY <1>2, BindingsAssumption DEF HandlesInv, HandlesTyped, Calls
<1>4. \A g \in Hosts, x \in Id, t \in 1 .. PoolSize : WorksWith(g, x, t)' <=> WorksWith(g, x, t)
  BY <1>2, <1>3, BindingsAssumption DEF WorksWith
<1>5. \A s \in Id, x \in Id, t \in 1 .. PoolSize : Keeps(s, x, t)' <=> Keeps(s, x, t)
  BY <1>2 DEF Keeps
<1>6. HandlesTyped'
  BY <1>2, <1>3 DEF HandlesInv, HandlesTyped
<1>7. CallsAreProper'
  <2>1. \A g \in Hosts \ {h} : call[g] # Idle => CallIsProper(g)'
    BY <1>2, <1>3 DEF HandlesInv, CallsAreProper, CallIsProper
  <2>2. CallIsProper(h)'
    BY <1>1, <1>2, <1>3 DEF HandlesInv, StreamsAreLive, CallIsProper
  <2> QED BY <1>3, <2>1, <2>2 DEF CallsAreProper
<1>8. OneInStream'
  BY <1>1, <1>2, <1>3 DEF HandlesInv, OneInStream
<1>9. StreamsAreLive'
  BY <1>2 DEF HandlesInv, StreamsAreLive
<1>10. SomeUser' /\ OneUser'
  BY <1>2, <1>4, <1>5 DEF HandlesInv, SomeUser, OneUser
<1> QED BY <1>6, <1>7, <1>8, <1>9, <1>10 DEF HandlesInv

LEMMA EngineNewInv ==
  ASSUME HandlesInv, NEW h \in Hosts, NEW i \in Id, EngineNew(h, i)
  PROVE  HandlesInv'
<1>1. /\ kind[i] = "none" /\ kind' = [kind EXCEPT ![i] = "engine"] /\ held' = held \cup {i}
      /\ idle' = [idle EXCEPT ![i] = 1 .. PoolSize] /\ UNCHANGED <<call, owner, owns, locked>>
  BY DEF EngineNew, NextId
<1>2. \A g \in Hosts : call[g] # Idle => call[g].on # i /\ call[g].on \in Id /\ CallIsProper(g)
  BY <1>1 DEF HandlesInv, HandlesTyped, CallsAreProper, CallIsProper, Calls
<1>3. \A s \in Id : kind[s] = "stream" => owner[s] # i /\ s # i
  BY <1>1 DEF HandlesInv, StreamsAreLive
<1>4. \A g \in Hosts, x \in Id, t \in 1 .. PoolSize :
        WorksWith(g, x, t)' <=> WorksWith(g, x, t) /\ x # i
  BY <1>1, <1>2 DEF WorksWith
<1>5. \A s \in Id, x \in Id, t \in 1 .. PoolSize : Keeps(s, x, t)' <=> Keeps(s, x, t) /\ x # i
  BY <1>1, <1>3 DEF HandlesInv, HandlesTyped, Keeps
<1>6. HandlesTyped'
  BY <1>1 DEF HandlesInv, HandlesTyped
<1>7. CallsAreProper'
  BY <1>1, <1>2 DEF HandlesInv, HandlesTyped, CallsAreProper, CallIsProper
<1>8. OneInStream'
  BY <1>1 DEF HandlesInv, OneInStream
<1>9. StreamsAreLive'
  BY <1>1, <1>3 DEF HandlesInv, HandlesTyped, StreamsAreLive
<1>10. SomeUser' /\ OneUser'
  BY <1>1, <1>4, <1>5 DEF HandlesInv, HandlesTyped, SomeUser, OneUser
<1> QED BY <1>6, <1>7, <1>8, <1>9, <1>10 DEF HandlesInv

LEMMA CheckoutInv ==
  ASSUME HandlesInv, NEW h \in Hosts, CheckoutBlocking(h)
  PROVE  HandlesInv'
<1>1. /\ call[h] # Idle /\ call[h].at = "checkout" /\ call[h] \in Calls /\ CallIsProper(h)
      /\ UNCHANGED <<kind, held, owner, owns, locked>>
  BY DEF CheckoutBlocking, HandlesInv, HandlesTyped, CallsAreProper
<1>2. PICK u \in idle[call[h].on] :
        /\ idle' = [idle EXCEPT ![call[h].on] = @ \ {u}]
        /\ call' = [call EXCEPT ![h].triplet = u,
                                ![h].at = IF call[h].op = "file" THEN "decode" ELSE "insert"]
  BY DEF CheckoutBlocking
<1> DEFINE y == call[h].on
<1>3. /\ y \in Id /\ u \in 1 .. PoolSize /\ call[h].op \in {"file", "open"} /\ call[h].triplet = 0
      /\ kind[y] = "engine"
  BY <1>1 DEF CallIsProper, Calls, HandlesInv, HandlesTyped
<1>4. /\ DOMAIN call' = Hosts /\ \A g \in Hosts \ {h} : call'[g] = call[g]
      /\ call'[h] = [call[h] EXCEPT !.triplet = u,
                                    !.at = IF call[h].op = "file" THEN "decode" ELSE "insert"]
  BY <1>2 DEF HandlesInv, HandlesTyped
<1>5. /\ call'[h] \in Calls /\ call'[h].op = call[h].op /\ call'[h].on = y /\ call'[h].triplet = u
      /\ call'[h].at = IF call[h].op = "file" THEN "decode" ELSE "insert"
  <2>1. call[h] = [op |-> call[h].op, at |-> call[h].at, on |-> y, triplet |-> call[h].triplet]
    BY <1>1 DEF Calls
  <2>2. call'[h] = [op |-> call[h].op, at |-> IF call[h].op = "file" THEN "decode" ELSE "insert",
                    on |-> y, triplet |-> u]
    BY <1>4, <2>1
  <2>3. u \in 0 .. PoolSize
    BY <1>3, BindingsAssumption
  <2> QED BY <1>3, <2>2, <2>3 DEF Calls
<1>6. /\ DOMAIN idle' = Id
      /\ \A x \in Id : idle'[x] = IF x = y THEN idle[x] \ {u} ELSE idle[x]
  BY <1>2, <1>3 DEF HandlesInv, HandlesTyped
<1> HIDE DEF y
<1>7. \A g \in Hosts, x \in Id, t \in 1 .. PoolSize :
        WorksWith(g, x, t)' <=> WorksWith(g, x, t) \/ (g = h /\ x = y /\ t = u)
  <2>1. \A x \in Id, t \in 1 .. PoolSize :
          /\ ~WorksWith(h, x, t)
          /\ WorksWith(h, x, t)' <=> x = y /\ t = u
    BY <1>3, <1>5, BindingsAssumption DEF WorksWith
  <2>2. \A g \in Hosts \ {h}, x \in Id, t \in 1 .. PoolSize :
          WorksWith(g, x, t)' <=> WorksWith(g, x, t)
    BY <1>4 DEF WorksWith
  <2> QED BY <2>1, <2>2
<1>8. \A s \in Id, x \in Id, t \in 1 .. PoolSize : Keeps(s, x, t)' <=> Keeps(s, x, t)
  BY <1>1 DEF Keeps
<1>9. HandlesTyped'
  BY <1>1, <1>4, <1>5, <1>6 DEF HandlesInv, HandlesTyped
<1>10. CallsAreProper'
  <2>1. \A g \in Hosts \ {h} : call[g] # Idle => CallIsProper(g)'
    BY <1>1, <1>4 DEF HandlesInv, CallsAreProper, CallIsProper
  <2>2. CallIsProper(h)'
    BY <1>1, <1>3, <1>5, BindingsAssumption DEF CallIsProper
  <2> QED BY <1>4, <2>1, <2>2 DEF CallsAreProper
<1>11. OneInStream'
  <2>1. kind[y] # "stream"
    BY <1>3
  <2>2. \A g \in Hosts : call[g] # Idle /\ call[g].op \in {"chunk", "flush"} => call[g].on # y
    BY <2>1 DEF HandlesInv, CallsAreProper, CallIsProper
  <2>3. call'[h].op \notin {"chunk", "flush"} /\ call'[h].on = y
    BY <1>3, <1>5
  <2>4. OneInStream
    BY DEF HandlesInv
  <2> SUFFICES ASSUME NEW k \in Hosts, NEW g \in Hosts, call'[k] # Idle, call'[g] # Idle,
                      call'[k].on = call'[g].on, call'[k].op \in {"chunk", "flush"},
                      call'[k].at = "decode", call'[g].at = "decode"
               PROVE  g = k
    BY DEF OneInStream
  <2>5. k # h /\ call'[k] = call[k]
    BY <1>4, <2>3
  <2>6. g # h /\ call'[g] = call[g]
    BY <1>4, <2>2, <2>3, <2>5
  <2> QED BY <2>4, <2>5, <2>6 DEF OneInStream
<1>12. StreamsAreLive'
  BY <1>1 DEF HandlesInv, StreamsAreLive
<1>13. u \in idle[y] /\ \A g \in Hosts, s \in Id : ~WorksWith(g, y, u) /\ ~Keeps(s, y, u)
  BY <1>2, <1>3 DEF HandlesInv, OneUser, y
<1>14. SomeUser'
  BY <1>1, <1>6, <1>7, <1>8 DEF HandlesInv, SomeUser
<1>15. OneUser'
  BY <1>1, <1>6, <1>7, <1>8, <1>13 DEF HandlesInv, OneUser
<1> QED BY <1>9, <1>10, <1>11, <1>12, <1>14, <1>15 DEF HandlesInv

\* A call ends: the stream it was on is let go of, its own triplet goes back.
LEMMA ReturnInv ==
  ASSUME HandlesInv, NEW h \in Hosts, call[h] # Idle, DOMAIN locked' = Id,
         UNCHANGED <<kind, owner>>, NEW e, NEW back,
         Return(h, e, back),
         \/ /\ call[h].op \in {"file", "open"} /\ call[h].triplet # 0
            /\ e = call[h].on /\ back = {call[h].triplet}
         \/ call[h].op \in {"chunk", "flush"} /\ back = {},
         \A g \in Hosts \ {h} : call[g] # Idle /\ call[g].op \in {"chunk", "flush"}
                                  /\ call[g].at = "decode" => locked'[call[g].on]
  PROVE  HandlesInv'
<1> DEFINE calls == [call EXCEPT ![h] = Idle]
<1>1. /\ DOMAIN calls = Hosts /\ calls[h] = Idle /\ \A g \in Hosts \ {h} : calls[g] = call[g]
      /\ call[h] \in Calls /\ held \in SUBSET held
  BY DEF HandlesInv, HandlesTyped
<1>2. Drops(held, calls, e, back)
  BY DEF Return
<1> HIDE DEF calls
<1>3. \A g \in Hosts, x \in Id, t \in 1 .. PoolSize :
        calls[g] = Idle /\ WorksWith(g, x, t) => x = e /\ back = {t}
  BY <1>1 DEF WorksWith
<1>4. back = {} \/ \E g \in Hosts, t \in 1 .. PoolSize :
                     calls[g] = Idle /\ WorksWith(g, e, t) /\ back = {t}
  <2>1. CASE call[h].op \in {"file", "open"}
    <3>1. call[h].triplet \in 1 .. PoolSize
      BY <1>1, <2>1, BindingsAssumption DEF Calls
    <3>2. WorksWith(h, e, call[h].triplet)
      BY <2>1 DEF WorksWith
    <3> QED BY <1>1, <2>1, <3>1, <3>2
  <2> QED BY <2>1
<1> QED BY <1>1, <1>2, <1>3, <1>4, DropsInv

LEMMA FreeInv ==
  ASSUME HandlesInv, NEW h \in Hosts, NEW i \in Id, FreeHandle(h, i)
  PROVE  HandlesInv'
<1>1. Drops(held \ {i}, call, 0, {}) /\ UNCHANGED <<kind, owner, locked>>
  BY DEF FreeHandle
<1>2. DOMAIN locked' = Id /\ DOMAIN call = Hosts /\ held \ {i} \in SUBSET held
  BY <1>1 DEF HandlesInv, HandlesTyped
<1>3. \A g \in Hosts, x \in Id, t \in 1 .. PoolSize :
        call[g] = Idle /\ WorksWith(g, x, t) => x = 0 /\ {} = {t}
  BY DEF WorksWith
<1>4. \A g \in Hosts : call[g] # Idle /\ call[g].op \in {"chunk", "flush"}
                         /\ call[g].at = "decode" => locked'[call[g].on]
  BY <1>1 DEF HandlesInv, CallsAreProper, CallIsProper
<1> QED BY <1>1, <1>2, <1>3, <1>4, DropsInv

LEMMA FileInv ==
  ASSUME HandlesInv, NEW h \in Hosts, FileReturns(h) \/ StreamNewFails(h)
  PROVE  HandlesInv'
<1>1. /\ call[h] # Idle /\ UNCHANGED <<kind, owner, locked>>
      /\ Return(h, call[h].on, {call[h].triplet}) /\ CallIsProper(h)
  BY DEF FileReturns, StreamNewFails, HandlesInv, CallsAreProper
<1>2. call[h].op \in {"file", "open"} /\ call[h].triplet # 0
  BY <1>1 DEF FileReturns, StreamNewFails, CallIsProper
<1>3. DOMAIN locked' = Id
  BY <1>1 DEF HandlesInv, HandlesTyped
<1>4. \A g \in Hosts : call[g] # Idle /\ call[g].op \in {"chunk", "flush"}
                         /\ call[g].at = "decode" => locked'[call[g].on]
  BY <1>1 DEF HandlesInv, CallsAreProper, CallIsProper
<1> QED BY <1>1, <1>2, <1>3, <1>4, ReturnInv

LEMMA DecodeInv ==
  ASSUME HandlesInv, NEW h \in Hosts, DecodeReturns(h)
  PROVE  HandlesInv'
<1>1. /\ call[h] # Idle /\ call[h].op \in {"chunk", "flush"} /\ call[h].at = "decode"
      /\ UNCHANGED <<kind, owner>> /\ Return(h, 0, {}) /\ call[h] \in Calls
      /\ locked' = [locked EXCEPT ![call[h].on] = FALSE]
  BY DEF DecodeReturns, HandlesInv, HandlesTyped
<1>2. DOMAIN locked' = Id /\ \A i \in Id : i # call[h].on => locked'[i] = locked[i]
  BY <1>1 DEF HandlesInv, HandlesTyped
<1>3. \A g \in Hosts \ {h} : call[g] # Idle /\ call[g].op \in {"chunk", "flush"}
                               /\ call[g].at = "decode" => locked'[call[g].on]
  <2> SUFFICES ASSUME NEW g \in Hosts \ {h}, call[g] # Idle, call[g].op \in {"chunk", "flush"},
                      call[g].at = "decode"
               PROVE  locked'[call[g].on]
    OBVIOUS
  <2>1. call[g].on # call[h].on
    BY <1>1 DEF HandlesInv, OneInStream
  <2>2. locked[call[g].on] /\ call[g].on \in Id
    BY DEF HandlesInv, HandlesTyped, CallsAreProper, CallIsProper, Calls
  <2> QED BY <1>2, <2>1, <2>2
<1> QED BY <1>1, <1>2, <1>3, ReturnInv

LEMMA LockInv ==
  ASSUME HandlesInv, NEW h \in Hosts, LockStream(h)
  PROVE  HandlesInv'
<1> DEFINE s == call[h].on
<1>1. /\ call[h] # Idle /\ call[h].at = "lock" /\ ~locked[s] /\ UNCHANGED <<kind, owner>>
      /\ call[h] \in Calls /\ CallIsProper(h)
  BY DEF LockStream, HandlesInv, HandlesTyped, CallsAreProper
<1>2. /\ call[h].op \in {"chunk", "flush"} /\ s \in Id /\ kind[s] = "stream" /\ owns[s] # 0
      /\ call[h].triplet = 0 /\ owns[s] \in 0 .. PoolSize
  BY <1>1 DEF CallIsProper, Calls, HandlesInv, HandlesTyped
<1>3. CASE Return(h, 0, {}) /\ UNCHANGED locked
  <2>1. DOMAIN locked' = Id
    BY <1>3 DEF HandlesInv, HandlesTyped
  <2>2. \A g \in Hosts : call[g] # Idle /\ call[g].op \in {"chunk", "flush"}
                           /\ call[g].at = "decode" => locked'[call[g].on]
    BY <1>3 DEF HandlesInv, CallsAreProper, CallIsProper
  <2> QED BY <1>1, <1>2, <1>3, <2>1, <2>2, ReturnInv
<1>4. CASE /\ locked' = [locked EXCEPT ![s] = TRUE]
           /\ call' = [call EXCEPT ![h].at = "decode", ![h].triplet = owns[s]]
           /\ UNCHANGED <<held, idle, owns>>
  <2>1. /\ DOMAIN locked' = Id /\ locked'[s]
        /\ \A i \in Id : i # s => locked'[i] = locked[i]
        /\ DOMAIN call' = Hosts /\ \A g \in Hosts \ {h} : call'[g] = call[g]
    BY <1>2, <1>4 DEF HandlesInv, HandlesTyped
  <2>2. call'[h] = [op |-> call[h].op, at |-> "decode", on |-> s, triplet |-> owns[s]]
    <3>1. call[h] = [op |-> call[h].op, at |-> call[h].at, on |-> s, triplet |-> call[h].triplet]
      BY <1>1 DEF Calls
    <3> QED BY <1>4, <3>1 DEF HandlesInv, HandlesTyped
  <2>3. /\ call'[h].op = call[h].op /\ call'[h].at = "decode" /\ call'[h].on = s
        /\ call'[h].triplet = owns[s] /\ call'[h] \in Calls
    BY <1>2, <2>2 DEF Calls
  <2> HIDE DEF s
  <2>4. \A g \in Hosts, x \in Id, t \in 1 .. PoolSize : WorksWith(g, x, t)' <=> WorksWith(g, x, t)
    <3>1. \A x \in Id, t \in 1 .. PoolSize : ~WorksWith(h, x, t) /\ ~WorksWith(h, x, t)'
      BY <1>2, <2>3 DEF WorksWith
    <3> QED BY <2>1, <3>1 DEF WorksWith
  <2>5. \A r \in Id, x \in Id, t \in 1 .. PoolSize : Keeps(r, x, t)' <=> Keeps(r, x, t)
    BY <1>1, <1>4 DEF Keeps
  <2>6. HandlesTyped'
    BY <1>1, <1>4, <2>1, <2>3 DEF HandlesInv, HandlesTyped
  <2>7. CallsAreProper'
    <3>1. \A g \in Hosts \ {h} : call[g] # Idle => CallIsProper(g)'
      <4> SUFFICES ASSUME NEW g \in Hosts \ {h}, call[g] # Idle PROVE CallIsProper(g)'
        OBVIOUS
      <4>1. CallIsProper(g) /\ call[g] \in Calls
        BY DEF HandlesInv, HandlesTyped, CallsAreProper
      <4>2. locked[call[g].on] => locked'[call[g].on]
        BY <2>1, <4>1 DEF Calls
      <4> QED BY <1>1, <1>4, <2>1, <4>1, <4>2 DEF CallIsProper
    <3>2. CallIsProper(h)'
      BY <1>1, <1>2, <1>4, <2>1, <2>3 DEF CallIsProper
    <3> QED BY <2>1, <3>1, <3>2 DEF CallsAreProper
  <2>8. OneInStream'
    <3>1. \A g \in Hosts : call[g] # Idle /\ call[g].on = s => call[g].at # "decode"
      BY <1>1, <1>2 DEF HandlesInv, CallsAreProper, CallIsProper, s
    <3> QED BY <2>1, <2>3, <3>1 DEF HandlesInv, OneInStream
  <2>9. StreamsAreLive'
    BY <1>1, <1>4 DEF HandlesInv, StreamsAreLive
  <2>10. SomeUser' /\ OneUser'
    BY <1>1, <1>4, <2>4, <2>5 DEF HandlesInv, SomeUser, OneUser
  <2> QED BY <2>6, <2>7, <2>8, <2>9, <2>10 DEF HandlesInv
<1> QED BY <1>3, <1>4 DEF LockStream

LEMMA StreamNewInv ==
  ASSUME HandlesInv, NEW h \in Hosts, NEW i \in Id, StreamNew(h, i)
  PROVE  HandlesInv'
<1> DEFINE y == call[h].on
           u == call[h].triplet
<1>1. /\ call[h] # Idle /\ call[h].at = "insert" /\ call[h] \in Calls /\ CallIsProper(h)
      /\ kind[i] = "none" /\ kind' = [kind EXCEPT ![i] = "stream"] /\ held' = held \cup {i}
      /\ owner' = [owner EXCEPT ![i] = y] /\ owns' = [owns EXCEPT ![i] = u]
      /\ call' = [call EXCEPT ![h] = Idle] /\ UNCHANGED <<idle, locked>>
  BY DEF StreamNew, NextId, HandlesInv, HandlesTyped, CallsAreProper
<1>2. /\ y \in Id /\ kind[y] = "engine" /\ u \in 1 .. PoolSize /\ y # i
      /\ call[h].op \in {"file", "open"}
  BY <1>1, BindingsAssumption DEF CallIsProper, Calls
<1> HIDE DEF y, u
<1>3. /\ DOMAIN call' = Hosts /\ call'[h] = Idle /\ \A g \in Hosts \ {h} : call'[g] = call[g]
      /\ DOMAIN kind' = Id /\ kind'[i] = "stream" /\ \A x \in Id \ {i} : kind'[x] = kind[x]
      /\ DOMAIN owner' = Id /\ owner'[i] = y /\ \A x \in Id \ {i} : owner'[x] = owner[x]
      /\ DOMAIN owns' = Id /\ owns'[i] = u /\ \A x \in Id \ {i} : owns'[x] = owns[x]
  BY <1>1 DEF HandlesInv, HandlesTyped
<1>4. \A g \in Hosts : call[g] # Idle => call[g].on # i /\ call[g].on \in Id /\ CallIsProper(g)
  BY <1>1 DEF HandlesInv, HandlesTyped, CallsAreProper, CallIsProper, Calls
<1>5. \A s \in Id : kind[s] = "stream" => owner[s] # i /\ s # i
  BY <1>1 DEF HandlesInv, StreamsAreLive
<1>6. \A x \in Id, t \in 1 .. PoolSize : WorksWith(h, x, t) <=> x = y /\ t = u
  BY <1>1, <1>2 DEF WorksWith, y, u
<1>7. \A g \in Hosts, x \in Id, t \in 1 .. PoolSize :
        WorksWith(g, x, t)' <=> WorksWith(g, x, t) /\ g # h
  BY <1>3 DEF WorksWith
<1>8. \A s \in Id, x \in Id, t \in 1 .. PoolSize :
        Keeps(s, x, t)' <=> Keeps(s, x, t) \/ (s = i /\ x = y /\ t = u)
  BY <1>1, <1>3 DEF Keeps
<1>9. \A x \in Id : kind'[x] = "engine" <=> kind[x] = "engine"
  BY <1>1, <1>3
<1>10. HandlesTyped'
  BY <1>1, <1>2, <1>3, BindingsAssumption DEF HandlesInv, HandlesTyped
<1>11. CallsAreProper'
  <2> SUFFICES ASSUME NEW g \in Hosts \ {h}, call[g] # Idle PROVE CallIsProper(g)'
    BY <1>3 DEF CallsAreProper
  <2>1. /\ call'[g] = call[g] /\ kind'[call[g].on] = kind[call[g].on]
        /\ owns'[call[g].on] = owns[call[g].on]
    BY <1>3, <1>4
  <2> QED BY <1>1, <1>4, <2>1 DEF CallIsProper
<1>12. OneInStream'
  BY <1>3 DEF HandlesInv, OneInStream
<1>13. StreamsAreLive'
  BY <1>1, <1>2, <1>3, <1>5 DEF HandlesInv, StreamsAreLive
<1>14. SomeUser'
  BY <1>1, <1>2, <1>6, <1>7, <1>8, <1>9 DEF HandlesInv, SomeUser
<1>15. /\ u \notin idle[y]
       /\ \A g \in Hosts, s \in Id : (WorksWith(g, y, u) => g = h) /\ ~Keeps(s, y, u)
  BY <1>2, <1>6 DEF HandlesInv, OneUser
<1>16. OneUser'
  BY <1>1, <1>6, <1>7, <1>8, <1>9, <1>15 DEF HandlesInv, OneUser
<1> QED BY <1>10, <1>11, <1>12, <1>13, <1>14, <1>16 DEF HandlesInv

\* For any threads, ids and triplets: whatever is freed while calls run, a triplet has one
\* user and none is lost (StreamSlot, get_stream).
THEOREM HandlesHold == BindingsSpec => []TripletHasOneUser
<1>1. BindingsInit => HandlesInv
  <2> SUFFICES ASSUME BindingsInit PROVE HandlesInv
    OBVIOUS
  <2>1. HandlesTyped
    BY BindingsAssumption DEF BindingsInit, HandlesTyped
  <2> QED BY <2>1 DEF BindingsInit, HandlesInv, CallsAreProper, OneInStream, StreamsAreLive,
                      SomeUser,
             OneUser, WorksWith, Keeps
<1>2. HandlesInv /\ [BindingsNext]_handleVars => HandlesInv'
  <2> SUFFICES ASSUME HandlesInv, [BindingsNext]_handleVars PROVE HandlesInv'
    OBVIOUS
  <2>1. CASE UNCHANGED handleVars
    BY <2>1 DEF handleVars, HandlesInv, HandlesTyped, CallsAreProper, CallIsProper, OneInStream,
                StreamsAreLive, SomeUser, OneUser, WorksWith, Keeps
  <2>2. CASE BindingsNext
    BY <2>2, EngineNewInv, FreeInv, EnterInv, StreamNewInv, CheckoutInv, FileInv, LockInv, DecodeInv
       DEF BindingsNext
  <2> QED BY <2>1, <2>2
<1> QED BY <1>1, <1>2, HandlesImply, PTL DEF BindingsSpec

------------------------------------------------------------------------------
(* transcribe-batch and watch.                                             *)

\* An attempt begins with no output written, and ends with the last one.
TaskRecords == [file : Paths, step : {"read", "write", "source", "backoff", "ok", "err"},
                read : Nat, written : 0 .. Formats, attempt : Nat]
FileTasks == {t \in TaskRecords :
            /\ t.step \in {"read", "backoff"} => t.written = 0
            /\ t.step = "write" => t.written < Formats}
Statuses == {"Unknown", "Pending", "InFlight", "Done", "Failed"}

WatchTyped ==
  /\ command \in {"batch", "watch"}
  /\ DOMAIN written = Paths /\ DOMAIN inputs = Paths /\ DOMAIN out = Paths /\ DOMAIN known = Paths
  /\ \A f \in Paths :
       /\ written[f] \in Nat /\ inputs[f] \in 0 .. written[f] /\ DOMAIN out[f] = 1 .. Formats
       /\ known[f] \in [sig : Nat, stable : Nat, status : Statuses, dirty : BOOLEAN]
       /\ known[f].sig <= written[f]
  /\ todo \in Seq(Paths) /\ tasks \in Seq(FileTasks)

\* A batch looks once: what it has not begun is nobody's.
BatchTakesEachOnce ==
  command = "batch" =>
    /\ \A f \in Paths : known[f].status = "Unknown"
    /\ IsInjective(todo) /\ \A i \in DOMAIN tasks, j \in DOMAIN todo : tasks[i].file # todo[j]

\* A watch calls a file in flight while a task is on it.
FlightHasTask ==
  command = "watch" => \A f \in Paths :
    known[f].status = "InFlight" <=> \E i \in DOMAIN tasks : tasks[i].file = f

\* What a task read, and wrote, of a file that is still as it was when it was spawned.
WorkIsOfVersion ==
  command = "watch" => \A i \in DOMAIN tasks :
    LET t == tasks[i] IN
    ~known[t.file].dirty /\ known[t.file].sig = inputs[t.file] /\ inputs[t.file] # 0 =>
      /\ t.step \in {"write", "source", "ok"} => t.read = inputs[t.file]
      /\ t.step = "write" => \A k \in 1 .. t.written : out[t.file][k] = inputs[t.file]
      /\ t.step \in {"source", "ok"} => \A k \in 1 .. Formats : out[t.file][k] = inputs[t.file]

WatchInv ==
  /\ WatchTyped /\ OneTaskPerFile /\ BatchTakesEachOnce /\ FlightHasTask /\ WorkIsOfVersion
  /\ DoneIsHeard

LEMMA RemovedAt ==
  ASSUME NEW S, NEW s \in Seq(S), NEW i \in 1 .. Len(s)
  PROVE  /\ RemoveAt(s, i) \in Seq(S) /\ DOMAIN RemoveAt(s, i) = 1 .. Len(s) - 1
         /\ \A j \in 1 .. Len(s) - 1 : RemoveAt(s, i)[j] = IF j < i THEN s[j] ELSE s[j + 1]
<1> DEFINE a == SubSeq(s, 1, i - 1)
           b == SubSeq(s, i + 1, Len(s))
<1>1. Len(s) \in Nat
  OBVIOUS
<1>2. a \in Seq(S) /\ Len(a) = i - 1 /\ \A j \in 1 .. i - 1 : a[j] = s[j]
  BY <1>1
<1>3. b \in Seq(S) /\ Len(b) = Len(s) - i /\ \A j \in 1 .. Len(s) - i : b[j] = s[i + j]
  BY <1>1
<1>4. RemoveAt(s, i) = a \o b
  BY DEF RemoveAt
<1> HIDE DEF a, b
<1>5. a \o b \in Seq(S) /\ Len(a \o b) = Len(s) - 1
  <2>1. a \in Seq(S) /\ b \in Seq(S) /\ Len(a) + Len(b) = Len(s) - 1
    BY <1>1, <1>2, <1>3
  <2>2. a \o b \in Seq(S) /\ Len(a \o b) = Len(a) + Len(b)
    BY <2>1, ConcatProperties
  <2> QED BY <2>1, <2>2
<1>6. ASSUME NEW j \in 1 .. Len(s) - 1 PROVE (a \o b)[j] = IF j < i THEN s[j] ELSE s[j + 1]
  <2>1. CASE j < i
    BY <1>1, <1>2, <1>3, <2>1
  <2>2. CASE ~(j < i)
    <3>1. (a \o b)[j] = b[j - Len(a)]
      BY <1>1, <1>2, <1>3, <2>2
    <3>2. j - Len(a) \in 1 .. Len(s) - i /\ i + (j - Len(a)) = j + 1
      BY <1>1, <1>2, <2>2
    <3> QED BY <1>3, <2>2, <3>1, <3>2
  <2> QED BY <2>1, <2>2
<1> QED BY <1>1, <1>4, <1>5, <1>6

\* One task leaves the set of tasks: the others stay.
LEMMA TaskLeaves ==
  ASSUME tasks \in Seq(FileTasks), NEW i \in DOMAIN tasks, tasks' = RemoveAt(tasks, i)
  PROVE  /\ tasks' \in Seq(FileTasks)
         /\ \A j \in DOMAIN tasks' : \E k \in DOMAIN tasks \ {i} : tasks'[j] = tasks[k]
         /\ \A k \in DOMAIN tasks \ {i} : \E j \in DOMAIN tasks' : tasks'[j] = tasks[k]
         /\ OneTaskPerFile => OneTaskPerFile'
<1>1. DOMAIN tasks = 1 .. Len(tasks) /\ Len(tasks) \in Nat
  OBVIOUS
<1>2. /\ tasks' \in Seq(FileTasks) /\ DOMAIN tasks' = 1 .. Len(tasks) - 1
      /\ \A j \in 1 .. Len(tasks) - 1 : tasks'[j] = IF j < i THEN tasks[j] ELSE tasks[j + 1]
  BY <1>1, RemovedAt
<1>3. \A j \in DOMAIN tasks' : \E k \in DOMAIN tasks \ {i} : tasks'[j] = tasks[k]
  BY <1>1, <1>2
<1>4. ASSUME NEW k \in DOMAIN tasks \ {i} PROVE \E j \in DOMAIN tasks' : tasks'[j] = tasks[k]
  <2>1. CASE k < i
    BY <1>1, <1>2, <2>1
  <2>2. CASE ~(k < i)
    <3>1. k - 1 \in DOMAIN tasks' /\ ~(k - 1 < i) /\ k - 1 + 1 = k
      BY <1>1, <1>2, <2>2
    <3> QED BY <1>2, <3>1
  <2> QED BY <2>1, <2>2
<1>5. OneTaskPerFile => OneTaskPerFile'
  <2> SUFFICES ASSUME OneTaskPerFile, NEW j \in DOMAIN tasks', NEW k \in DOMAIN tasks', j # k
               PROVE  tasks'[j].file # tasks'[k].file
    BY DEF OneTaskPerFile
  <2> DEFINE At(n) == IF n < i THEN n ELSE n + 1
  <2>1. /\ At(j) \in DOMAIN tasks /\ tasks'[j] = tasks[At(j)]
        /\ At(k) \in DOMAIN tasks /\ tasks'[k] = tasks[At(k)] /\ At(j) # At(k)
    BY <1>1, <1>2
  <2> HIDE DEF At
  <2> QED BY <2>1 DEF OneTaskPerFile
<1> QED BY <1>2, <1>3, <1>4, <1>5

\* One more task, of a file that has none.
LEMMA TaskJoins ==
  ASSUME tasks \in Seq(FileTasks), NEW f \in Paths, tasks' = Append(tasks, NewTask(f)),
         \A i \in DOMAIN tasks : tasks[i].file # f
  PROVE  /\ tasks' \in Seq(FileTasks)
         /\ \A j \in DOMAIN tasks' : \/ j \in DOMAIN tasks /\ tasks'[j] = tasks[j]
                                     \/ tasks'[j] = NewTask(f)
         /\ \A k \in DOMAIN tasks : k \in DOMAIN tasks' /\ tasks'[k] = tasks[k]
         /\ \E j \in DOMAIN tasks' : tasks'[j] = NewTask(f)
         /\ OneTaskPerFile => OneTaskPerFile'
<1>1. NewTask(f) \in FileTasks /\ NewTask(f).file = f
  BY WatchAssumption DEF NewTask, FileTasks, TaskRecords
<1>2. /\ Append(tasks, NewTask(f)) \in Seq(FileTasks) /\ Len(tasks) \in Nat
      /\ Len(Append(tasks, NewTask(f))) = Len(tasks) + 1
      /\ Append(tasks, NewTask(f))[Len(tasks) + 1] = NewTask(f)
      /\ \A k \in 1 .. Len(tasks) : Append(tasks, NewTask(f))[k] = tasks[k]
  BY <1>1, AppendIs
<1>3. DOMAIN tasks = 1 .. Len(tasks) /\ DOMAIN tasks' = 1 .. Len(tasks) + 1
  BY <1>2
<1>4. \A j \in DOMAIN tasks' : \/ j \in DOMAIN tasks /\ tasks'[j] = tasks[j]
                               \/ j = Len(tasks) + 1 /\ tasks'[j] = NewTask(f)
  BY <1>2, <1>3
<1>5. OneTaskPerFile => OneTaskPerFile'
  BY <1>1, <1>3, <1>4 DEF OneTaskPerFile
<1> QED BY <1>2, <1>3, <1>4, <1>5

LEMMA ListingsAre ==
  ASSUME NEW s \in Listings
  PROVE  s \in Seq(Paths) /\ IsInjective(s)
<1> DEFINE there == {f \in Paths : inputs[f] # 0}
<1>1. IsFiniteSet(Paths)
  <2>1. IsFiniteSet(1 .. Len(Inbox)) /\ DOMAIN Inbox = 1 .. Len(Inbox)
    BY WatchAssumption, FS_Interval
  <2>2. Paths = {Inbox[i] : i \in 1 .. Len(Inbox)}
    BY <2>1 DEF Paths, ToSet
  <2>3. Inbox \in Surjection(1 .. Len(Inbox), Paths)
    BY <2>1, <2>2, WatchAssumption DEF Surjection
  <2> QED BY <2>1, <2>3, FS_Surjection
<1>2. Cardinality(there) \in Nat
  BY <1>1, FS_Subset, FS_CardinalityType
<1>3. s \in [1 .. Cardinality(there) -> there] /\ \A i, j \in DOMAIN s : i # j => s[i] # s[j]
  BY DEF Listings, SetToSeqs
<1>4. \A n \in Nat, S \in SUBSET Paths : \A g \in [1 .. n -> S] : g \in Seq(Paths)
  OBVIOUS
<1> QED BY <1>2, <1>3, <1>4 DEF IsInjective

\* What a task says of the file it is on; see WorkIsOfVersion.
WorkOf(t, e, now, outs) ==
  ~e.dirty /\ e.sig = now /\ now # 0 =>
    /\ t.step \in {"write", "source", "ok"} => t.read = now
    /\ t.step = "write" => \A k \in 1 .. t.written : outs[k] = now
    /\ t.step \in {"source", "ok"} => \A k \in 1 .. Formats : outs[k] = now

LEMMA WorkSays ==
  WorkIsOfVersion <=>
    (command = "watch" => \A i \in DOMAIN tasks :
       WorkOf(tasks[i], known[tasks[i].file], inputs[tasks[i].file], out[tasks[i].file]))
BY DEF WorkIsOfVersion, WorkOf

LEMMA TasksAre ==
  ASSUME WatchTyped
  PROVE  /\ tasks \in Seq(FileTasks) /\ DOMAIN tasks = 1 .. Len(tasks) /\ Len(tasks) \in Nat
         /\ \A j \in DOMAIN tasks : tasks[j] \in FileTasks /\ tasks[j].file \in Paths
<1>1. /\ tasks \in Seq(FileTasks) /\ DOMAIN tasks = 1 .. Len(tasks) /\ Len(tasks) \in Nat
      /\ \A j \in DOMAIN tasks : tasks[j] \in FileTasks
  BY DEF WatchTyped
<1>2. \A t \in FileTasks : t.file \in Paths
  BY DEF FileTasks, TaskRecords
<1> QED BY <1>1, <1>2

\* A task goes on, and what it says of its file is true again.
LEMMA TaskGoesOn ==
  ASSUME WatchInv, NEW i \in DOMAIN tasks, NEW u \in FileTasks, u.file = tasks[i].file,
         Progress(i, u), UNCHANGED <<command, written, known, todo>>,
         DOMAIN inputs' = Paths, \A f \in Paths : inputs'[f] \in {0, inputs[f]},
         DOMAIN out' = Paths, \A f \in Paths : DOMAIN out'[f] = 1 .. Formats,
         \A f \in Paths \ {u.file} : out'[f] = out[f],
         command = "watch" => WorkOf(u, known[u.file], inputs'[u.file], out'[u.file])
  PROVE  WatchInv'
<1>1. /\ tasks \in Seq(FileTasks) /\ DOMAIN tasks = 1 .. Len(tasks) /\ Len(tasks) \in Nat
      /\ \A j \in DOMAIN tasks : tasks[j].file \in Paths
  BY TasksAre DEF WatchInv
<1>2. /\ tasks' \in Seq(FileTasks) /\ DOMAIN tasks' = DOMAIN tasks /\ tasks'[i] = u
      /\ \A j \in DOMAIN tasks \ {i} : tasks'[j] = tasks[j]
      /\ \A j \in DOMAIN tasks : tasks'[j].file = tasks[j].file
  BY <1>1 DEF Progress
<1>3. \A j \in DOMAIN tasks \ {i} : tasks[j].file # u.file
  BY DEF WatchInv, OneTaskPerFile
<1>4. WatchTyped'
  <2>1. \A f \in Paths : /\ written[f] \in Nat /\ inputs'[f] \in 0 .. written[f]
                         /\ DOMAIN out'[f] = 1 .. Formats
    BY DEF WatchInv, WatchTyped
  <2> QED BY <1>2, <2>1 DEF WatchInv, WatchTyped
<1>5. OneTaskPerFile'
  BY <1>2 DEF WatchInv, OneTaskPerFile
<1>6. BatchTakesEachOnce'
  BY <1>2 DEF WatchInv, BatchTakesEachOnce
<1>7. FlightHasTask'
  BY <1>2 DEF WatchInv, FlightHasTask
<1>8. WorkIsOfVersion'
  <2> SUFFICES ASSUME command = "watch", NEW j \in DOMAIN tasks
               PROVE  LET f == tasks'[j].file
                      IN  WorkOf(tasks'[j], known'[f], inputs'[f], out'[f])
    BY <1>2, WorkSays DEF WorkIsOfVersion, WorkOf
  <2>1. CASE j = i
    BY <1>2, <2>1
  <2>2. CASE j # i
    <3> DEFINE g == tasks[j].file
    <3>1. g \in Paths \ {u.file} /\ tasks'[j] = tasks[j]
      BY <1>1, <1>2, <1>3, <2>2
    <3>2. WorkOf(tasks[j], known[g], inputs[g], out[g])
      BY WorkSays DEF WatchInv
    <3>3. out'[g] = out[g] /\ inputs'[g] \in {0, inputs[g]} /\ known'[g] = known[g]
      BY <3>1
    <3> HIDE DEF g
    <3>4. WorkOf(tasks[j], known[g], inputs'[g], out[g])
      BY <3>2, <3>3 DEF WorkOf
    <3> QED BY <3>1, <3>3, <3>4 DEF g
  <2> QED BY <2>1, <2>2
<1>9. DoneIsHeard'
  <2> SUFFICES ASSUME NEW f \in Paths, known[f].status = "Done", known[f].sig = inputs'[f],
                      inputs'[f] # 0
               PROVE  (\A k \in 1 .. Formats : out'[f][k] = inputs'[f]) \/ inputs'[f] = 1
    BY DEF DoneIsHeard
  <2>1. inputs'[f] = inputs[f]
    OBVIOUS
  <2>2. f # u.file
    BY DEF WatchInv, WatchTyped, BatchTakesEachOnce, FlightHasTask
  <2> QED BY <2>1, <2>2 DEF WatchInv, DoneIsHeard
<1> QED BY <1>4, <1>5, <1>6, <1>7, <1>8, <1>9 DEF WatchInv

LEMMA TaskInv ==
  ASSUME WatchInv, NEW i \in DOMAIN tasks,
         Transcribe(i) \/ WriteOutput(i) \/ RemoveSource(i) \/ Backoff(i)
  PROVE  WatchInv'
<1> DEFINE t == tasks[i]
           f == t.file
<1>1. t \in FileTasks /\ f \in Paths
  BY TasksAre DEF WatchInv
<1>2. command = "watch" => WorkOf(t, known[f], inputs[f], out[f])
  BY WorkSays DEF WatchInv
<1>3. /\ UNCHANGED <<command, written, known, todo>> /\ DOMAIN inputs = Paths /\ DOMAIN out = Paths
      /\ \A x \in Paths : DOMAIN out[x] = 1 .. Formats /\ inputs[x] \in Nat
  BY DEF Transcribe, WriteOutput, RemoveSource, Backoff, WatchInv, WatchTyped
<1>4. t.read \in Nat /\ t.written \in 0 .. Formats /\ t.attempt \in Nat /\ Formats \in Nat \ {0}
  BY <1>1, WatchAssumption DEF FileTasks, TaskRecords
<1> HIDE DEF t, f
<1>5. ASSUME NEW u \in FileTasks, u.file = f, Progress(i, u), UNCHANGED <<inputs, out>>,
             command = "watch" => WorkOf(u, known[f], inputs[f], out[f])
      PROVE  WatchInv'
  BY <1>3, <1>5, TaskGoesOn DEF t, f
<1>6. ASSUME Failed(i), UNCHANGED <<inputs, out>>
      PROVE  WatchInv'
  <2> DEFINE s == IF t.attempt + 1 > Retries THEN "err" ELSE "backoff"
             u == [t EXCEPT !.attempt = t.attempt + 1, !.written = 0, !.step = s]
  <2>1. Progress(i, u)
    BY <1>6 DEF Failed, t
  <2>2. s \in {"err", "backoff"} /\ 0 \in 0 .. Formats /\ t.attempt + 1 \in Nat
    BY <1>4
  <2> HIDE DEF s
  <2>3. u \in FileTasks /\ u.file = f /\ u.step = s /\ u.written = 0
    BY <1>1, <1>4, <2>2 DEF f, FileTasks, TaskRecords
  <2> HIDE DEF u
  <2>4. WorkOf(u, known[f], inputs[f], out[f])
    BY <2>2, <2>3 DEF WorkOf
  <2> QED BY <1>5, <1>6, <2>1, <2>3, <2>4
<1>7. CASE Transcribe(i)
  <2>1. t.step = "read" /\ UNCHANGED <<inputs, out>>
    BY <1>7 DEF Transcribe, t
  <2>2. CASE Progress(i, [t EXCEPT !.read = inputs[f], !.step = "write"])
    <3> DEFINE u == [t EXCEPT !.read = inputs[f], !.step = "write"]
    <3>1. u.file = f /\ u.step = "write" /\ u.read = inputs[f] /\ u.written = 0
      BY <1>1, <2>1 DEF f, FileTasks, TaskRecords
    <3>2. u \in TaskRecords
      BY <1>1, <1>3, <1>4 DEF f, FileTasks, TaskRecords
    <3>3. Progress(i, u)
      BY <2>2
    <3> HIDE DEF u
    <3>4. WorkOf(u, known[f], inputs[f], out[f])
      BY <3>1 DEF WorkOf
    <3>5. u \in FileTasks
      BY <1>4, <3>1, <3>2 DEF FileTasks
    <3> QED BY <1>5, <2>1, <3>1, <3>3, <3>4, <3>5
  <2>3. CASE Failed(i)
    BY <1>6, <2>1, <2>3
  <2> QED BY <1>7, <2>2, <2>3 DEF Transcribe, t, f
<1>8. CASE Backoff(i)
  <2> DEFINE u == [t EXCEPT !.step = "read"]
  <2>1. Progress(i, u) /\ UNCHANGED <<inputs, out>> /\ t.step = "backoff"
    BY <1>8 DEF Backoff, t
  <2>2. u \in FileTasks /\ u.file = f /\ u.step = "read"
    BY <1>1, <1>4, <2>1 DEF f, FileTasks, TaskRecords
  <2> HIDE DEF u
  <2>3. command = "watch" => WorkOf(u, known[f], inputs[f], out[f])
    BY <1>2, <2>1, <2>2 DEF WorkOf
  <2> QED BY <1>5, <2>1, <2>2, <2>3
<1>9. CASE RemoveSource(i)
  <2>1. t.step = "source" /\ UNCHANGED out
    BY <1>9 DEF RemoveSource, t
  <2>2. CASE /\ inputs' = [inputs EXCEPT ![f] = 0] /\ Progress(i, [t EXCEPT !.step = "ok"])
    <3> DEFINE u == [t EXCEPT !.step = "ok"]
    <3>1. u \in FileTasks /\ u.file = f
      BY <1>1, <1>4 DEF f, FileTasks, TaskRecords
    <3> HIDE DEF u
    <3>2. /\ DOMAIN inputs' = Paths /\ inputs'[f] = 0
          /\ \A x \in Paths : inputs'[x] \in {0, inputs[x]}
      BY <1>1, <1>3, <2>2
    <3>3. WorkOf(u, known[f], inputs'[f], out'[f])
      BY <3>2 DEF WorkOf
    <3>4. Progress(i, u)
      BY <2>2 DEF u
    <3> QED BY <1>3, <2>1, <3>1, <3>2, <3>3, <3>4, TaskGoesOn DEF t, f
  <2>3. CASE Failed(i) /\ UNCHANGED inputs
    BY <1>6, <2>1, <2>3
  <2> QED BY <1>9, <2>2, <2>3 DEF RemoveSource, t, f
<1>10. CASE WriteOutput(i)
  <2> DEFINE k == t.written + 1
             s == IF k < Formats THEN "write" ELSE IF source = "keep" THEN "ok" ELSE "source"
             u == [t EXCEPT !.written = k, !.step = s]
  <2>1. t.step = "write" /\ UNCHANGED inputs
    BY <1>10 DEF WriteOutput, t
  <2>2. CASE out' = [out EXCEPT ![f][k] = t.read] /\ Progress(i, u)
    <3>1. s \in {"write", "ok", "source"} /\ (s = "write" <=> k < Formats)
      OBVIOUS
    <3> HIDE DEF s
    <3>2. k \in 1 .. Formats /\ k \in 0 .. Formats
      BY <1>1, <1>4, <2>1 DEF FileTasks
    <3>3. u.file = f /\ u.step = s /\ u.written = k /\ u.read = t.read
      BY <1>1 DEF f, FileTasks, TaskRecords
    <3> HIDE DEF k
    <3>7. u \in TaskRecords
      BY <1>1, <1>4, <3>1, <3>2 DEF f, FileTasks, TaskRecords
    <3>4. Progress(i, u)
      BY <2>2
    <3> HIDE DEF u
    <3>5. /\ DOMAIN out' = Paths /\ \A x \in Paths : DOMAIN out'[x] = 1 .. Formats
          /\ \A x \in Paths \ {f} : out'[x] = out[x]
          /\ \A j \in 1 .. Formats : out'[f][j] = IF j = k THEN t.read ELSE out[f][j]
      BY <1>1, <1>3, <2>2
    <3>6. command = "watch" => WorkOf(u, known[f], inputs'[f], out'[f])
      BY <1>2, <1>4, <2>1, <3>1, <3>3, <3>5 DEF WorkOf, k
    <3>8. u \in FileTasks
      BY <1>4, <3>1, <3>3, <3>7 DEF FileTasks
    <3> QED BY <1>3, <2>1, <3>3, <3>4, <3>5, <3>6, <3>8, TaskGoesOn DEF t, f
  <2>3. CASE Failed(i) /\ UNCHANGED out
    BY <1>6, <2>1, <2>3
  <2> QED BY <1>10, <2>2, <2>3 DEF WriteOutput, t, f
<1> QED BY <1>7, <1>8, <1>9, <1>10


\* Whoever puts files there: a new version is none that an entry has seen.
LEMMA OutsideInv ==
  ASSUME WatchInv, CtrlC \/ Turn \/ JoinOrReturn \/ \E f \in Paths : PutFile(f) \/ TakeFile(f)
  PROVE  WatchInv'
<1>1. UNCHANGED <<command, out, known, todo, tasks>>
  BY DEF CtrlC, Turn, JoinOrReturn, PutFile, TakeFile
<1>2. /\ DOMAIN inputs = Paths /\ DOMAIN written = Paths
      /\ \A f \in Paths : /\ written[f] \in Nat /\ inputs[f] \in 0 .. written[f]
                          /\ known[f].sig \in Nat /\ known[f].sig <= written[f]
  BY DEF WatchInv, WatchTyped
<1>3. /\ DOMAIN inputs' = Paths /\ DOMAIN written' = Paths
      /\ \A f \in Paths : /\ written'[f] \in Nat /\ written'[f] >= written[f]
                          /\ inputs'[f] \in 0 .. written'[f]
                          /\ inputs'[f] \in {0, inputs[f]} \/ inputs'[f] > known[f].sig
  <2>1. CASE CtrlC \/ Turn \/ JoinOrReturn
    BY <1>2, <2>1 DEF CtrlC, Turn, JoinOrReturn
  <2>2. CASE \E f \in Paths : PutFile(f)
    BY <1>2, <2>2 DEF PutFile
  <2>3. CASE \E f \in Paths : TakeFile(f)
    BY <1>2, <2>3 DEF TakeFile
  <2> QED BY <2>1, <2>2, <2>3
<1>4. WatchTyped'
  BY <1>1, <1>2, <1>3 DEF WatchInv, WatchTyped
<1>5. OneTaskPerFile' /\ BatchTakesEachOnce' /\ FlightHasTask'
  BY <1>1 DEF WatchInv, OneTaskPerFile, BatchTakesEachOnce, FlightHasTask
<1>6. \A f \in Paths : inputs'[f] # 0 /\ known[f].sig = inputs'[f] => inputs'[f] = inputs[f]
  BY <1>2, <1>3
<1>7. WorkIsOfVersion'
  BY <1>1, <1>6, TasksAre DEF WatchInv, WorkIsOfVersion
<1>8. DoneIsHeard'
  BY <1>1, <1>6 DEF WatchInv, DoneIsHeard
<1> QED BY <1>4, <1>5, <1>7, <1>8 DEF WatchInv

LEMMA JoinInv ==
  ASSUME WatchInv, NEW i \in DOMAIN tasks, JoinBatch(i) \/ JoinWatch(i)
  PROVE  WatchInv'
<1> DEFINE t == tasks[i]
           f == t.file
<1>1. /\ tasks' = RemoveAt(tasks, i) /\ UNCHANGED <<command, inputs, written, out, todo>>
      /\ t.step \in {"ok", "err"}
  BY DEF JoinBatch, JoinWatch, Ended
<1>2. f \in Paths /\ \A j \in DOMAIN tasks : tasks[j].file \in Paths
  BY TasksAre DEF WatchInv
<1>3. /\ tasks' \in Seq(FileTasks)
      /\ \A j \in DOMAIN tasks' : \E k \in DOMAIN tasks \ {i} : tasks'[j] = tasks[k]
      /\ \A k \in DOMAIN tasks \ {i} : \E j \in DOMAIN tasks' : tasks'[j] = tasks[k]
      /\ OneTaskPerFile'
  BY <1>1, TaskLeaves DEF WatchInv, WatchTyped
<1>4. \A k \in DOMAIN tasks \ {i} : tasks[k].file # f
  BY DEF WatchInv, OneTaskPerFile
<1> HIDE DEF t, f
<1>5. CASE command = "batch"
  <2>1. UNCHANGED known
    BY <1>5 DEF JoinBatch, JoinWatch
  <2>2. WatchTyped'
    BY <1>1, <1>3, <2>1 DEF WatchInv, WatchTyped
  <2>3. BatchTakesEachOnce'
    BY <1>1, <1>3, <2>1 DEF WatchInv, BatchTakesEachOnce
  <2>4. FlightHasTask' /\ WorkIsOfVersion'
    BY <1>1, <1>5 DEF FlightHasTask, WorkIsOfVersion
  <2>5. DoneIsHeard'
    BY <1>1, <2>1 DEF WatchInv, DoneIsHeard
  <2> QED BY <1>3, <2>2, <2>3, <2>4, <2>5 DEF WatchInv
<1>6. CASE command = "watch"
  <2> DEFINE e == known[f]
             ok == t.step = "ok"
  <2>1. /\ e \in [sig : Nat, stable : Nat, status : Statuses, dirty : BOOLEAN]
        /\ e.sig <= written[f] /\ DOMAIN known = Paths
    BY <1>2 DEF WatchInv, WatchTyped
  <2>2. e.status = "InFlight"
    BY <1>2, <1>6 DEF WatchInv, FlightHasTask, t, f
  <2>3. known' = [known EXCEPT ![f] = Completed(e, ok)]
    BY <1>6, <2>2 DEF JoinBatch, JoinWatch, t, f
  <2>4. /\ Completed(e, ok) \in [sig : Nat, stable : Nat, status : Statuses, dirty : BOOLEAN]
        /\ Completed(e, ok).sig = e.sig /\ Completed(e, ok).status # "InFlight"
        /\ Completed(e, ok).status = "Done" => ok /\ ~e.dirty
    BY <2>1 DEF Completed, Statuses
  <2>5. /\ DOMAIN known' = Paths /\ known'[f] = Completed(e, ok)
        /\ \A x \in Paths \ {f} : known'[x] = known[x]
    BY <1>2, <2>1, <2>3
  <2>6. WorkOf(t, e, inputs[f], out[f])
    BY <1>6, WorkSays DEF WatchInv, t, f
  <2> HIDE DEF e, ok
  <2>7. WatchTyped'
    BY ZenonT(60), <1>1, <1>3, <2>1, <2>4, <2>5 DEF WatchInv, WatchTyped, e
  <2>8. FlightHasTask'
    <3>1. \A x \in Paths \ {f} : known'[x].status = "InFlight"
                                   <=> \E j \in DOMAIN tasks' : tasks'[j].file = x
      <4> SUFFICES ASSUME NEW x \in Paths \ {f}
                   PROVE  known'[x].status = "InFlight"
                            <=> \E j \in DOMAIN tasks' : tasks'[j].file = x
        OBVIOUS
      <4>1. known[x].status = "InFlight" <=> \E j \in DOMAIN tasks : tasks[j].file = x
        BY <1>6 DEF WatchInv, FlightHasTask
      <4>2. \A j \in DOMAIN tasks : tasks[j].file = x => j # i
        BY DEF t, f
      <4> QED BY <1>3, <2>5, <4>1, <4>2
    <3>2. known'[f].status # "InFlight" /\ ~\E j \in DOMAIN tasks' : tasks'[j].file = f
      BY <1>3, <1>4, <2>4, <2>5
    <3> QED BY <3>1, <3>2 DEF FlightHasTask
  <2>9. WorkIsOfVersion'
    <3> SUFFICES ASSUME NEW j \in DOMAIN tasks'
                 PROVE  LET g == tasks'[j].file
                        IN  WorkOf(tasks'[j], known'[g], inputs[g], out[g])
      BY <1>1 DEF WorkIsOfVersion, WorkOf
    <3>1. PICK k \in DOMAIN tasks \ {i} : tasks'[j] = tasks[k]
      BY <1>3
    <3>2. tasks[k].file \in Paths \ {f}
      BY <1>2, <1>4
    <3>3. WorkOf(tasks[k], known[tasks[k].file], inputs[tasks[k].file], out[tasks[k].file])
      BY <1>6, WorkSays DEF WatchInv
    <3> QED BY <2>5, <3>1, <3>2, <3>3
  <2>10. DoneIsHeard'
    <3>1. \A x \in Paths \ {f} : known'[x] = known[x]
      BY <2>5
    <3>2. known'[f].status = "Done" /\ known'[f].sig = inputs[f] /\ inputs[f] # 0 =>
            \A k \in 1 .. Formats : out[f][k] = inputs[f]
      BY <2>4, <2>5, <2>6 DEF WorkOf, ok
    <3> QED BY <1>1, <3>1, <3>2 DEF WatchInv, DoneIsHeard
  <2>11. BatchTakesEachOnce'
    BY <1>1, <1>6 DEF BatchTakesEachOnce
  <2> QED BY <1>3, <2>7, <2>8, <2>9, <2>10, <2>11 DEF WatchInv
<1> QED BY <1>5, <1>6 DEF WatchInv, WatchTyped

LEMMA TopUpInv ==
  ASSUME WatchInv, TopUp
  PROVE  WatchInv'
<1> DEFINE f == Head(todo)
<1>1. /\ command = "batch" /\ todo # <<>> /\ todo \in Seq(Paths) /\ tasks \in Seq(FileTasks)
      /\ tasks' = Append(tasks, NewTask(f)) /\ todo' = Tail(todo)
      /\ UNCHANGED <<command, inputs, written, out, known>>
  BY DEF TopUp, Topped, WatchInv, WatchTyped
<1>2. IsInjective(todo) /\ \A i \in DOMAIN tasks, j \in DOMAIN todo : tasks[i].file # todo[j]
  BY <1>1 DEF WatchInv, BatchTakesEachOnce
<1>3. /\ f \in Paths /\ todo' \in Seq(Paths) /\ IsInjective(todo')
      /\ \A j \in DOMAIN todo' : \E k \in DOMAIN todo : todo[k] = todo'[j]
      /\ \A j \in DOMAIN todo' : todo'[j] # f
      /\ \E k \in DOMAIN todo : todo[k] = f
  <2>1. /\ f \in Paths /\ Tail(todo) \in Seq(Paths)
        /\ IsInjective(Tail(todo)) /\ f \notin Range(Tail(todo))
    BY <1>1, <1>2, PopFront
  <2>2. Range(todo) = {f} \cup Range(Tail(todo))
    BY <1>1, PopFront
  <2> QED BY <1>1, <2>1, <2>2 DEF Range
<1> HIDE DEF f
<1>4. \A i \in DOMAIN tasks : tasks[i].file # f
  BY <1>2, <1>3
<1>5. /\ tasks' \in Seq(FileTasks) /\ NewTask(f).file = f
      /\ \A j \in DOMAIN tasks' : \/ j \in DOMAIN tasks /\ tasks'[j] = tasks[j]
                                  \/ tasks'[j] = NewTask(f)
      /\ OneTaskPerFile'
  BY <1>1, <1>3, <1>4, TaskJoins DEF WatchInv, NewTask
<1>6. WatchTyped'
  BY <1>1, <1>3, <1>5 DEF WatchInv, WatchTyped
<1>7. BatchTakesEachOnce'
  <2>1. \A i \in DOMAIN tasks', j \in DOMAIN todo' : tasks'[i].file # todo'[j]
    BY <1>2, <1>3, <1>5
  <2> QED BY <1>1, <1>3, <2>1 DEF WatchInv, BatchTakesEachOnce
<1>8. FlightHasTask' /\ WorkIsOfVersion'
  BY <1>1 DEF FlightHasTask, WorkIsOfVersion
<1>9. DoneIsHeard'
  BY <1>1 DEF WatchInv, DoneIsHeard
<1> QED BY <1>5, <1>6, <1>7, <1>8, <1>9 DEF WatchInv

LEMMA ScanInv ==
  ASSUME WatchInv, Scan
  PROVE  WatchInv'
<1>1. /\ command = "watch" /\ UNCHANGED <<command, inputs, written, out, tasks>>
      /\ todo' \in Seq(Paths) /\ DOMAIN known' = Paths
      /\ \A f \in Paths : \/ known'[f] = known[f]
                          \/ known'[f] = Unknown /\ known[f].status # "InFlight"
  <2>1. command = "watch" /\ UNCHANGED <<command, inputs, written, out, tasks>>
    BY DEF Scan
  <2>2. CASE todo' \in Listings /\ known' = [f \in Paths |-> Retained(f)]
    BY <2>1, <2>2, ListingsAre DEF WatchInv, Retained
  <2>3. CASE UNCHANGED <<known, todo>>
    BY <2>1, <2>3 DEF WatchInv, WatchTyped
  <2> QED BY <2>1, <2>2, <2>3 DEF Scan
<1>2. /\ Unknown \in [sig : Nat, stable : Nat, status : Statuses, dirty : BOOLEAN]
      /\ Unknown.sig = 0 /\ Unknown.status = "Unknown"
  BY DEF Unknown, Statuses
<1>3. WatchTyped'
  <2>1. \A f \in Paths :
          /\ known'[f] \in [sig : Nat, stable : Nat, status : Statuses, dirty : BOOLEAN]
          /\ known'[f].sig <= written[f]
    <3>1. \A f \in Paths :
            /\ known[f] \in [sig : Nat, stable : Nat, status : Statuses, dirty : BOOLEAN]
            /\ known[f].sig <= written[f] /\ 0 <= written[f]
      BY DEF WatchInv, WatchTyped
    <3> QED BY <1>1, <1>2, <3>1
  <2> QED BY <1>1, <2>1 DEF WatchInv, WatchTyped
<1>4. FlightHasTask'
  BY <1>1, <1>2 DEF WatchInv, FlightHasTask
<1>5. \A i \in DOMAIN tasks : known'[tasks[i].file] = known[tasks[i].file]
  <2> SUFFICES ASSUME NEW i \in DOMAIN tasks PROVE known'[tasks[i].file] = known[tasks[i].file]
    OBVIOUS
  <2>1. tasks[i].file \in Paths
    BY TasksAre DEF WatchInv
  <2>2. known[tasks[i].file].status = "InFlight"
    BY <1>1, <2>1 DEF WatchInv, FlightHasTask
  <2> QED BY <1>1, <2>1, <2>2
<1>6. WorkIsOfVersion'
  BY <1>1, <1>5 DEF WatchInv, WorkIsOfVersion
<1>7. OneTaskPerFile' /\ BatchTakesEachOnce'
  BY <1>1 DEF WatchInv, OneTaskPerFile, BatchTakesEachOnce
<1>8. DoneIsHeard'
  BY <1>1, <1>2 DEF WatchInv, DoneIsHeard
<1> QED BY <1>3, <1>4, <1>6, <1>7, <1>8 DEF WatchInv

\* What a look makes of an entry: it is in flight if it was, or if a task is to begin.
LEMMA SeenIs ==
  ASSUME NEW e \in [sig : Nat, stable : Nat, status : Statuses, dirty : BOOLEAN],
         NEW now \in Nat, NEW room \in BOOLEAN
  PROVE  LET s == Seen(e, now, room) IN
         /\ s \in [sig : Nat, stable : Nat, status : Statuses, dirty : BOOLEAN]
         /\ s.sig = now
         /\ e.status = "InFlight" => s.status = "InFlight"
         /\ s.status = "InFlight" /\ e.status = "InFlight" => s = e \/ s.dirty
         /\ s.status = "Done" => e.status = "Done" /\ e.sig = now
<1>1. CASE e.status = "Unknown"
  BY <1>1 DEF Seen, Entry, Unknown, Statuses
<1>2. CASE e.status # "Unknown" /\ e.sig # now
  BY <1>2 DEF Seen, Statuses
<1>3. CASE e.status # "Unknown" /\ e.sig = now /\ e.status # "Pending"
  BY <1>3 DEF Seen
<1>4. CASE e.sig = now /\ e.status = "Pending"
  <2> DEFINE calm == IF e.stable < SettlePolls THEN e.stable + 1 ELSE SettlePolls
             next == IF calm = SettlePolls /\ room THEN "InFlight" ELSE "Pending"
             s == [e EXCEPT !.stable = calm, !.status = next]
  <2>1. Seen(e, now, room) = s
    BY <1>4 DEF Seen
  <2>2. calm \in Nat /\ next \in {"Pending", "InFlight"} /\ next \in Statuses
    BY WatchAssumption DEF Statuses
  <2> HIDE DEF calm, next
  <2>3. /\ s \in [sig : Nat, stable : Nat, status : Statuses, dirty : BOOLEAN]
        /\ s.sig = e.sig /\ s.status = next
    BY <2>2
  <2> HIDE DEF s
  <2> QED BY <1>4, <2>1, <2>2, <2>3
<1> QED BY <1>1, <1>2, <1>3, <1>4

LEMMA LookAtInv ==
  ASSUME WatchInv, LookAt
  PROVE  WatchInv'
<1> DEFINE f == Head(todo)
           e == Seen(known[f], inputs[f], Len(tasks) < Concurrency)
           Entries == [sig : Nat, stable : Nat, status : Statuses, dirty : BOOLEAN]
<1>1. /\ command = "watch" /\ UNCHANGED <<command, inputs, written, out>> /\ todo' = Tail(todo)
      /\ todo # <<>> /\ todo \in Seq(Paths) /\ tasks \in Seq(FileTasks) /\ DOMAIN known = Paths
  BY DEF LookAt, WatchInv, WatchTyped
<1>2. f \in Paths /\ todo' \in Seq(Paths)
  BY <1>1
<1>3. CASE UNCHANGED <<known, tasks>>
  BY <1>1, <1>2, <1>3 DEF WatchInv, WatchTyped, OneTaskPerFile, BatchTakesEachOnce, FlightHasTask,
                          WorkIsOfVersion, DoneIsHeard
<1>4. CASE /\ inputs[f] # 0 /\ known' = [known EXCEPT ![f] = e]
           /\ tasks' = IF e.status = "InFlight" /\ known[f].status # "InFlight"
                         THEN Append(tasks, NewTask(f)) ELSE tasks
  <2> HIDE DEF f
  <2>1. known[f] \in Entries /\ inputs[f] \in Nat /\ inputs[f] <= written[f]
    BY <1>2 DEF WatchInv, WatchTyped
  <2> DEFINE room == Len(tasks) < Concurrency
  <2>a. room \in BOOLEAN
    OBVIOUS
  <2>2. /\ e \in Entries /\ e.sig = inputs[f]
        /\ known[f].status = "InFlight" => e.status = "InFlight"
        /\ e.status = "InFlight" /\ known[f].status = "InFlight" => e = known[f] \/ e.dirty
        /\ e.status = "Done" => known[f].status = "Done" /\ known[f].sig = inputs[f]
    <3> HIDE DEF room
    <3>1. e = Seen(known[f], inputs[f], room)
      BY DEF room
    <3> HIDE DEF e
    <3> QED BY <2>1, <2>a, <3>1, SeenIs
  <2> HIDE DEF e
  <2>3. /\ DOMAIN known' = Paths /\ known'[f] = e
        /\ \A x \in Paths \ {f} : known'[x] = known[x]
    BY <1>1, <1>2, <1>4
  <2>4. /\ tasks' \in Seq(FileTasks) /\ OneTaskPerFile'
        /\ \A j \in DOMAIN tasks' : \/ j \in DOMAIN tasks /\ tasks'[j] = tasks[j]
                                    \/ tasks'[j] = NewTask(f)
        /\ \A k \in DOMAIN tasks : k \in DOMAIN tasks' /\ tasks'[k] = tasks[k]
        /\ e.status = "InFlight" <=> \E j \in DOMAIN tasks' : tasks'[j].file = f
    <3>1. known[f].status = "InFlight" <=> \E j \in DOMAIN tasks : tasks[j].file = f
      BY <1>1, <1>2 DEF WatchInv, FlightHasTask
    <3>2. CASE e.status = "InFlight" /\ known[f].status # "InFlight"
      <4>1. tasks' = Append(tasks, NewTask(f)) /\ \A j \in DOMAIN tasks : tasks[j].file # f
        BY <1>4, <3>1, <3>2
      <4> QED BY <1>1, <1>2, <3>2, <4>1, TaskJoins DEF WatchInv, NewTask
    <3>3. CASE ~(e.status = "InFlight" /\ known[f].status # "InFlight")
      <4>1. tasks' = tasks
        BY <1>4, <3>3
      <4> QED BY <1>1, <2>2, <3>1, <3>3, <4>1 DEF WatchInv, OneTaskPerFile
    <3> QED BY <3>2, <3>3
  <2>5. WatchTyped'
    BY <1>1, <1>2, <2>1, <2>2, <2>3, <2>4 DEF WatchInv, WatchTyped
  <2>6. BatchTakesEachOnce'
    BY <1>1 DEF BatchTakesEachOnce
  <2>7. FlightHasTask'
    <3>1. NewTask(f).file = f
      BY DEF NewTask
    <3>2. \A x \in Paths \ {f} : (\E j \in DOMAIN tasks' : tasks'[j].file = x)
                                   <=> \E j \in DOMAIN tasks : tasks[j].file = x
      BY <2>4, <3>1
    <3>3. \A x \in Paths \ {f} : known'[x].status = "InFlight"
                                   <=> \E j \in DOMAIN tasks' : tasks'[j].file = x
      BY <1>1, <2>3, <3>2 DEF WatchInv, FlightHasTask
    <3> QED BY <2>3, <2>4, <3>3 DEF FlightHasTask
  <2>8. WorkIsOfVersion'
    <3> SUFFICES ASSUME NEW j \in DOMAIN tasks'
                 PROVE  LET g == tasks'[j].file
                        IN  WorkOf(tasks'[j], known'[g], inputs[g], out[g])
      BY <1>1 DEF WorkIsOfVersion, WorkOf
    <3>1. CASE tasks'[j] = NewTask(f)
      <4>1. tasks'[j].step = "read"
        BY <3>1 DEF NewTask
      <4> QED BY <4>1 DEF WorkOf
    <3>2. CASE j \in DOMAIN tasks /\ tasks'[j] = tasks[j]
      <4> DEFINE g == tasks[j].file
      <4>1. g \in Paths /\ WorkOf(tasks[j], known[g], inputs[g], out[g])
        BY <1>1, <3>2, TasksAre, WorkSays DEF WatchInv
      <4>2. known'[g] = known[g] \/ known'[g].dirty
        <5>1. known[g].status = "InFlight"
          BY <1>1, <3>2, <4>1 DEF WatchInv, FlightHasTask
        <5> HIDE DEF g
        <5>2. CASE g = f
          BY <2>2, <2>3, <5>1, <5>2
        <5>3. CASE g # f
          BY <2>3, <4>1, <5>3
        <5> QED BY <5>2, <5>3
      <4> HIDE DEF g
      <4>3. WorkOf(tasks[j], known'[g], inputs[g], out[g])
        BY <4>1, <4>2 DEF WorkOf
      <4> QED BY <3>2, <4>3 DEF g
    <3> QED BY <2>4, <3>1, <3>2
  <2>9. DoneIsHeard'
    BY <1>1, <2>2, <2>3 DEF WatchInv, DoneIsHeard
  <2> QED BY <2>4, <2>5, <2>6, <2>7, <2>8, <2>9 DEF WatchInv
<1> QED BY <1>3, <1>4 DEF LookAt

\* For any directory, formats, limits and retries: whatever is written, removed and put back
\* while tasks work, a watch calls no file done whose outputs are of another content than
\* it saw last, and no two tasks are on one file (handle_completion, run_watch).
THEOREM WatchHolds == WatchSpec => []WatchMissesNothing
<1>1. WatchInit => WatchInv
  <2> SUFFICES ASSUME WatchInit PROVE WatchInv
    OBVIOUS
  <2>1. /\ Unknown \in [sig : Nat, stable : Nat, status : Statuses, dirty : BOOLEAN]
        /\ Unknown.sig = 0 /\ Unknown.status = "Unknown"
    BY DEF Unknown, Statuses
  <2>2. \A n \in Nat :
          /\ Entry(n, "Done") \in [sig : Nat, stable : Nat, status : Statuses, dirty : BOOLEAN]
          /\ Entry(n, "Done").sig = n /\ Entry(n, "Done").status = "Done"
    BY DEF Entry, Unknown, Statuses
  <2>3. /\ DOMAIN written = Paths /\ DOMAIN inputs = Paths /\ DOMAIN out = Paths
        /\ DOMAIN known = Paths
        /\ \A f \in Paths : /\ written[f] \in Nat /\ inputs[f] \in 0 .. written[f]
                            /\ inputs[f] \in {0, 1} /\ DOMAIN out[f] = 1 .. Formats
    BY DEF WatchInit
  <2>4. \A f \in Paths :
          /\ \/ known[f] = Unknown
             \/ command = "watch" /\ known[f] = Entry(inputs[f], "Done")
          /\ command = "batch" => known[f] = Unknown
    BY DEF WatchInit
  <2>5. tasks = <<>> /\ command \in {"batch", "watch"} /\ tasks \in Seq(FileTasks) /\ DOMAIN tasks = {}
    BY DEF WatchInit
  <2>6. \A f \in Paths :
          /\ known[f] \in [sig : Nat, stable : Nat, status : Statuses, dirty : BOOLEAN]
          /\ known[f].sig <= written[f] /\ known[f].status # "InFlight"
    <3> SUFFICES ASSUME NEW f \in Paths
                 PROVE  /\ known[f] \in [sig : Nat, stable : Nat,
                                        status : Statuses, dirty : BOOLEAN]
                        /\ known[f].sig <= written[f] /\ known[f].status # "InFlight"
      OBVIOUS
    <3>1. inputs[f] \in Nat /\ inputs[f] <= written[f] /\ 0 <= written[f]
      BY <2>3
    <3>2. CASE known[f] = Unknown
      BY <2>1, <3>1, <3>2
    <3>3. CASE known[f] = Entry(inputs[f], "Done")
      BY <2>2, <3>1, <3>3
    <3> QED BY <2>4, <3>2, <3>3
  <2>7. ASSUME todo \in Seq(Paths), command = "batch" => IsInjective(todo)
        PROVE  WatchInv
    <3>1. WatchTyped
      BY <2>3, <2>5, <2>6, <2>7 DEF WatchTyped
    <3>2. OneTaskPerFile /\ FlightHasTask /\ WorkIsOfVersion
      BY <2>5, <2>6 DEF OneTaskPerFile, FlightHasTask, WorkIsOfVersion
    <3>3. BatchTakesEachOnce
      BY <2>1, <2>4, <2>5, <2>7 DEF BatchTakesEachOnce
    <3>4. DoneIsHeard
      BY <2>1, <2>2, <2>3, <2>4 DEF DoneIsHeard
    <3> QED BY <3>1, <3>2, <3>3, <3>4 DEF WatchInv
  <2>8. CASE command = "batch"
    BY <2>7, <2>8, ListingsAre DEF WatchInit
  <2>9. CASE command = "watch"
    BY <2>7, <2>9 DEF WatchInit
  <2> QED BY <2>5, <2>8, <2>9
<1>2. WatchInv /\ [WatchNext]_watchVars => WatchInv'
  <2> SUFFICES ASSUME WatchInv, [WatchNext]_watchVars PROVE WatchInv'
    OBVIOUS
  <2>1. CASE UNCHANGED watchVars
    BY <2>1 DEF watchVars, WatchInv, WatchTyped, OneTaskPerFile, BatchTakesEachOnce, FlightHasTask,
                WorkIsOfVersion, DoneIsHeard
  <2>2. CASE WatchNext
    BY <2>2, OutsideInv, TaskInv, JoinInv, TopUpInv, ScanInv, LookAtInv DEF WatchNext
  <2> QED BY <2>1, <2>2
<1>3. WatchInv => WatchMissesNothing
  BY DEF WatchInv, WatchMissesNothing
<1> QED BY <1>1, <1>2, <1>3, PTL DEF WatchSpec

------------------------------------------------------------------------------
(* The sizes.                                                              *)

LEMMA DeploymentIs ==
  ASSUME deploy \in Deployments
  PROVE  /\ deploy.choice \in {"auto", "cpu", "coreml", "cuda"}
         /\ deploy.build \in {"default", "coreml", "cuda", "candle", "ane"}
         /\ deploy.encoder \in Nat /\ deploy.host \in Nat /\ deploy.cpus \in Nat
         /\ deploy.pool \in Nat /\ deploy.min \in Nat /\ deploy.batch \in Nat
         /\ deploy.threads \in Nat /\ deploy.v1 \in Int /\ deploy.v2 \in Int
         /\ ENCODER_RESIDENT_MULTIPLIER \in Nat \ {0} /\ POOL_RAM_FRACTION_DENOM \in Nat \ {0}
         /\ Unlimited \in Nat
BY ProvidersAssumption

LEMMA Quotient ==
  ASSUME NEW x \in Nat, NEW y \in Nat \ {0}
  PROVE  x \div y \in Nat /\ (x \div y) * y <= x
<1>1. \A q, r \in Nat : x = q * y + r => q * y <= x
  BY Z3T(20)
<1>2. x \div y \in Nat /\ x % y \in Nat /\ x = (x \div y) * y + (x % y)
  BY Z3T(20)
<1> QED
  BY <1>1, <1>2

LEMMA Products ==
  ASSUME NEW a \in Nat, NEW b \in Nat, NEW c \in Nat, a <= b PROVE a * c <= b * c
BY Z3T(20)

\* What fits a share of the memory fits the memory.
LEMMA ShareFits ==
  ASSUME NEW ram \in Nat, NEW e \in Nat \ {0}, NEW m \in Nat \ {0}, NEW d \in Nat \ {0},
         NEW n \in Nat, n <= (ram \div d) \div (e * m)
  PROVE  n * e * m * d <= ram
<1> DEFINE w == e * m
           u == ram \div d
           q == u \div w
<1>1. w \in Nat \ {0}
  BY Z3T(20)
<1>2. u \in Nat /\ u * d <= ram
  BY Quotient
<1>3. q \in Nat /\ q * w <= u
  <2> HIDE DEF w, u
  <2> QED
    BY <1>1, <1>2, Quotient
<1>4. n * w * d = n * e * m * d
  BY Z3T(20)
<1> HIDE DEF w, u
<1>5. n * w \in Nat /\ q * w \in Nat /\ n * w <= q * w
  <2>1. n <= q
    BY DEF w, u
  <2> HIDE DEF q
  <2>2. n * w <= q * w
    BY <1>1, <1>3, <2>1, Products
  <2> QED
    BY <1>1, <1>3, <2>2
<1> HIDE DEF q
<1>6. PICK a \in Nat : a = n * w
  BY <1>5
<1>7. a <= u
  BY <1>2, <1>3, <1>5, <1>6
<1>8. a * d <= u * d
  BY <1>2, <1>6, <1>7, Products
<1>9. a * d \in Nat /\ u * d \in Nat
  BY <1>2, <1>6
<1>10. a * d <= ram
  BY <1>2, <1>8, <1>9
<1> QED
  BY <1>4, <1>6, <1>10

LEMMA EffectiveIs ==
  ASSUME deploy \in Deployments
  PROVE  /\ effective_ram_bytes \in Nat /\ cgroup_memory_limit_bytes \in Nat
         /\ \A ram \in {deploy.host, cgroup_memory_limit_bytes} \ {0} :
              effective_ram_bytes <= ram /\ effective_ram_bytes # 0
<1>1. \A raw \in Int : parse_cgroup_memory_limit(raw) \in Nat
  BY DEF parse_cgroup_memory_limit
<1>2. cgroup_memory_limit_bytes \in Nat
  BY <1>1, DeploymentIs DEF cgroup_memory_limit_bytes
<1>3. deploy.host \in Nat
  BY DeploymentIs
<1> QED
  BY <1>2, <1>3 DEF effective_ram_bytes, Smaller

LEMMA CapIs ==
  ASSUME deploy \in Deployments, NEW n, n = cap_pool_size_for_ram(deploy.pool)
  PROVE  /\ n \in 1 .. Larger(deploy.pool, 1)
         /\ n > 1 => \A ram \in {deploy.host, cgroup_memory_limit_bytes} \ {0} :
              n * deploy.encoder * ENCODER_RESIDENT_MULTIPLIER * POOL_RAM_FRACTION_DENOM <= ram
<1> DEFINE e == deploy.encoder
           m == ENCODER_RESIDENT_MULTIPLIER
           d == POOL_RAM_FRACTION_DENOM
           r == effective_ram_bytes
           q == (r \div d) \div (e * m)
<1>1. /\ e \in Nat /\ m \in Nat \ {0} /\ d \in Nat \ {0} /\ r \in Nat /\ deploy.pool \in Nat
      /\ cgroup_memory_limit_bytes \in Nat /\ deploy.host \in Nat
  BY DeploymentIs, EffectiveIs
<1>2. CASE deploy.pool <= 1 \/ r = 0
  <2>1. n = Larger(deploy.pool, 1)
    BY <1>2 DEF cap_pool_size_for_ram
  <2>2. n \in 1 .. Larger(deploy.pool, 1)
    BY <1>1, <2>1 DEF Larger
  <2>3. n > 1 => {deploy.host, cgroup_memory_limit_bytes} \ {0} = {}
    BY <1>1, <1>2, <2>1, EffectiveIs DEF Larger
  <2> QED
    BY <2>2, <2>3
<1>3. CASE deploy.pool > 1 /\ e = 0 /\ r # 0
  <2>1. n = deploy.pool
    BY <1>1, <1>3 DEF cap_pool_size_for_ram, Larger
  <2>2. n * e * m * d = 0
    BY <1>1, <1>3, <2>1, Z3T(20)
  <2>3. \A ram \in {deploy.host, cgroup_memory_limit_bytes} : ram >= 0
    BY <1>1
  <2> QED
    BY <1>1, <1>3, <2>1, <2>2, <2>3 DEF Larger
<1>4. CASE deploy.pool > 1 /\ e # 0 /\ r # 0
  <2>1. n = Smaller(deploy.pool, Larger(1, q))
    BY <1>1, <1>4 DEF cap_pool_size_for_ram
  <2>2. e * m \in Nat \ {0}
    BY <1>1, <1>4, Z3T(20)
  <2>3. r \div d \in Nat
    BY <1>1, Quotient
  <2>4. q \in Nat
    <3> DEFINE w == e * m
               u == r \div d
    <3> HIDE DEF w, u
    <3>1. u \div w \in Nat
      BY <2>2, <2>3, Quotient DEF w, u
    <3> QED
      BY <3>1 DEF w, u
  <2>5. n \in 1 .. Larger(deploy.pool, 1) /\ (n > 1 => n <= q)
    <3> HIDE DEF q
    <3> QED
      BY <1>1, <1>4, <2>1, <2>4 DEF Smaller, Larger
  <2>6. n > 1 => n * e * m * d <= r
    <3> SUFFICES ASSUME n > 1 PROVE n * e * m * d <= r
      OBVIOUS
    <3>1. n \in Nat /\ e \in Nat \ {0} /\ n <= (r \div d) \div (e * m)
      BY <1>1, <1>4, <2>5 DEF Larger
    <3> HIDE DEF e, m, d, r
    <3> QED
      BY <1>1, <3>1, ShareFits
  <2>7. n * e * m * d \in Nat
    <3>1. n \in Nat
      BY <1>1, <2>5 DEF Larger
    <3> HIDE DEF e, m, d
    <3>2. \A x, y \in Nat : x * y \in Nat
      OBVIOUS
    <3> QED
      BY <1>1, <3>1, <3>2
  <2>8. \A ram \in {deploy.host, cgroup_memory_limit_bytes} \ {0} : ram \in Nat /\ r <= ram
    BY <1>1, EffectiveIs
  <2>9. PICK all \in Nat : all = n * e * m * d
    BY <2>7
  <2>10. n > 1 => \A ram \in {deploy.host, cgroup_memory_limit_bytes} \ {0} : all <= ram
    BY <1>1, <2>6, <2>8, <2>9
  <2> QED
    BY <2>5, <2>9, <2>10
<1> QED
  BY <1>1, <1>2, <1>3, <1>4

LEMMA ThreadsFit ==
  ASSUME deploy \in Deployments, NEW n \in Nat \ {0}, NEW t, t = clamp_encoder_intra_threads(n)
  PROVE  t > 1 => n * t <= deploy.cpus /\ t <= deploy.threads
<1> DEFINE c == Larger(deploy.cpus, 1)
           q == c \div n
<1>1. c \in Nat /\ deploy.threads \in Nat /\ deploy.cpus \in Nat
  BY DeploymentIs DEF Larger
<1>2. q \in Nat /\ q * n <= c
  <2> HIDE DEF c
  <2> QED
    BY <1>1, Quotient
<1>3. t = Smaller(Larger(deploy.threads, 1), Larger(1, q))
  BY DEF clamp_encoder_intra_threads
<1> HIDE DEF q
<1> SUFFICES ASSUME t > 1 PROVE n * t <= deploy.cpus /\ t <= deploy.threads
  OBVIOUS
<1>4. t \in Nat /\ t <= q /\ t <= deploy.threads
  BY <1>1, <1>2, <1>3 DEF Smaller, Larger
<1>5. t * n <= q * n /\ t * n \in Nat /\ q * n \in Nat /\ t * n = n * t
  <2>1. t * n <= q * n
    BY <1>2, <1>4, Products
  <2>2. \A x, y \in Nat : x * y \in Nat /\ x * y = y * x
    BY Z3T(20)
  <2> QED
    BY <1>2, <1>4, <2>1, <2>2
<1>6. c = deploy.cpus
  <2>1. t * n > 1
    <3>1. \A x, y \in Nat : x > 1 /\ y # 0 => x * y > 1
      BY Z3T(20)
    <3> QED
      BY <1>4, <3>1
  <2>2. c > 1
    <3> HIDE DEF c
    <3> QED
      BY <1>1, <1>2, <1>5, <2>1
  <2> QED
    BY <1>1, <2>2 DEF Larger
<1>7. PICK a \in Nat, b \in Nat : a = t * n /\ b = q * n
  BY <1>5
<1>8. a <= deploy.cpus
  BY <1>1, <1>2, <1>5, <1>6, <1>7
<1> QED
  BY <1>4, <1>5, <1>7, <1>8

------------------------------------------------------------------------------
(* The queues of triplets.                                                 *)

Device == OpenedOn(eps)

\* A queue of the triplets numbered from+1 to to, of one device, in any order.
Queue(q, d, from, to) ==
  /\ q \in Seq([id : Nat, device : {d}, runs : Nat]) /\ Len(q) = to - from
  /\ \A i \in 1 .. Len(q) : q[i].id \in from + 1 .. to
  /\ \A i, j \in 1 .. Len(q) : q[i].id = q[j].id => i = j

\* All of a queue but the first `left` have run.
RanBut(q, left) == left \in 0 .. Len(q) /\ \A k \in 1 .. Len(q) : k > left => q[k].runs > 0

\* The front of a queue runs, and goes to its end.
LEMMA FrontRuns ==
  ASSUME NEW d, NEW from \in Nat, NEW to \in Nat, NEW q, Queue(q, d, from, to), q # <<>>,
         NEW left \in Nat, RanBut(q, left)
  PROVE  /\ Queue(Warmed(q), d, from, to) /\ Len(Warmed(q)) = Len(q) /\ Head(q).device = d
         /\ RanBut(Warmed(q), IF left = 0 THEN 0 ELSE left - 1)
<1> DEFINE T == [id : Nat, device : {d}, runs : Nat]
           n == Len(q)
           e == [Head(q) EXCEPT !.runs = @ + 1]
           w == Warmed(q)
<1>1. q \in Seq(T) /\ n \in Nat \ {0} /\ Head(q) = q[1] /\ q[1] \in T
  <2>1. q \in Seq(T)
    BY DEF Queue
  <2> HIDE DEF T
  <2> QED
    BY <2>1, TailIs
<1>2. e \in T /\ e.id = q[1].id /\ e.runs > 0
  <2>1. \A r \in T : LET x == [r EXCEPT !.runs = @ + 1] IN x \in T /\ x.id = r.id /\ x.runs > 0
    OBVIOUS
  <2> HIDE DEF T
  <2> QED
    BY <1>1, <2>1
<1>3. Tail(q) \in Seq(T) /\ Len(Tail(q)) = n - 1 /\ \A k \in 1 .. n - 1 : Tail(q)[k] = q[k + 1]
  BY <1>1, TailIs
<1>4. w = Append(Tail(q), e)
  BY DEF Warmed
<1> HIDE DEF T, e, w
<1>5. w \in Seq(T) /\ Len(w) = n /\ w[n] = e /\ \A k \in 1 .. n - 1 : w[k] = q[k + 1]
  BY <1>1, <1>2, <1>3, <1>4, AppendIs
<1>6. \A i \in 1 .. n : \E j \in 1 .. n : w[i].id = q[j].id /\ j = (IF i = n THEN 1 ELSE i + 1)
  BY <1>1, <1>2, <1>5
<1>7. Queue(w, d, from, to)
  <2>1. \A i \in 1 .. n : w[i].id \in from + 1 .. to
    BY <1>6 DEF Queue
  <2>2. \A i, j \in 1 .. n : w[i].id = w[j].id => i = j
    <3> SUFFICES ASSUME NEW i \in 1 .. n, NEW j \in 1 .. n, w[i].id = w[j].id PROVE i = j
      OBVIOUS
    <3>1. PICK a \in 1 .. n : w[i].id = q[a].id /\ a = (IF i = n THEN 1 ELSE i + 1)
      BY <1>6
    <3>2. PICK b \in 1 .. n : w[j].id = q[b].id /\ b = (IF j = n THEN 1 ELSE j + 1)
      BY <1>6
    <3>3. a = b
      BY <3>1, <3>2 DEF Queue
    <3> QED
      BY <1>1, <3>1, <3>2, <3>3
  <2> QED
    BY <1>5, <2>1, <2>2 DEF Queue, T
<1>8. RanBut(w, IF left = 0 THEN 0 ELSE left - 1)
  <2>1. left \in 0 .. n /\ \A k \in 1 .. n : k > left => q[k].runs > 0
    BY DEF RanBut
  <2>2. \A k \in 1 .. n : k > (IF left = 0 THEN 0 ELSE left - 1) => w[k].runs > 0
    <3> TAKE k \in 1 .. n
    <3>1. CASE k = n
      BY <1>2, <1>5, <3>1
    <3>2. CASE k # n
      <4>1. k \in 1 .. n - 1 /\ k + 1 \in 1 .. n /\ w[k] = q[k + 1]
        BY <1>1, <1>5, <3>2
      <4> QED
        BY <2>1, <4>1
    <3> QED
      BY <3>1, <3>2
  <2>3. (IF left = 0 THEN 0 ELSE left - 1) \in 0 .. n
    BY <1>1, <2>1
  <2> QED
    BY <1>5, <2>2, <2>3 DEF RanBut
<1> QED
  BY <1>1, <1>5, <1>7, <1>8 DEF T, w

\* All of a queue is on its device, and has run when nothing is left to.
LEMMA AllRan ==
  ASSUME NEW d, NEW from, NEW to, NEW q, Queue(q, d, from, to), RanBut(q, 0)
  PROVE  \A k \in DOMAIN q : q[k].device = d /\ q[k].runs > 0
<1> DEFINE T == [id : Nat, device : {d}, runs : Nat]
<1>1. q \in Seq(T)
  BY DEF Queue
<1>2. \A r \in T : r.device = d
  OBVIOUS
<1> HIDE DEF T
<1>3. DOMAIN q = 1 .. Len(q) /\ \A k \in 1 .. Len(q) : q[k] \in T
  BY <1>1
<1>4. \A k \in 1 .. Len(q) : q[k].runs > 0
  <2>1. \A k \in 1 .. Len(q) : k > 0
    OBVIOUS
  <2> QED
    BY <2>1 DEF RanBut
<1> QED
  BY <1>2, <1>3, <1>4

LEMMA FreshIs ==
  ASSUME NEW d, NEW n \in Nat, NEW m \in 0 .. n, NEW f,
         f = [i \in 1 .. n |-> [id |-> i, device |-> d, runs |-> 0]]
  PROVE  /\ Len(f) = n /\ Queue(SubSeq(f, 1, m), d, 0, m) /\ Queue(SubSeq(f, m + 1, n), d, m, n)
<1> DEFINE T == [id : Nat, device : {d}, runs : Nat]
<1>1. f \in Seq(T) /\ Len(f) = n /\ \A i \in 1 .. n : f[i] \in T /\ f[i].id = i
  OBVIOUS
<1>2. /\ SubSeq(f, 1, m) \in Seq(T) /\ Len(SubSeq(f, 1, m)) = m
      /\ \A i \in 1 .. m : SubSeq(f, 1, m)[i] = f[i]
  BY <1>1
<1>3. /\ SubSeq(f, m + 1, n) \in Seq(T) /\ Len(SubSeq(f, m + 1, n)) = n - m
      /\ \A i \in 1 .. n - m : SubSeq(f, m + 1, n)[i] = f[m + i]
  BY <1>1
<1>4. Queue(SubSeq(f, 1, m), d, 0, m)
  BY <1>1, <1>2 DEF Queue
<1>5. Queue(SubSeq(f, m + 1, n), d, m, n)
  <2>1. \A i \in 1 .. n - m : SubSeq(f, m + 1, n)[i].id = m + i
    BY <1>1, <1>3
  <2> QED
    BY <1>3, <2>1 DEF Queue
<1> QED
  BY <1>1, <1>4, <1>5

LEMMA QueueIds ==
  ASSUME NEW d, NEW from, NEW to, NEW q, Queue(q, d, from, to)
  PROVE  /\ \A i \in 1 .. Len(q) : q[i].id \in from + 1 .. to
         /\ \A i, j \in 1 .. Len(q) : q[i] = q[j] => i = j
BY DEF Queue

\* Two queues of different triplets have as many of them as they are long.
LEMMA SessionsCount ==
  ASSUME NEW d, NEW n \in Nat, NEW m \in 0 .. n, Queue(pool, d, 0, m), Queue(batch_pool, d, m, n)
  PROVE  Cardinality(Sessions) = n
<1> DEFINE F == [k \in 1 .. n |-> IF k <= m THEN pool[k] ELSE batch_pool[k - m]]
<1>1. DOMAIN pool = 1 .. m /\ DOMAIN batch_pool = 1 .. n - m
        /\ Len(pool) = m /\ Len(batch_pool) = n - m
  BY DEF Queue
<1>2. Sessions = {F[k] : k \in 1 .. n}
  <2>1. \A k \in 1 .. m : k \in 1 .. n /\ F[k] = pool[k]
    OBVIOUS
  <2>2. \A k \in 1 .. n - m : k + m \in 1 .. n /\ F[k + m] = batch_pool[k]
    OBVIOUS
  <2>3. \A k \in 1 .. n : \/ k \in 1 .. m /\ F[k] = pool[k]
                          \/ k - m \in 1 .. n - m /\ F[k] = batch_pool[k - m]
    OBVIOUS
  <2> HIDE DEF F
  <2>4. \A k \in 1 .. m : \E j \in 1 .. n : pool[k] = F[j]
    BY <2>1
  <2>5. \A k \in 1 .. n - m : \E j \in 1 .. n : batch_pool[k] = F[j]
    BY <2>2
  <2>6. \A k \in 1 .. n : \/ \E j \in 1 .. m : F[k] = pool[j]
                          \/ \E j \in 1 .. n - m : F[k] = batch_pool[j]
    BY <2>3
  <2>7. Sessions = {pool[k] : k \in 1 .. m} \cup {batch_pool[k] : k \in 1 .. n - m}
    BY <1>1 DEF Sessions
  <2>8. \A x \in Sessions : \E k \in 1 .. n : x = F[k]
    BY <2>4, <2>5, <2>7
  <2>9. \A k \in 1 .. n : F[k] \in Sessions
    BY <2>6, <2>7
  <2> QED
    BY <2>8, <2>9
<1>3. /\ \A k \in 1 .. m : pool[k].id \in 1 .. m
      /\ \A k \in 1 .. n - m : batch_pool[k].id \in m + 1 .. n
      /\ \A i, j \in 1 .. m : pool[i] = pool[j] => i = j
      /\ \A i, j \in 1 .. n - m : batch_pool[i] = batch_pool[j] => i = j
  <2> HIDE DEF F
  <2>1. /\ \A i \in 1 .. Len(pool) : pool[i].id \in 0 + 1 .. m
        /\ \A i, j \in 1 .. Len(pool) : pool[i] = pool[j] => i = j
    BY QueueIds
  <2>2. /\ \A i \in 1 .. Len(batch_pool) : batch_pool[i].id \in m + 1 .. n
        /\ \A i, j \in 1 .. Len(batch_pool) : batch_pool[i] = batch_pool[j] => i = j
    BY QueueIds
  <2>3. Len(pool) = m /\ Len(batch_pool) = n - m
    BY <1>1
  <2>4. \A k \in 1 .. m : pool[k].id \in 1 .. m
    BY <2>1, <2>3
  <2>5. \A k \in 1 .. n - m : batch_pool[k].id \in m + 1 .. n
    BY <2>2, <2>3
  <2>6. \A i, j \in 1 .. m : pool[i] = pool[j] => i = j
    BY <2>1, <2>3
  <2>7. \A i, j \in 1 .. n - m : batch_pool[i] = batch_pool[j] => i = j
    BY <2>2, <2>3
  <2> QED
    BY <2>4, <2>5, <2>6, <2>7
<1>4. \A i, j \in 1 .. n : F[i] = F[j] => i = j
  <2> SUFFICES ASSUME NEW i \in 1 .. n, NEW j \in 1 .. n, F[i] = F[j] PROVE i = j
    OBVIOUS
  <2>1. CASE i <= m /\ j <= m
    BY <1>3, <2>1
  <2>2. CASE i > m /\ j > m
    <3>1. i - m \in 1 .. n - m /\ j - m \in 1 .. n - m /\ batch_pool[i - m] = batch_pool[j - m]
      BY <2>2
    <3>2. i - m = j - m
      BY <1>3, <3>1
    <3> QED
      BY <3>2
  <2>3. CASE i <= m /\ j > m
    <3>1. /\ pool[i].id \in 1 .. m /\ batch_pool[j - m].id \in m + 1 .. n
          /\ pool[i] = batch_pool[j - m]
      BY <1>3, <2>3
    <3> QED
      BY <3>1
  <2>4. CASE i > m /\ j <= m
    <3>1. /\ pool[j].id \in 1 .. m /\ batch_pool[i - m].id \in m + 1 .. n
          /\ pool[j] = batch_pool[i - m]
      BY <1>3, <2>4
    <3> QED
      BY <3>1
  <2> QED
    BY <2>1, <2>2, <2>3, <2>4
<1>5. F \in Bijection(1 .. n, Sessions)
  <2>1. F \in [1 .. n -> Sessions] /\ DOMAIN F = 1 .. n
    BY <1>2
  <2> HIDE DEF F
  <2> QED
    BY <1>2, <1>4, <2>1 DEF Bijection, Injection, Surjection, IsInjective
<1>6. IsFiniteSet(1 .. n) /\ Cardinality(1 .. n) = n
  BY FS_Interval
<1>7. ExistsBijection(1 .. n, Sessions)
  BY <1>5 DEF ExistsBijection
<1> QED
  BY <1>6, <1>7, FS_Bijection, FS_CardinalityType

------------------------------------------------------------------------------
(* The load.                                                               *)

Spare == deploy.choice = "auto"

\* The sessions are opened on what was asked for, or after Core ML on the CPU.
OpenedAsAsked ==
  \/ name = resolve_ort_provider /\ name # "refused"
       /\ eps = execution_providers(name, allows_cpu_fallback)
  \/ name = "cpu" /\ eps = <<"cpu">> /\ Spare /\ deploy.build = "coreml"

Stages ==
  {"asked", "primary", "fallback", "split", "probe", "rebuild", "resplit", "reprobe", "loaded",
   "warm", "error"}
Loading ==
  {"primary", "fallback", "split", "probe", "rebuild", "resplit", "reprobe", "loaded", "warm"}
Again == {"fallback", "rebuild", "resplit", "reprobe"}
Split == {"probe", "reprobe", "loaded", "warm"}

ProviderTyped ==
  /\ deploy \in Deployments /\ stage \in Stages
  /\ stage # "asked" => size \in Nat \ {0}
  /\ stage \in Loading => OpenedAsAsked
  /\ stage \in Again => eps = <<"cpu">>
  /\ stage \in Again \cup {"probe"} => deploy.build = "coreml"

\* The triplets that loaded are enough, and where they can be.
FreshInv ==
  stage \in Split \cup {"split", "resplit"} =>
    /\ loaded \in Nat /\ loaded >= Enough /\ Device # "nowhere"
    /\ fresh = [i \in 1 .. loaded |-> [id |-> i, device |-> Device, runs |-> 0]]

Behind == batch_split_count(loaded)

\* The pools share them; what is left to warm is at the front of each, and what has run
\* shows that the device works.
PoolsInv ==
  /\ stage \in Split =>
       /\ Queue(pool, Device, 0, loaded - Behind)
       /\ Queue(batch_pool, Device, loaded - Behind, loaded)
       /\ RanBut(pool, warmed.interactive) /\ RanBut(batch_pool, warmed.batch)
       /\ warmed = [interactive |-> warmed.interactive, batch |-> warmed.batch]
  /\ stage \in {"loaded", "warm"} =>
       (deploy.build = "coreml" \/ warmed.interactive < Len(pool) => Works(Device))
  /\ stage = "warm" => warmed.interactive = 0 /\ warmed.batch = 0

ProvidersInv == ProviderTyped /\ FreshInv /\ PoolsInv /\ SizesFit /\ FailsForReason

\* Only Core ML and CUDA have something behind them.
LEMMA OpenedIsOne ==
  ASSUME deploy \in Deployments, OpenedAsAsked
  PROVE  Spare /\ deploy.build \notin {"coreml", "cuda"} => Len(eps) = 1
<1> SUFFICES ASSUME Spare, deploy.build \notin {"coreml", "cuda"} PROVE Len(eps) = 1
  OBVIOUS
<1>1. deploy.build \in {"default", "candle", "ane"}
  BY DeploymentIs
<1>2. name = auto_backend_name /\ eps = execution_providers(name, TRUE)
  BY DEF OpenedAsAsked, Spare, resolve_ort_provider, allows_cpu_fallback
<1>3. name \in {"cpu", "candle", "ane"}
  BY <1>1, <1>2 DEF auto_backend_name, select_backend, compiled_ort_default
<1>4. eps = <<name>>
  BY <1>2, <1>3 DEF execution_providers
<1> QED
  BY <1>4

LEMMA DeviceIs ==
  ASSUME deploy \in Deployments, OpenedAsAsked, Device # "nowhere"
  PROVE  /\ Spare \/ Device = deploy.choice
         /\ Device \in {"candle", "ane"} => deploy.head = "rnnt"
         /\ \/ Device = name
            \/ name = "cuda" /\ Device = "cpu" /\ Spare /\ deploy.accelerator = "absent"
         /\ Spare /\ deploy.build = "default" => Device = "cpu"
<1>1. /\ deploy.choice \in {"auto", "cpu", "coreml", "cuda"}
      /\ deploy.build \in {"default", "coreml", "cuda", "candle", "ane"}
  BY DeploymentIs
<1> USE DEF Device, OpenedOn, Spare, allows_cpu_fallback
<1>2. CASE name = "cpu" /\ eps = <<"cpu">> /\ Spare /\ deploy.build = "coreml"
  BY <1>2
<1>3. CASE name = resolve_ort_provider /\ name # "refused"
             /\ eps = execution_providers(name, allows_cpu_fallback)
  <2>1. CASE ~Spare
    <3>1. name = deploy.choice /\ name \in {"cpu", "coreml", "cuda"}
      BY <1>1, <1>3, <2>1 DEF resolve_ort_provider
    <3>2. eps = <<name>> \/ (eps = <<"coreml", "cpu">> /\ name = "coreml")
      BY <1>3, <2>1 DEF execution_providers
    <3>3. eps[1] = name /\ eps # <<"cuda", "cpu">>
      <4>1. CASE eps = <<name>>
        <5>1. Len(<<name>>) = 1 /\ Len(<<"cuda", "cpu">>) = 2
          OBVIOUS
        <5> QED
          BY <4>1, <5>1
      <4>2. CASE eps = <<"coreml", "cpu">> /\ name = "coreml"
        BY <4>2
      <4> QED
        BY <3>2, <4>1, <4>2
    <3> QED
      BY <2>1, <3>1, <3>3
  <2>2. CASE Spare
    <3>1. name = auto_backend_name
      BY <1>3, <2>2 DEF resolve_ort_provider
    <3>2. /\ name \in {"cpu", "coreml", "cuda", "candle", "ane"}
          /\ name \in {"candle", "ane"} => deploy.head = "rnnt"
          /\ deploy.build = "default" => name = "cpu"
          /\ deploy.build \notin {"coreml", "cuda"} => name \notin {"coreml", "cuda"}
      BY <1>1, <3>1 DEF auto_backend_name, select_backend, compiled_ort_default
    <3>3. IF name \in {"coreml", "cuda"} THEN eps = <<name, "cpu">> ELSE eps = <<name>>
      BY <1>3, <2>2 DEF execution_providers
    <3>4. eps[1] = name /\ (Len(eps) = 1 <=> name \notin {"coreml", "cuda"})
            /\ (name = "coreml" => eps # <<"cuda", "cpu">>)
      <4>1. \A x : <<x>>[1] = x /\ <<x, "cpu">>[1] = x /\ Len(<<x>>) = 1 /\ Len(<<x, "cpu">>) = 2
              /\ (x # "cuda" => <<x, "cpu">> # <<"cuda", "cpu">>)
        OBVIOUS
      <4> QED
        BY <3>3, <4>1
    <3>5. Device = name \/ (name = "cuda" /\ Device = "cpu" /\ deploy.accelerator = "absent")
      <4>1. Device \in {name, "cpu"} /\ (Device = name \/ deploy.accelerator = "absent")
        BY <3>4
      <4>2. name # "cuda" => Device = name
        BY <3>2, <3>3, <3>4
      <4> QED
        BY <4>1, <4>2
    <3> QED
      BY <2>2, <3>2, <3>4, <3>5
  <2> QED
    BY <2>1, <2>2
<1> QED
  BY <1>2, <1>3 DEF OpenedAsAsked

LEMMA ProvidersStart == ProvidersInit => ProvidersInv
BY DEF ProvidersInit, ProvidersInv, ProviderTyped, Stages, Loading, Again, Split, FreshInv,
   PoolsInv, SizesFit, FailsForReason

LEMMA EnoughIs ==
  ASSUME deploy \in Deployments, size \in Nat \ {0}
  PROVE  Enough \in Nat \ {0} /\ Enough >= Smaller(size, deploy.min)
BY DeploymentIs DEF Enough, Smaller, Larger

LEMMA ResolveKeeps == ProvidersInv /\ Resolve => ProvidersInv'
<1> SUFFICES ASSUME ProvidersInv, Resolve PROVE ProvidersInv'
  OBVIOUS
<1>1. /\ deploy \in Deployments /\ deploy' = deploy /\ stage = "asked"
      /\ size' = cap_pool_size_for_ram(deploy.pool) /\ threads' = clamp_encoder_intra_threads(size')
      /\ name' = resolve_ort_provider
      /\ IF name' = "refused" THEN stage' = "error" /\ eps' = eps
         ELSE stage' = "primary" /\ eps' = execution_providers(name', allows_cpu_fallback)
  BY DEF ProvidersInv, ProviderTyped, Resolve
<1>2. size' \in 1 .. Larger(deploy.pool, 1) /\ deploy.pool \in Nat /\ size' \in Nat \ {0}
  BY <1>1, CapIs, DeploymentIs DEF Larger
<1>3. SizesFit'
  <2>1. cgroup_memory_limit_bytes' = cgroup_memory_limit_bytes
    BY <1>1 DEF cgroup_memory_limit_bytes
  <2>2. \A ram \in {deploy.host, cgroup_memory_limit_bytes} \ {0} :
          size' > 1 =>
            size' * deploy.encoder * ENCODER_RESIDENT_MULTIPLIER * POOL_RAM_FRACTION_DENOM <= ram
    BY <1>1, CapIs
  <2>3. threads' > 1 => size' * threads' <= deploy.cpus /\ threads' <= deploy.threads
    BY <1>1, <1>2, ThreadsFit
  <2> QED
    BY <1>1, <1>2, <2>1, <2>2, <2>3 DEF SizesFit
<1>4. FailsForReason'
  <2>1. name' = "refused" => deploy.choice \notin {"auto", "cpu", deploy.build}
    <3>1. CASE deploy.choice = "auto"
      <4>1. deploy.build \in {"default", "coreml", "cuda", "candle", "ane"}
        BY <1>1, DeploymentIs
      <4>2. auto_backend_name # "refused"
        BY <4>1 DEF auto_backend_name, select_backend, compiled_ort_default
      <4> QED
        BY <1>1, <3>1, <4>2 DEF resolve_ort_provider
    <3>2. CASE deploy.choice # "auto" /\ deploy.choice \in {"cpu", deploy.build}
      BY <1>1, <3>2, DeploymentIs DEF resolve_ort_provider
    <3> QED
      BY <3>1, <3>2
  <2> QED
    BY <1>1, <2>1 DEF FailsForReason
<1>5. ProviderTyped'
  <2>1. stage' \in {"primary", "error"}
    BY <1>1
  <2>2. stage' = "primary" => OpenedAsAsked'
    <3>1. stage' = "primary" => name' = resolve_ort_provider' /\ name' # "refused"
            /\ eps' = execution_providers(name', allows_cpu_fallback')
      BY <1>1 DEF resolve_ort_provider, auto_backend_name, select_backend, compiled_ort_default,
         allows_cpu_fallback
    <3> QED
      BY <3>1 DEF OpenedAsAsked, execution_providers
  <2> QED
    BY <1>1, <1>2, <2>1, <2>2 DEF ProviderTyped, Stages, Loading, Again
<1>6. FreshInv' /\ PoolsInv'
  <2>1. stage' \in {"primary", "error"}
    BY <1>1
  <2> QED
    BY <2>1 DEF FreshInv, PoolsInv, Split
<1> QED
  BY <1>3, <1>4, <1>5, <1>6 DEF ProvidersInv

\* Once the sizes are known they stay, and so does what they were made from.
LEMMA SizesStay ==
  ASSUME ProvidersInv, UNCHANGED <<deploy, size, threads>>, stage # "asked"
  PROVE  SizesFit' /\ Enough' = Enough /\ deploy \in Deployments /\ size \in Nat \ {0}
BY DEF ProvidersInv, ProviderTyped, SizesFit, Enough, cgroup_memory_limit_bytes

\* The device is that of the sessions that are opened.
LEMMA SameDevice ==
  ASSUME UNCHANGED <<deploy, eps>>
  PROVE  Device' = Device /\ (UNCHANGED name => (OpenedAsAsked' <=> OpenedAsAsked))
<1>1. Device' = Device
  BY DEF Device, OpenedOn
<1>2. UNCHANGED name => (OpenedAsAsked' <=> OpenedAsAsked)
  BY DEF OpenedAsAsked, Spare, resolve_ort_provider, auto_backend_name, select_backend,
     compiled_ort_default, execution_providers, allows_cpu_fallback
<1> QED
  BY <1>1, <1>2

\* A load that gives enough gives it on the device.
LEMMA TripletsAre ==
  ASSUME ProvidersInv, stage \in {"primary", "fallback", "rebuild"}, LoadTriplets,
         UNCHANGED <<deploy, size>>
  PROVE  /\ loaded' \in Nat
         /\ loaded' >= Enough =>
              /\ Device # "nowhere"
              /\ fresh' = [i \in 1 .. loaded' |-> [id |-> i, device |-> Device, runs |-> 0]]
<1>1. deploy \in Deployments /\ size \in Nat \ {0}
  BY DEF ProvidersInv, ProviderTyped
<1>2. Enough \in Nat \ {0}
  BY <1>1, EnoughIs
<1>3. PICK n \in 0 .. size :
        /\ OpenedOn(eps) = "nowhere" => n = 0
        /\ loaded' = n
        /\ fresh' = IF n < Enough THEN <<>>
                    ELSE [i \in 1 .. n |-> [id |-> i, device |-> OpenedOn(eps), runs |-> 0]]
  BY DEF LoadTriplets
<1> QED
  BY <1>1, <1>2, <1>3 DEF Device

LEMMA LoadPrimaryKeeps == ProvidersInv /\ LoadPrimary => ProvidersInv'
<1> SUFFICES ASSUME ProvidersInv, LoadPrimary PROVE ProvidersInv'
  OBVIOUS
<1>1. /\ stage = "primary" /\ LoadTriplets
      /\ UNCHANGED <<deploy, size, threads, pool, batch_pool, warmed>>
      /\ IF loaded' >= Enough THEN stage' = "split" /\ UNCHANGED <<eps, name>>
         ELSE IF deploy.build = "coreml" /\ allows_cpu_fallback
         THEN stage' = "fallback" /\ eps' = cpu_fallback /\ name' = "cpu"
         ELSE stage' = "error" /\ UNCHANGED <<eps, name>>
  BY DEF LoadPrimary
<1>2. SizesFit' /\ Enough' = Enough /\ deploy \in Deployments /\ size \in Nat \ {0} /\ OpenedAsAsked
  BY <1>1, SizesStay DEF ProvidersInv, ProviderTyped, Loading
<1>3. /\ loaded' \in Nat /\ Enough \in Nat \ {0}
      /\ loaded' >= Enough =>
           /\ Device # "nowhere"
           /\ fresh' = [i \in 1 .. loaded' |-> [id |-> i, device |-> Device, runs |-> 0]]
  BY <1>1, <1>2, TripletsAre, EnoughIs
<1>4. CASE loaded' >= Enough
  <2>1. stage' = "split" /\ UNCHANGED <<eps, name>>
    BY <1>1, <1>4
  <2>2. Device' = Device /\ OpenedAsAsked'
    BY <1>1, <1>2, <2>1, SameDevice
  <2>3. ProviderTyped'
    BY <1>1, <1>2, <2>1, <2>2 DEF ProviderTyped, Stages, Again
  <2>4. FreshInv'
    BY <1>2, <1>3, <1>4, <2>2 DEF FreshInv
  <2>5. PoolsInv' /\ FailsForReason'
    BY <2>1 DEF PoolsInv, Split, FailsForReason
  <2> QED
    BY <1>2, <2>3, <2>4, <2>5 DEF ProvidersInv
<1>5. CASE ~(loaded' >= Enough) /\ deploy.build = "coreml" /\ Spare
  <2>1. stage' = "fallback" /\ eps' = <<"cpu">> /\ name' = "cpu"
    BY <1>1, <1>5 DEF Spare, allows_cpu_fallback, cpu_fallback
  <2>2. OpenedAsAsked'
    BY <1>1, <1>5, <2>1 DEF OpenedAsAsked, Spare
  <2>3. ProviderTyped'
    BY <1>1, <1>2, <1>5, <2>1, <2>2 DEF ProviderTyped, Stages, Again
  <2>4. FreshInv' /\ PoolsInv' /\ FailsForReason'
    BY <2>1 DEF FreshInv, PoolsInv, Split, FailsForReason
  <2> QED
    BY <1>2, <2>3, <2>4 DEF ProvidersInv
<1>6. CASE ~(loaded' >= Enough) /\ ~(deploy.build = "coreml" /\ Spare)
  <2>1. stage' = "error" /\ UNCHANGED <<eps, name>>
    BY <1>1, <1>6 DEF Spare, allows_cpu_fallback
  <2>2. ProviderTyped'
    BY <1>1, <1>2, <2>1 DEF ProviderTyped, Stages, Again, Loading
  <2>3. FreshInv' /\ PoolsInv'
    BY <2>1 DEF FreshInv, PoolsInv, Split
  <2>4. Spare /\ deploy.build \notin {"coreml", "cuda"} => Len(eps) = 1
    BY <1>2, OpenedIsOne
  <2>5. FailsForReason'
    BY <1>1, <1>2, <1>3, <1>6, <2>1, <2>4 DEF FailsForReason, Spare
  <2> QED
    BY <1>2, <2>2, <2>3, <2>5 DEF ProvidersInv
<1> QED
  BY <1>4, <1>5, <1>6

LEMMA LoadFallbackKeeps == ProvidersInv /\ LoadFallback => ProvidersInv'
<1> SUFFICES ASSUME ProvidersInv, LoadFallback PROVE ProvidersInv'
  OBVIOUS
<1>1. /\ stage \in {"fallback", "rebuild"} /\ LoadTriplets
      /\ UNCHANGED <<deploy, size, threads, name, eps, pool, batch_pool, warmed>>
      /\ stage' = IF loaded' < Enough THEN "error"
                  ELSE IF stage = "rebuild" THEN "resplit" ELSE "split"
  BY DEF LoadFallback
<1>2. SizesFit' /\ Enough' = Enough /\ deploy \in Deployments /\ size \in Nat \ {0} /\ OpenedAsAsked
        /\ eps = <<"cpu">> /\ deploy.build = "coreml"
  BY <1>1, SizesStay DEF ProvidersInv, ProviderTyped, Loading, Again
<1>3. /\ loaded' \in Nat /\ Enough \in Nat \ {0}
      /\ loaded' >= Enough =>
           /\ Device # "nowhere"
           /\ fresh' = [i \in 1 .. loaded' |-> [id |-> i, device |-> Device, runs |-> 0]]
  BY <1>1, <1>2, TripletsAre, EnoughIs
<1>4. Device' = Device /\ OpenedAsAsked'
  BY <1>1, <1>2, SameDevice
<1>5. stage' \in {"error", "split", "resplit"} /\ (stage' = "error" <=> ~(loaded' >= Enough))
  BY <1>1, <1>3
<1>6. ProviderTyped'
  BY <1>1, <1>2, <1>4, <1>5 DEF ProviderTyped, Stages, Again, Loading
<1>7. FreshInv'
  BY <1>2, <1>3, <1>4, <1>5 DEF FreshInv, Split
<1>8. PoolsInv'
  BY <1>5 DEF PoolsInv, Split
<1>9. FailsForReason'
  <2>1. Len(eps) = 1
    BY <1>2
  <2> QED
    BY <1>1, <1>2, <1>3, <1>5, <2>1 DEF FailsForReason
<1> QED
  BY <1>2, <1>6, <1>7, <1>8, <1>9 DEF ProvidersInv

LEMMA BatchIs ==
  ASSUME deploy \in Deployments, NEW n \in Nat \ {0}
  PROVE  /\ batch_split_count(n) \in 0 .. n - 1 /\ batch_split_count(n) <= deploy.batch
         /\ deploy.batch > batch_split_count(n) => batch_split_count(n) = n - 1
BY DeploymentIs DEF batch_split_count, Smaller, Larger

LEMMA SplitPoolKeeps == ProvidersInv /\ SplitPool => ProvidersInv'
<1> SUFFICES ASSUME ProvidersInv, SplitPool PROVE ProvidersInv'
  OBVIOUS
<1>1. /\ stage \in {"split", "resplit"}
      /\ UNCHANGED <<deploy, size, threads, name, eps, loaded, fresh>>
      /\ stage' = IF deploy.build # "coreml" THEN "loaded"
                  ELSE IF stage = "resplit" THEN "reprobe" ELSE "probe"
  BY DEF SplitPool
<1>2. SizesFit' /\ Enough' = Enough /\ deploy \in Deployments /\ size \in Nat \ {0} /\ OpenedAsAsked
        /\ (stage = "resplit" => eps = <<"cpu">> /\ deploy.build = "coreml")
  BY <1>1, SizesStay DEF ProvidersInv, ProviderTyped, Loading, Again
<1>3. /\ loaded \in Nat /\ loaded >= Enough /\ Device # "nowhere" /\ Enough \in Nat \ {0}
      /\ fresh = [i \in 1 .. loaded |-> [id |-> i, device |-> Device, runs |-> 0]]
  BY <1>1, <1>2, EnoughIs DEF ProvidersInv, FreshInv
<1>4. Device' = Device /\ OpenedAsAsked'
  BY <1>1, <1>2, SameDevice
<1>5. stage' \in {"loaded", "probe", "reprobe"}
  BY <1>1
<1>6. ProviderTyped'
  BY <1>1, <1>2, <1>4, <1>5 DEF ProviderTyped, Stages, Again, Loading
<1>7. FreshInv'
  BY <1>1, <1>2, <1>3, <1>4, <1>5 DEF FreshInv
<1>8. PoolsInv'
  <2>1. PICK b : b = Behind
    OBVIOUS
  <2>2. loaded \in Nat \ {0} /\ b = batch_split_count(loaded) /\ b \in 0 .. loaded - 1
    BY <1>2, <1>3, <2>1, BatchIs DEF Behind
  <2>3. Behind' = b
    BY <1>1, <2>1 DEF Behind, batch_split_count
  <2>4. loaded - b \in 0 .. loaded /\ b \in Nat
    BY <2>2
  <2>5. /\ Len(fresh) = loaded /\ Queue(SubSeq(fresh, 1, loaded - b), Device, 0, loaded - b)
        /\ Queue(SubSeq(fresh, loaded - b + 1, loaded), Device, loaded - b, loaded)
    BY <1>3, <2>4, FreshIs
  <2>6. /\ pool' = SubSeq(fresh, 1, loaded - b)
        /\ batch_pool' = SubSeq(fresh, loaded - b + 1, loaded)
        /\ warmed' = [interactive |-> loaded - b, batch |-> b]
    BY <2>2, <2>5 DEF SplitPool
  <2>7. Queue(pool', Device, 0, loaded - b) /\ Queue(batch_pool', Device, loaded - b, loaded)
    BY <2>5, <2>6
  <2>8. Len(pool') = loaded - b /\ Len(batch_pool') = b
    BY <2>2, <2>7 DEF Queue
  <2>9. RanBut(pool', loaded - b) /\ RanBut(batch_pool', b)
    BY <2>2, <2>4, <2>8 DEF RanBut
  <2>10. stage' = "loaded" => deploy'.build # "coreml" /\ ~(warmed'.interactive < Len(pool'))
    BY SMTT(30), <1>1, <2>2, <2>6, <2>8
  <2> QED
    BY <1>1, <1>4, <1>5, <2>3, <2>6, <2>7, <2>9, <2>10 DEF PoolsInv
<1>9. FailsForReason'
  BY <1>5 DEF FailsForReason
<1> QED
  BY <1>2, <1>6, <1>7, <1>8, <1>9 DEF ProvidersInv

\* What the three warm-ups have in common: the interactive pool is not empty, and all of
\* its triplets, and of the other's, are on the device.
LEMMA PoolsAre ==
  ASSUME ProvidersInv, stage \in Split
  PROVE  /\ deploy \in Deployments /\ size \in Nat \ {0} /\ loaded \in Nat \ {0} /\ OpenedAsAsked
         /\ Device # "nowhere" /\ Behind \in 0 .. loaded - 1 /\ loaded - Behind \in Nat \ {0}
         /\ Queue(pool, Device, 0, loaded - Behind) /\ pool # <<>> /\ Len(pool) = loaded - Behind
         /\ Queue(batch_pool, Device, loaded - Behind, loaded) /\ Len(batch_pool) = Behind
         /\ RanBut(pool, warmed.interactive) /\ RanBut(batch_pool, warmed.batch)
         /\ warmed.interactive \in 0 .. Len(pool) /\ warmed.batch \in 0 .. Len(batch_pool)
<1>1. deploy \in Deployments /\ size \in Nat \ {0} /\ OpenedAsAsked
  BY DEF ProvidersInv, ProviderTyped, Loading, Split
<1>2. loaded \in Nat \ {0} /\ Device # "nowhere"
  BY <1>1, EnoughIs DEF ProvidersInv, FreshInv
<1>3. Behind \in 0 .. loaded - 1 /\ loaded - Behind \in Nat \ {0}
  BY <1>1, <1>2, BatchIs DEF Behind
<1>4. /\ Queue(pool, Device, 0, loaded - Behind)
      /\ Queue(batch_pool, Device, loaded - Behind, loaded)
      /\ RanBut(pool, warmed.interactive) /\ RanBut(batch_pool, warmed.batch)
  BY DEF ProvidersInv, PoolsInv
<1>5. Len(pool) = loaded - Behind /\ Len(batch_pool) = Behind /\ pool # <<>>
  BY <1>2, <1>3, <1>4 DEF Queue
<1> QED
  BY <1>1, <1>2, <1>3, <1>4, <1>5 DEF RanBut

LEMMA Probe1Keeps == ProvidersInv /\ Probe1 => ProvidersInv'
<1> SUFFICES ASSUME ProvidersInv, Probe1 PROVE ProvidersInv'
  OBVIOUS
<1>1. /\ stage \in {"probe", "reprobe"} /\ pool' = Warmed(pool)
      /\ UNCHANGED <<deploy, size, threads, loaded, fresh, batch_pool, warmed>>
      /\ IF Works(Head(pool).device) THEN stage' = "loaded" /\ UNCHANGED <<eps, name>>
         ELSE IF stage = "probe" /\ allows_cpu_fallback
         THEN stage' = "rebuild" /\ eps' = cpu_fallback /\ name' = "cpu"
         ELSE stage' = "error" /\ UNCHANGED <<eps, name>>
  BY DEF Probe1
<1>2. SizesFit' /\ Enough' = Enough /\ deploy.build = "coreml"
        /\ (stage = "reprobe" => eps = <<"cpu">>)
  BY <1>1, SizesStay DEF ProvidersInv, ProviderTyped, Loading, Again
<1>3. /\ deploy \in Deployments /\ size \in Nat \ {0} /\ loaded \in Nat \ {0} /\ OpenedAsAsked
      /\ Device # "nowhere" /\ loaded - Behind \in Nat \ {0} /\ pool # <<>>
      /\ Queue(pool, Device, 0, loaded - Behind) /\ RanBut(pool, warmed.interactive)
      /\ warmed.interactive \in 0 .. Len(pool)
  BY <1>1, PoolsAre DEF Split
<1>4. /\ Queue(pool', Device, 0, loaded - Behind) /\ Len(pool') = Len(pool)
      /\ Head(pool).device = Device
      /\ RanBut(pool', IF warmed.interactive = 0 THEN 0 ELSE warmed.interactive - 1)
  <2>1. warmed.interactive \in Nat /\ 0 \in Nat /\ loaded - Behind \in Nat
    BY <1>3 DEF RanBut
  <2> QED
    BY <1>1, <1>3, <2>1, FrontRuns
<1>5. RanBut(pool', warmed.interactive)
  BY SMTT(30), <1>3, <1>4 DEF RanBut, Queue
<1>6. CASE Works(Device)
  <2>1. stage' = "loaded" /\ UNCHANGED <<eps, name>>
    BY <1>1, <1>4, <1>6
  <2>2. Device' = Device /\ OpenedAsAsked' /\ Behind' = Behind /\ Works(Device)'
    BY <1>1, <1>3, <1>6, <2>1, SameDevice DEF Behind, batch_split_count, Works
  <2>3. ProviderTyped'
    BY <1>1, <1>3, <2>1, <2>2 DEF ProviderTyped, Stages, Again, Loading
  <2>4. FreshInv'
    BY <1>1, <1>2, <2>1, <2>2 DEF ProvidersInv, FreshInv, Split
  <2>5. PoolsInv'
    <3>1. /\ Queue(batch_pool, Device, loaded - Behind, loaded) /\ RanBut(batch_pool, warmed.batch)
          /\ warmed = [interactive |-> warmed.interactive, batch |-> warmed.batch]
      BY <1>1 DEF ProvidersInv, PoolsInv, Split
    <3> QED
      BY <1>1, <1>4, <1>5, <2>1, <2>2, <3>1 DEF PoolsInv
  <2>6. FailsForReason'
    BY <2>1 DEF FailsForReason
  <2> QED
    BY <1>2, <2>3, <2>4, <2>5, <2>6 DEF ProvidersInv
<1>7. CASE ~Works(Device) /\ stage = "probe" /\ Spare
  <2>1. stage' = "rebuild" /\ eps' = <<"cpu">> /\ name' = "cpu"
    BY <1>1, <1>4, <1>7 DEF Spare, allows_cpu_fallback, cpu_fallback
  <2>2. OpenedAsAsked'
    BY <1>1, <1>2, <1>7, <2>1 DEF OpenedAsAsked, Spare
  <2>3. ProviderTyped'
    BY <1>1, <1>2, <1>3, <2>1, <2>2 DEF ProviderTyped, Stages, Again
  <2>4. FreshInv' /\ PoolsInv' /\ FailsForReason'
    BY <2>1 DEF FreshInv, PoolsInv, Split, FailsForReason
  <2> QED
    BY <1>2, <2>3, <2>4 DEF ProvidersInv
<1>8. CASE ~Works(Device) /\ ~(stage = "probe" /\ Spare)
  <2>1. stage' = "error" /\ UNCHANGED <<eps, name>>
    BY <1>1, <1>4, <1>8 DEF Spare, allows_cpu_fallback
  <2>2. ProviderTyped'
    BY <1>1, <1>3, <2>1 DEF ProviderTyped, Stages, Again, Loading
  <2>3. FreshInv' /\ PoolsInv'
    BY <2>1 DEF FreshInv, PoolsInv, Split
  <2>4. stage = "reprobe" => Device = "cpu"
    BY <1>2 DEF Device, OpenedOn
  <2>5. FailsForReason'
    <3>1. CASE Device = "cpu"
      BY <1>1, <1>8, <3>1 DEF FailsForReason, Works
    <3>2. CASE Device # "cpu"
      BY <1>1, <1>8, <2>4, <3>2 DEF FailsForReason, Works, Spare
    <3> QED
      BY <3>1, <3>2
  <2> QED
    BY <1>2, <2>2, <2>3, <2>5 DEF ProvidersInv
<1> QED
  BY <1>1, <1>6, <1>7, <1>8

\* A device that does not work is a reason where there was none to go to.
LEMMA BrokenForReason ==
  ASSUME deploy \in Deployments, OpenedAsAsked, Device # "nowhere", ~Works(Device),
         deploy.build # "coreml", deploy' = deploy
  PROVE  FailsForReason'
<1>1. CASE Device = "cpu"
  BY <1>1 DEF FailsForReason, Works
<1>2. CASE Device # "cpu"
  <2>1. deploy.accelerator # "works"
    BY <1>2 DEF Works
  <2>2. deploy.choice # "auto" \/ deploy.build # "default"
    BY <1>2, DeviceIs DEF Spare
  <2>3. deploy.build \in {"default", "coreml", "cuda", "candle", "ane"}
    BY DeploymentIs
  <2> QED
    BY <2>1, <2>2, <2>3 DEF FailsForReason
<1> QED
  BY <1>1, <1>2

LEMMA WarmInteractiveKeeps == ProvidersInv /\ WarmInteractive => ProvidersInv'
<1> SUFFICES ASSUME ProvidersInv, WarmInteractive PROVE ProvidersInv'
  OBVIOUS
<1>1. /\ stage = "loaded" /\ warmed.interactive > 0 /\ pool' = Warmed(pool)
      /\ UNCHANGED <<deploy, size, threads, name, eps, loaded, fresh, batch_pool>>
      /\ IF Works(Head(pool).device)
         THEN warmed' = [warmed EXCEPT !.interactive = @ - 1] /\ UNCHANGED stage
         ELSE stage' = "error" /\ UNCHANGED warmed
  BY DEF WarmInteractive
<1>2. SizesFit' /\ Enough' = Enough
  BY <1>1, SizesStay
<1>3. /\ deploy \in Deployments /\ size \in Nat \ {0} /\ loaded \in Nat \ {0} /\ OpenedAsAsked
      /\ Device # "nowhere" /\ loaded - Behind \in Nat \ {0} /\ pool # <<>>
      /\ Queue(pool, Device, 0, loaded - Behind) /\ RanBut(pool, warmed.interactive)
      /\ Queue(batch_pool, Device, loaded - Behind, loaded) /\ RanBut(batch_pool, warmed.batch)
      /\ warmed.interactive \in 0 .. Len(pool) /\ Len(pool) = loaded - Behind
  BY <1>1, PoolsAre DEF Split
<1>4. /\ Queue(pool', Device, 0, loaded - Behind) /\ Len(pool') = Len(pool)
      /\ Head(pool).device = Device
      /\ RanBut(pool', IF warmed.interactive = 0 THEN 0 ELSE warmed.interactive - 1)
  <2>1. warmed.interactive \in Nat /\ 0 \in Nat /\ loaded - Behind \in Nat
    BY <1>3 DEF RanBut
  <2> QED
    BY <1>1, <1>3, <2>1, FrontRuns
<1>5. Device' = Device /\ OpenedAsAsked' /\ Behind' = Behind
  BY <1>1, <1>3, SameDevice DEF Behind, batch_split_count
<1>6. CASE Works(Device)
  <2>1. warmed' = [warmed EXCEPT !.interactive = @ - 1] /\ stage' = "loaded"
    BY <1>1, <1>4, <1>6
  <2>2. Works(Device)'
    BY <1>1, <1>5, <1>6 DEF Works
  <2>3. ProviderTyped'
    BY <1>1, <1>3, <1>5, <2>1 DEF ProviderTyped, Stages, Again, Loading
  <2>4. FreshInv'
    BY <1>1, <1>2, <1>5, <2>1 DEF ProvidersInv, FreshInv, Split
  <2>5. PoolsInv'
    <3>1. warmed = [interactive |-> warmed.interactive, batch |-> warmed.batch]
      BY <1>1 DEF ProvidersInv, PoolsInv, Split
    <3>2. warmed' = [interactive |-> warmed.interactive - 1, batch |-> warmed.batch]
      BY <2>1, <3>1
    <3>3. RanBut(pool', warmed'.interactive) /\ RanBut(batch_pool', warmed'.batch)
      BY <1>1, <1>3, <1>4, <3>2
    <3>4. warmed' = [interactive |-> warmed'.interactive, batch |-> warmed'.batch]
      BY <3>2
    <3> QED
      BY <1>1, <1>3, <1>4, <1>5, <2>1, <2>2, <3>3, <3>4 DEF PoolsInv
  <2>6. FailsForReason'
    BY <2>1 DEF FailsForReason
  <2> QED
    BY <1>2, <2>3, <2>4, <2>5, <2>6 DEF ProvidersInv
<1>7. CASE ~Works(Device)
  <2>1. stage' = "error"
    BY <1>1, <1>4, <1>7
  <2>2. ProviderTyped' /\ FreshInv' /\ PoolsInv'
    BY <1>1, <1>3, <2>1 DEF ProviderTyped, Stages, Again, Loading, FreshInv, PoolsInv, Split
  <2>3. deploy.build # "coreml"
    BY <1>1, <1>7 DEF ProvidersInv, PoolsInv
  <2>4. FailsForReason'
    BY <1>1, <1>3, <1>7, <2>1, <2>3, BrokenForReason
  <2> QED
    BY <1>2, <2>2, <2>4 DEF ProvidersInv
<1> QED
  BY <1>6, <1>7

LEMMA WarmBatchKeeps == ProvidersInv /\ WarmBatch => ProvidersInv'
<1> SUFFICES ASSUME ProvidersInv, WarmBatch PROVE ProvidersInv'
  OBVIOUS
<1>1. /\ stage = "loaded" /\ warmed.interactive = 0 /\ warmed.batch > 0
      /\ batch_pool' = Warmed(batch_pool)
      /\ UNCHANGED <<deploy, size, threads, name, eps, loaded, fresh, pool>>
      /\ IF Works(Head(batch_pool).device)
         THEN warmed' = [warmed EXCEPT !.batch = @ - 1] /\ UNCHANGED stage
         ELSE stage' = "error" /\ UNCHANGED warmed
  BY DEF WarmBatch
<1>2. SizesFit' /\ Enough' = Enough
  BY <1>1, SizesStay
<1>3. /\ deploy \in Deployments /\ size \in Nat \ {0} /\ loaded \in Nat \ {0} /\ OpenedAsAsked
      /\ Device # "nowhere" /\ Behind \in 0 .. loaded - 1 /\ loaded - Behind \in Nat \ {0}
      /\ Queue(pool, Device, 0, loaded - Behind) /\ RanBut(pool, warmed.interactive)
      /\ Queue(batch_pool, Device, loaded - Behind, loaded) /\ RanBut(batch_pool, warmed.batch)
      /\ warmed.batch \in 0 .. Len(batch_pool) /\ Len(batch_pool) = Behind
      /\ Len(pool) = loaded - Behind
  BY <1>1, PoolsAre DEF Split
<1>4. Works(Device)
  BY <1>1, <1>3 DEF ProvidersInv, PoolsInv
<1>5. /\ Queue(batch_pool', Device, loaded - Behind, loaded) /\ Len(batch_pool') = Len(batch_pool)
      /\ Head(batch_pool).device = Device /\ RanBut(batch_pool', warmed.batch - 1)
  <2>1. warmed.batch \in Nat \ {0} /\ batch_pool # <<>> /\ loaded \in Nat
    BY <1>1, <1>3
  <2>2. PICK m \in Nat : m = loaded - Behind
    BY <1>3
  <2>3. Queue(batch_pool, Device, m, loaded)
    BY <1>3, <2>2
  <2>4. PICK left \in Nat : left = warmed.batch
    BY <2>1
  <2>5. RanBut(batch_pool, left)
    BY <1>3, <2>4
  <2>6. /\ Queue(Warmed(batch_pool), Device, m, loaded)
        /\ Len(Warmed(batch_pool)) = Len(batch_pool) /\ Head(batch_pool).device = Device
        /\ RanBut(Warmed(batch_pool), IF left = 0 THEN 0 ELSE left - 1)
    BY <2>1, <2>2, <2>3, <2>5, FrontRuns
  <2> QED
    BY <1>1, <2>1, <2>2, <2>4, <2>6
<1>6. Device' = Device /\ OpenedAsAsked' /\ Behind' = Behind /\ Works(Device)'
  BY <1>1, <1>3, <1>4, SameDevice DEF Behind, batch_split_count, Works
<1>7. warmed' = [warmed EXCEPT !.batch = @ - 1] /\ stage' = "loaded"
  BY <1>1, <1>4, <1>5
<1>8. ProviderTyped'
  BY <1>1, <1>3, <1>6, <1>7 DEF ProviderTyped, Stages, Again, Loading
<1>9. FreshInv'
  BY <1>1, <1>2, <1>6, <1>7 DEF ProvidersInv, FreshInv, Split
<1>10. PoolsInv'
  <2>1. warmed = [interactive |-> warmed.interactive, batch |-> warmed.batch]
    BY <1>1 DEF ProvidersInv, PoolsInv, Split
  <2>2. warmed' = [interactive |-> warmed.interactive, batch |-> warmed.batch - 1]
    BY <1>7, <2>1
  <2>3. RanBut(pool', warmed'.interactive) /\ RanBut(batch_pool', warmed'.batch)
    BY <1>1, <1>3, <1>5, <2>2
  <2>4. warmed' = [interactive |-> warmed'.interactive, batch |-> warmed'.batch]
    BY <2>2
  <2> QED
    BY <1>1, <1>3, <1>5, <1>6, <1>7, <2>3, <2>4 DEF PoolsInv
<1>11. FailsForReason'
  BY <1>7 DEF FailsForReason
<1> QED
  BY <1>2, <1>8, <1>9, <1>10, <1>11 DEF ProvidersInv

LEMMA ServeKeeps == ProvidersInv /\ Serve => ProvidersInv'
<1> SUFFICES ASSUME ProvidersInv, Serve PROVE ProvidersInv'
  OBVIOUS
<1>1. /\ stage = "loaded" /\ warmed.interactive = 0 /\ warmed.batch = 0 /\ stage' = "warm"
      /\ UNCHANGED <<deploy, size, threads, name, eps, loaded, fresh, pool, batch_pool, warmed>>
  BY DEF Serve
<1>2. SizesFit' /\ Enough' = Enough
  BY <1>1, SizesStay
<1>3. deploy \in Deployments /\ size \in Nat \ {0} /\ OpenedAsAsked
  BY <1>1, PoolsAre DEF Split
<1>4. Device' = Device /\ OpenedAsAsked' /\ Behind' = Behind /\ (Works(Device)' <=> Works(Device))
  BY <1>1, <1>3, SameDevice DEF Behind, batch_split_count, Works
<1>5. ProviderTyped'
  BY <1>1, <1>3, <1>4 DEF ProviderTyped, Stages, Again, Loading
<1>6. FreshInv'
  BY <1>1, <1>2, <1>4 DEF ProvidersInv, FreshInv, Split
<1>7. PoolsInv'
  BY <1>1, <1>4 DEF ProvidersInv, PoolsInv, Split
<1>8. FailsForReason'
  BY <1>1 DEF FailsForReason
<1> QED
  BY <1>2, <1>5, <1>6, <1>7, <1>8 DEF ProvidersInv

LEMMA ProvidersStutter == ProvidersInv /\ UNCHANGED providerVars => ProvidersInv'
<1> SUFFICES ASSUME ProvidersInv, UNCHANGED providerVars PROVE ProvidersInv'
  OBVIOUS
<1> USE DEF providerVars
<1>1. Device' = Device /\ (OpenedAsAsked' <=> OpenedAsAsked)
  BY SameDevice
<1>2. Behind' = Behind /\ (Works(Device)' <=> Works(Device)) /\ Enough' = Enough
        /\ cgroup_memory_limit_bytes' = cgroup_memory_limit_bytes
  BY <1>1 DEF Behind, batch_split_count, Works, Enough, cgroup_memory_limit_bytes
<1>3. ProviderTyped' /\ FreshInv'
  BY <1>1, <1>2 DEF ProvidersInv, ProviderTyped, FreshInv
<1>4. PoolsInv'
  BY <1>1, <1>2 DEF ProvidersInv, PoolsInv
<1>5. SizesFit' /\ FailsForReason'
  BY <1>2 DEF ProvidersInv, SizesFit, FailsForReason
<1> QED
  BY <1>3, <1>4, <1>5 DEF ProvidersInv

LEMMA ProvidersHold == ProvidersSpec => []ProvidersInv
<1>1. ProvidersInv /\ [ProvidersNext]_providerVars => ProvidersInv'
  BY ResolveKeeps, LoadPrimaryKeeps, LoadFallbackKeeps, SplitPoolKeeps, Probe1Keeps,
     WarmInteractiveKeeps, WarmBatchKeeps, ServeKeeps, ProvidersStutter DEF ProvidersNext
<1> QED
  BY <1>1, ProvidersStart, PTL DEF ProvidersSpec

LEMMA ProvidersInvSuffices == ProvidersInv => EngineIsAsAsked
<1> SUFFICES ASSUME ProvidersInv PROVE EngineIsAsAsked
  OBVIOUS
<1>1. ASSUME Serving PROVE DeviceAsAsked /\ PoolsAsAsked
  <2>1. stage = "warm" /\ stage \in Split
    BY <1>1 DEF Serving, Split
  <2>2. /\ deploy \in Deployments /\ size \in Nat \ {0} /\ loaded \in Nat \ {0} /\ OpenedAsAsked
        /\ Device # "nowhere" /\ Behind \in 0 .. loaded - 1 /\ loaded - Behind \in Nat \ {0}
        /\ Queue(pool, Device, 0, loaded - Behind) /\ pool # <<>> /\ Len(pool) = loaded - Behind
        /\ Queue(batch_pool, Device, loaded - Behind, loaded) /\ Len(batch_pool) = Behind
        /\ RanBut(pool, warmed.interactive) /\ RanBut(batch_pool, warmed.batch)
    BY <2>1, PoolsAre
  <2>3. warmed.interactive = 0 /\ warmed.batch = 0 /\ Works(Device)
    BY <2>1, <2>2 DEF ProvidersInv, PoolsInv
  <2>4. \A t \in Sessions : t.device = Device /\ t.runs > 0
    <3>1. /\ \A k \in DOMAIN pool : pool[k].device = Device /\ pool[k].runs > 0
          /\ \A k \in DOMAIN batch_pool : batch_pool[k].device = Device /\ batch_pool[k].runs > 0
      BY <2>2, <2>3, AllRan
    <3> QED
      BY <3>1 DEF Sessions
  <2>5. DeviceAsAsked
    <3>1. /\ Spare \/ Device = deploy.choice
          /\ Device \in {"candle", "ane"} => deploy.head = "rnnt"
          /\ \/ Device = name
             \/ name = "cuda" /\ Device = "cpu" /\ Spare /\ deploy.accelerator = "absent"
      BY <2>2, DeviceIs
    <3> QED
      BY <2>3, <2>4, <3>1 DEF DeviceAsAsked, Spare
  <2>6. PoolsAsAsked
    <3>1. PICK m \in 0 .. loaded : m = loaded - Behind
      BY <2>2
    <3>2. Cardinality(Sessions) = loaded
      BY <2>2, <3>1, SessionsCount
    <3>3. Behind <= deploy.batch /\ (deploy.batch > Behind => Behind = loaded - 1)
      BY <2>2, BatchIs DEF Behind
    <3>4. loaded >= Smaller(size, deploy.min)
      <4>1. loaded >= Enough /\ Enough \in Nat /\ Enough >= Smaller(size, deploy.min)
        BY <2>1, <2>2, EnoughIs DEF ProvidersInv, FreshInv
      <4>2. Smaller(size, deploy.min) \in Nat
        BY <2>2, DeploymentIs DEF Smaller
      <4> QED
        BY <2>2, <4>1, <4>2
    <3> QED
      BY <2>2, <2>4, <3>2, <3>3, <3>4 DEF PoolsAsAsked
  <2> QED
    BY <2>5, <2>6
<1>2. DeviceAsAsked /\ PoolsAsAsked
  BY <1>1 DEF DeviceAsAsked, PoolsAsAsked
<1> QED
  BY <1>2 DEF EngineIsAsAsked, ProvidersInv

------------------------------------------------------------------------------
(* The boot.                                                               *)

\* The head that is found in a directory, and the engine that is built from one.
FoundAt(p) == {k \in DOMAIN Variants : p.heads[Variants[k]] # "none"}
FirstOf(found) ==
  IF found = {} THEN "none" ELSE Variants[CHOOSE k \in found : \A j \in found : k <= j]
DetectAt(p) == FirstOf(FoundAt(p))
ChosenAt(p) ==
  IF setup.variant # "none" THEN setup.variant
  ELSE IF DetectAt(p) # "none" THEN DetectAt(p) ELSE "rnnt"
PackAt(p, v) == IF p.manifest.state = "none" THEN v ELSE p.manifest.architecture
EngineOf(p, v) ==
  [head |-> v, pack |-> PackAt(p, v), pool |-> recipe.pool,
   punctuation |-> resolve_punctuation(v) /\ p.punct, itn |-> resolve_itn(v),
   vad |-> recipe.vad /\ p.vad, words |-> (setup.words /\ p.words) \/ setup.lexicon]

\* A boot knows its arguments, and has an engine once it is up.
BootTyped ==
  /\ setup \in Setups /\ place \in Directories /\ config \in Configs
  /\ boot \in {"args", "ensure", "sides", "build", "up", "refused"}
  /\ boot # "args" => recipe = WithProfile
  /\ boot = "up" <=> built # <<>>
  /\ built # <<>> => built = [k \in 1 .. Len(built) |-> built[k]] /\ Len(built) \in 1 .. 2
  /\ Len(built) = 2 => setup.command = "serve"

\* The limits are those of the flags until the file is read again.
LimitsInv ==
  boot \notin {"args", "refused"} /\ setup.command = "serve" /\ ~hung_up =>
    /\ setup.rpm # Unset => limits.rpm = setup.rpm
    /\ setup.burst # Unset => limits.burst = setup.burst
    /\ limits.rpm > 0 => limits.burst > 0

\* What was ensured is what a service will choose, and what its passes need is there.
EnsuredInv ==
  /\ boot \in {"sides", "build"} =>
       /\ setup.variant # "none" => resolved = setup.variant
       /\ setup.online /\ place.manifest.state = "none" => ChosenAt(place) = resolved
       /\ place.manifest.state # "none" => resolved = place.manifest.architecture
  /\ boot = "build" /\ setup.online =>
       /\ resolve_punctuation(resolved) => place.punct
       /\ recipe.vad => place.vad

\* An engine is made of its directory: of a service, whatever was ensured.
MadeOf(b) ==
  /\ b.engine = EngineOf(b.place, b.engine.head)
  /\ setup.command = "serve" => b.engine.head = ChosenAt(b.place)
  /\ setup.variant # "none" => b.engine.head = setup.variant
  /\ b.place.manifest.state = "none" => b.place.heads[b.engine.head] = "set"
  /\ b.place.manifest.state # "none" =>
       b.place.manifest.state = "whole" /\ (IsCtc(b.engine.pack) => IsCtc(b.engine.head))
OwnPack == \A k \in DOMAIN built : ManifestUnasked(k) \/ built[k].engine.pack = built[k].engine.head
BuiltInv ==
  /\ \A k \in DOMAIN built : MadeOf(built[k])
  /\ OwnPack
  /\ SidesFitEngine

BootInv == BootTyped /\ LimitsInv /\ EnsuredInv /\ BuiltInv /\ AnswerAsAsked

LEMMA DetectedAt ==
  ASSUME NEW p \in Directories
  PROVE  /\ DetectAt(p) \in {"none"} \cup HeadNames
         /\ p.heads["rnnt"] # "none" => DetectAt(p) = "rnnt"
<1>1. DOMAIN Variants = {1, 2, 3} /\ Variants[1] = "rnnt" /\ Variants[2] = "e2e_rnnt"
        /\ Variants[3] = "ml_ctc"
  BY DEF Variants
<1>2. CASE FoundAt(p) = {}
  BY <1>1, <1>2 DEF DetectAt, FirstOf, FoundAt
<1>3. CASE FoundAt(p) # {}
  <2> DEFINE Foremost(k) == k \in FoundAt(p) /\ \A j \in FoundAt(p) : k <= j
  <2>1. FoundAt(p) \subseteq {1, 2, 3}
    BY <1>1 DEF FoundAt
  <2>2. \E k : Foremost(k)
    BY <2>1, <1>3
  <2>3. PICK k : k = (CHOOSE i \in FoundAt(p) : \A j \in FoundAt(p) : i <= j) /\ Foremost(k)
    BY <2>2
  <2>4. DetectAt(p) = Variants[k]
    BY <1>3, <2>3 DEF DetectAt, FirstOf
  <2>5. k \in {1, 2, 3}
    BY <2>3, <2>1
  <2>6. p.heads["rnnt"] # "none" => k = 1
    <3>1. p.heads["rnnt"] # "none" => 1 \in FoundAt(p)
      BY <1>1 DEF FoundAt
    <3> QED
      BY <3>1, <2>3, <2>5
  <2>7. Variants[k] \in HeadNames
    BY <2>5, <1>1 DEF HeadNames
  <2> QED
    BY <2>4, <2>6, <2>7, <1>1
<1> QED
  BY <1>2, <1>3

\* In the terms of the code.
LEMMA ChosenHere ==
  /\ detect_in_dir = DetectAt(place) /\ resolve_variant_local = ChosenAt(place)
  /\ \A v : Finished(v) = EngineOf(place, v)
<1>1. detect_in_dir = DetectAt(place)
  BY DEF detect_in_dir, DetectAt, FirstOf, FoundAt
<1>2. resolve_variant_local = ChosenAt(place)
  BY <1>1 DEF resolve_variant_local, ChosenAt
<1>3. \A v : Finished(v) = EngineOf(place, v)
  BY DEF Finished, EngineOf, PackOf, PackAt, maybe_load_punctuator, maybe_load_vad,
     resolve_hotwords
<1> QED
  BY <1>1, <1>2, <1>3

\* With the files of a head that was asked for, found whole or none of both in the
\* directory, it is this head that is found afterwards.
LEMMA FetchedIsChosen ==
  ASSUME BootTyped, NEW q, q = [place EXCEPT !.heads[wanted_variant] = "set"]
  PROVE  q \in Directories /\ ChosenAt(q) = wanted_variant /\ q.manifest = place.manifest
<1> DEFINE w == wanted_variant
<1>1. place \in Directories /\ setup.variant \in {"none"} \cup HeadNames
  BY BootAssumption DEF BootTyped
<1>2. "rnnt" \in HeadNames /\ "none" \notin HeadNames
  <2>1. HeadNames = {"rnnt", "e2e_rnnt", "ml_ctc"}
    BY DEF HeadNames, Variants
  <2> QED
    BY <2>1
<1>3. existing \in {"none"} \cup HeadNames /\ (existing # "none" => existing = DetectAt(place)
        /\ place.heads[existing] = "set")
  BY <1>1, DetectedAt, ChosenHere DEF existing, is_usable_present
<1>4. w \in HeadNames
  BY <1>1, <1>2, <1>3 DEF wanted_variant
<1>5. q \in Directories /\ q.manifest = place.manifest
        /\ q.heads = [place.heads EXCEPT ![w] = "set"]
  BY <1>1, <1>4 DEF Directories
<1>6. ChosenAt(q) = w
  <2>1. CASE setup.variant # "none"
    BY <2>1 DEF ChosenAt, wanted_variant
  <2>2. CASE setup.variant = "none" /\ existing # "none"
    <3>1. w = existing
      BY <2>2 DEF wanted_variant
    <3>2. \A h \in HeadNames : q.heads[h] = place.heads[h]
      BY <1>1, <1>3, <1>4, <1>5, <2>2, <3>1 DEF Directories
    <3>3. FoundAt(q) = FoundAt(place)
      BY <3>2 DEF FoundAt, HeadNames
    <3>4. DetectAt(q) = DetectAt(place)
      BY <3>3 DEF DetectAt
    <3> QED
      BY <3>1, <3>4, <1>3, <2>2 DEF ChosenAt
  <2>3. CASE setup.variant = "none" /\ existing = "none"
    <3>1. w = "rnnt"
      BY <2>3 DEF wanted_variant
    <3>2. q.heads["rnnt"] # "none"
      BY <1>1, <1>2, <1>5, <3>1 DEF Directories
    <3>3. DetectAt(q) = "rnnt"
      BY <3>2, <1>5, DetectedAt
    <3> QED
      BY <3>1, <3>3, <2>3 DEF ChosenAt
  <2> QED
    BY <2>1, <2>2, <2>3
<1> QED
  BY <1>5, <1>6

LEMMA BootStarts == BootInit => BootInv
<1> SUFFICES ASSUME BootInit PROVE BootInv
  OBVIOUS
<1> USE DEF BootInit
<1>1. BootTyped
  BY BootAssumption DEF BootTyped
<1>2. LimitsInv /\ EnsuredInv
  BY DEF LimitsInv, EnsuredInv
<1>3. BuiltInv
  BY DEF BuiltInv, OwnPack, SidesFitEngine
<1>4. AnswerAsAsked
  BY DEF AnswerAsAsked, Unanswered, Default
<1> QED
  BY <1>1, <1>2, <1>3, <1>4 DEF BootInv

\* Nothing is built, and nobody answered.
LEMMA NothingBuilt ==
  ASSUME BootInv, UNCHANGED <<setup, built, answer>>, boot # "up", boot' # "up"
  PROVE  BuiltInv' /\ AnswerAsAsked' /\ built = <<>>
<1>1. built = <<>>
  BY DEF BootInv, BootTyped
<1>2. BuiltInv'
  BY <1>1 DEF BuiltInv, OwnPack, SidesFitEngine
<1>3. AnswerAsAsked'
  BY <1>1 DEF BootInv, AnswerAsAsked
<1> QED
  BY <1>1, <1>2, <1>3

LEMMA ReadArgsKeeps == BootInv /\ ReadArgs => BootInv'
<1> SUFFICES ASSUME BootInv, ReadArgs PROVE BootInv'
  OBVIOUS
<1>1. /\ boot = "args" /\ boot' \in {"ensure", "refused"}
      /\ UNCHANGED <<setup, place, config, changes, hung_up, resolved, built, answer>>
      /\ recipe' = WithProfile /\ WithProfile' = WithProfile /\ WithFlags' = WithFlags
  BY DEF ReadArgs, WithProfile, Edge, WithFlags, FromFile
<1>2. BuiltInv' /\ AnswerAsAsked' /\ built = <<>>
  BY <1>1, NothingBuilt
<1>3. BootTyped'
  BY <1>1, <1>2 DEF BootInv, BootTyped
<1>4. LimitsInv'
  <2> SUFFICES ASSUME boot' = "ensure", setup.command = "serve"
               PROVE  /\ setup.rpm # Unset => limits'.rpm = setup.rpm
                      /\ setup.burst # Unset => limits'.burst = setup.burst
                      /\ limits'.rpm > 0 => limits'.burst > 0
    BY <1>1 DEF LimitsInv
  <2>1. limits' = WithFlags /\ ~(limits'.rpm > 0 /\ limits'.burst = 0)
    BY <1>1 DEF ReadArgs
  <2>2. setup.rpm \in Nat \cup {Unset} /\ setup.burst \in Nat \cup {Unset}
          /\ config.rpm \in Nat /\ config.burst \in Nat
    BY BootAssumption DEF BootInv, BootTyped
  <2>3. FromFile.rpm \in Nat /\ FromFile.burst \in Nat
    BY <2>2 DEF FromFile, DefaultLimits
  <2>4. limits'.rpm = (IF setup.rpm # Unset THEN setup.rpm ELSE FromFile.rpm)
          /\ limits'.burst = (IF setup.burst # Unset THEN setup.burst ELSE FromFile.burst)
    BY <2>1 DEF WithFlags
  <2>5. limits'.rpm \in Nat /\ limits'.burst \in Nat
    BY <2>2, <2>3, <2>4
  <2> QED
    BY <2>1, <2>4, <2>5
<1>5. EnsuredInv'
  BY <1>1 DEF EnsuredInv
<1> QED
  BY <1>2, <1>3, <1>4, <1>5 DEF BootInv

LEMMA EnsureHeadKeeps == BootInv /\ EnsureHead => BootInv'
<1> SUFFICES ASSUME BootInv, EnsureHead PROVE BootInv'
  OBVIOUS
<1>1. /\ boot = "ensure" /\ boot' \in {"sides", "refused"}
      /\ UNCHANGED <<setup, config, changes, recipe, limits, hung_up, built, answer>>
      /\ WithProfile' = WithProfile /\ WithFlags' = WithFlags
  BY DEF EnsureHead, WithProfile, Edge, WithFlags, FromFile
<1>2. BuiltInv' /\ AnswerAsAsked' /\ built = <<>>
  BY <1>1, NothingBuilt
<1>3. place' \in Directories /\ EnsuredInv'
  <2>1. BootTyped
    BY DEF BootInv
  <2>2. CASE place.manifest.state # "none"
    <3>1. place' = place /\ resolved' = place.manifest.architecture
            /\ (boot' = "sides" => PackAccepted)
      BY <2>2, <1>1 DEF EnsureHead
    <3> QED
      BY <1>1, <2>1, <2>2, <3>1 DEF BootTyped, EnsuredInv, PackAccepted
  <2>3. CASE place.manifest.state = "none" /\ boot' = "refused"
    BY <1>1, <2>1, <2>3 DEF EnsureHead, EnsuredInv, BootTyped
  <2>4. CASE place.manifest.state = "none" /\ boot' = "sides"
    <3>1. place' = [place EXCEPT !.heads[wanted_variant] = "set"] /\ resolved' = wanted_variant
      BY <2>4 DEF EnsureHead
    <3>2. place' \in Directories /\ ChosenAt(place') = wanted_variant
      BY <2>1, <3>1, FetchedIsChosen
    <3>3. ChosenAt(place)' = wanted_variant
      BY <3>2, <1>1 DEF ChosenAt
    <3>4. setup.variant # "none" => wanted_variant = setup.variant
      BY DEF wanted_variant
    <3> QED
      BY <1>1, <2>4, <3>1, <3>2, <3>3, <3>4 DEF EnsuredInv
  <2> QED
    BY <1>1, <2>2, <2>3, <2>4
<1>4. BootTyped'
  BY <1>1, <1>2, <1>3 DEF BootInv, BootTyped
<1>5. LimitsInv'
  BY <1>1 DEF BootInv, LimitsInv
<1> QED
  BY <1>2, <1>3, <1>4, <1>5 DEF BootInv

LEMMA EnsureSidesKeeps == BootInv /\ EnsureSides => BootInv'
<1> SUFFICES ASSUME BootInv, EnsureSides PROVE BootInv'
  OBVIOUS
<1>1. /\ boot = "sides" /\ boot' = "build" /\ place' = SidesFetched
      /\ UNCHANGED <<setup, config, changes, recipe, limits, hung_up, resolved, built, answer>>
      /\ WithProfile' = WithProfile /\ WithFlags' = WithFlags
      /\ \A v : resolve_punctuation(v)' = resolve_punctuation(v)
  BY DEF EnsureSides, WithProfile, Edge, WithFlags, FromFile, resolve_punctuation
<1>2. BuiltInv' /\ AnswerAsAsked' /\ built = <<>>
  BY <1>1, NothingBuilt
<1>3. /\ place.punct \in BOOLEAN /\ place.vad \in BOOLEAN /\ place \in Directories
      /\ setup.online \in BOOLEAN
  BY BootAssumption DEF BootInv, BootTyped, Directories
<1>4. \A v : resolve_punctuation(v) \in BOOLEAN
  BY DEF resolve_punctuation
<1>5. recipe.vad \in BOOLEAN
  <2>1. recipe = WithProfile
    BY <1>1 DEF BootInv, BootTyped
  <2>2. WithProfile.vad \in BOOLEAN
    BY DEF WithProfile
  <2> QED
    BY <2>1, <2>2
<1>6. /\ place'.heads = place.heads /\ place'.manifest = place.manifest
      /\ place'.punct = (place.punct \/ (setup.online /\ resolve_punctuation(resolved)))
      /\ place'.vad = (place.vad \/ (setup.online /\ recipe.vad))
      /\ place' \in Directories
  BY <1>1, <1>3, <1>4, <1>5 DEF SidesFetched, Directories
<1>7. ChosenAt(place)' = ChosenAt(place)
  BY <1>1, <1>6 DEF ChosenAt, DetectAt, FoundAt
<1>8. EnsuredInv'
  <2>1. /\ setup.variant # "none" => resolved = setup.variant
        /\ setup.online /\ place.manifest.state = "none" => ChosenAt(place) = resolved
        /\ place.manifest.state # "none" => resolved = place.manifest.architecture
    BY <1>1 DEF BootInv, EnsuredInv
  <2>2. setup.online /\ resolve_punctuation(resolved) => place'.punct
    BY <1>6
  <2>3. setup.online /\ recipe.vad => place'.vad
    BY <1>6
  <2> QED
    BY <1>1, <1>6, <1>7, <2>1, <2>2, <2>3 DEF EnsuredInv
<1>9. BootTyped'
  BY <1>1, <1>2, <1>6 DEF BootInv, BootTyped
<1>10. LimitsInv'
  BY <1>1 DEF BootInv, LimitsInv
<1> QED
  BY <1>2, <1>8, <1>9, <1>10 DEF BootInv

\* Of what is made, the passes that may be there.
LEMMA PassesAre ==
  ASSUME NEW p, NEW v
  PROVE  /\ EngineOf(p, v).punctuation = (resolve_punctuation(v) /\ p.punct)
         /\ EngineOf(p, v).itn = resolve_itn(v) /\ EngineOf(p, v).vad = (recipe.vad /\ p.vad)
         /\ EngineOf(p, v).pool = recipe.pool /\ EngineOf(p, v).pack = PackAt(p, v)
         /\ EngineOf(p, v).words = ((setup.words /\ p.words) \/ setup.lexicon)
BY DEF EngineOf

\* What is built of the directory as it is.
LEMMA BuiltIsMade ==
  ASSUME NEW v, LoadableAs(v), setup.variant # "none" => v = setup.variant,
         setup.command = "serve" => v = resolve_variant_local
  PROVE  MadeOf(BuiltOf(v)) /\ BuiltOf(v).place = place
           /\ BuiltOf(v).engine = EngineOf(place, v) /\ EngineOf(place, v).head = v
<1>1. BuiltOf(v) = [place |-> place, engine |-> EngineOf(place, v)]
  BY ChosenHere DEF BuiltOf
<1>2. BuiltOf(v).place = place /\ BuiltOf(v).engine = EngineOf(place, v)
  BY <1>1
<1>3. EngineOf(place, v).head = v
  BY DEF EngineOf
<1>4. place.manifest.state = "none" => place.heads[v] = "set"
  BY DEF LoadableAs, is_usable_present
<1>5. place.manifest.state # "none" =>
        place.manifest.state = "whole" /\ (IsCtc(place.manifest.architecture) => IsCtc(v))
  BY DEF LoadableAs
<1>6. place.manifest.state # "none" => EngineOf(place, v).pack = place.manifest.architecture
  BY PassesAre DEF PackAt
<1> QED
  BY <1>2, <1>3, <1>4, <1>5, <1>6, ChosenHere DEF MadeOf

\* The recipe has booleans, and what is made of it stays so.
LEMMA RecipeIs == BootTyped /\ boot # "args" => recipe.vad \in BOOLEAN /\ recipe = WithProfile
<1>1. WithProfile.vad \in BOOLEAN
  BY DEF WithProfile
<1> QED
  BY <1>1 DEF BootTyped

LEMMA MadeStays ==
  ASSUME NEW b, MadeOf(b), UNCHANGED <<setup, recipe>> PROVE MadeOf(b)'
<1>1. EngineOf(b.place, b.engine.head)' = EngineOf(b.place, b.engine.head)
  BY DEF EngineOf, resolve_punctuation, resolve_itn
<1>2. ChosenAt(b.place)' = ChosenAt(b.place)
  BY DEF ChosenAt
<1> QED
  BY <1>1, <1>2 DEF MadeOf

LEMMA BuildKeeps == BootInv /\ Build => BootInv'
<1> SUFFICES ASSUME BootInv, Build PROVE BootInv'
  OBVIOUS
<1>1. /\ boot = "build" /\ boot' \in {"up", "refused"}
      /\ UNCHANGED <<setup, place, config, changes, recipe, limits, hung_up, resolved, answer>>
      /\ WithProfile' = WithProfile /\ WithFlags' = WithFlags
  BY DEF Build, WithProfile, Edge, WithFlags, FromFile
<1>2. LimitsInv' /\ EnsuredInv'
  BY <1>1 DEF BootInv, LimitsInv, EnsuredInv
<1>3. built = <<>>
  BY <1>1 DEF BootInv, BootTyped
<1>4. AnswerAsAsked'
  <2>1. answer.code # 409
    BY <1>3 DEF BootInv, AnswerAsAsked
  <2> QED
    BY <1>1, <2>1 DEF BootInv, AnswerAsAsked
<1>5. CASE boot' = "refused"
  <2>1. built' = <<>>
    BY <1>1, <1>3, <1>5 DEF Build
  <2> QED
    BY <1>1, <1>2, <1>3, <1>4, <1>5, <2>1
       DEF BootInv, BootTyped, BuiltInv, OwnPack, SidesFitEngine
<1>6. CASE boot' = "up"
  <2>1. LoadableAs(Chosen) /\ built' = <<BuiltOf(Chosen)>>
    BY <1>1, <1>6 DEF Build
  <2>2. /\ setup.variant # "none" => Chosen = setup.variant
        /\ setup.command = "serve" => Chosen = resolve_variant_local
        /\ setup.command # "serve" => Chosen = resolved
    BY <1>1 DEF Chosen, resolve_variant_local, BootInv, EnsuredInv
  <2>3. PICK b, v : b = BuiltOf(Chosen) /\ v = Chosen
    OBVIOUS
  <2>4. MadeOf(b) /\ b.place = place /\ b.engine = EngineOf(place, v) /\ b.engine.head = v
    BY <2>1, <2>2, <2>3, BuiltIsMade
  <2>5. built' = <<b>> /\ Len(built') = 1 /\ built'[1] = b /\ DOMAIN built' = {1}
    BY <2>1, <2>3
  <2>6. BuiltInv'
    <3>1. MadeOf(b)'
      BY <1>1, <2>4, MadeStays
    <3>2. ManifestUnasked(1)' <=> setup.command = "serve" /\ place.manifest.state # "none"
                                    /\ setup.variant = "none"
      BY <1>1, <2>4, <2>5 DEF ManifestUnasked, Plain
    <3>3. OwnPack'
      <4> SUFFICES ASSUME ~ManifestUnasked(1)' PROVE b.engine.pack = v
        BY <2>4, <2>5 DEF OwnPack
      <4>1. b.engine.pack = PackAt(place, v)
        BY <2>4, PassesAre
      <4>2. place.manifest.state # "none" => v = resolved /\ resolved = place.manifest.architecture
        BY <1>1, <2>2, <2>3, <3>2 DEF BootInv, EnsuredInv
      <4> QED
        BY <4>1, <4>2 DEF PackAt
    <3>4. SidesFitEngine'
      <4> SUFFICES ASSUME setup.online
                   PROVE  /\ b.engine.vad = recipe.vad
                          /\ \/ ManifestUnasked(1)'
                             \/ v = resolved /\ b.engine.punctuation = resolve_punctuation(v)
        BY <1>1, <2>4, <2>5 DEF SidesFitEngine, resolve_punctuation
      <4>1. place.manifest.state = "none" => ChosenAt(place) = resolved
        BY <1>1 DEF BootInv, EnsuredInv
      <4>2. ManifestUnasked(1)' \/ v = resolved
        <5>1. setup.variant # "none" => resolved = setup.variant
          BY <1>1 DEF BootInv, EnsuredInv
        <5> QED
          BY <2>2, <2>3, <3>2, <4>1, <5>1, ChosenHere
      <4>3. (resolve_punctuation(resolved) => place.punct) /\ (recipe.vad => place.vad)
        BY <1>1 DEF BootInv, EnsuredInv
      <4>4. b.engine.punctuation = (resolve_punctuation(v) /\ place.punct)
              /\ b.engine.vad = (recipe.vad /\ place.vad)
        BY <2>4, PassesAre
      <4>5. resolve_punctuation(v) \in BOOLEAN /\ recipe.vad \in BOOLEAN
        BY <1>1, RecipeIs DEF BootInv, resolve_punctuation
      <4> QED
        BY <4>2, <4>3, <4>4, <4>5
    <3> QED
      BY <2>5, <3>1, <3>3, <3>4 DEF BuiltInv
  <2>7. BootTyped'
    BY <1>1, <1>6, <2>5 DEF BootInv, BootTyped
  <2> QED
    BY <1>2, <1>4, <2>6, <2>7 DEF BootInv
<1> QED
  BY <1>1, <1>5, <1>6

LEMMA AppendOne == ASSUME NEW x, NEW y PROVE Append(<<x>>, y) = <<x, y>>
<1> DEFINE S == {x, y}
<1>1. <<x>> \in Seq(S) /\ x \in S /\ y \in S
  OBVIOUS
<1> HIDE DEF S
<1> QED
  BY <1>1, AppendToOne

LEMMA ReloadKeeps == BootInv /\ Reload => BootInv'
<1> SUFFICES ASSUME BootInv, Reload PROVE BootInv'
  OBVIOUS
<1>1. /\ boot = "up" /\ setup.command = "serve" /\ Len(built) < 2
      /\ LoadableAs(resolve_variant_local)
      /\ built' = Append(built, BuiltOf(resolve_variant_local))
      /\ UNCHANGED <<setup, place, config, changes, boot, recipe, limits, hung_up, resolved,
                     answer>>
      /\ WithProfile' = WithProfile /\ WithFlags' = WithFlags
  BY DEF Reload, Up, WithProfile, Edge, WithFlags, FromFile
<1>2. LimitsInv' /\ EnsuredInv'
  BY <1>1 DEF BootInv, LimitsInv, EnsuredInv
<1>3. PICK b, v : b = BuiltOf(resolve_variant_local) /\ v = resolve_variant_local
  OBVIOUS
<1>4. MadeOf(b)
  BY <1>1, <1>3, BuiltIsMade DEF resolve_variant_local
<1>5. built = <<built[1]>> /\ Len(built) = 1 /\ DOMAIN built = {1}
  BY <1>1 DEF BootInv, BootTyped
<1>6. built' = <<built[1], b>> /\ Len(built') = 2 /\ DOMAIN built' = {1, 2}
        /\ built'[1] = built[1] /\ built'[2] = b
  <2>1. PICK a : a = built[1]
    OBVIOUS
  <2>2. built = <<a>>
    BY <1>5, <2>1
  <2>3. Append(<<a>>, b) = <<a, b>>
    BY AppendOne
  <2>4. built' = <<a, b>>
    BY <1>1, <1>3, <2>2, <2>3
  <2> QED
    BY <2>1, <2>4
<1>7. BuiltInv'
  <2>1. MadeOf(built[1]) /\ SidesFitEngine /\ OwnPack
    BY <1>5 DEF BootInv, BuiltInv
  <2>2. PICK a : a = built[1]
    OBVIOUS
  <2>3. MadeOf(a)' /\ MadeOf(b)'
    BY <1>1, <1>4, <2>1, <2>2, MadeStays
  <2>4. SidesFitEngine'
    BY <1>1, <1>5, <1>6, <2>1 DEF SidesFitEngine, ManifestUnasked, Plain, resolve_punctuation
  <2>5. ManifestUnasked(2)' \/ b.engine.pack = b.engine.head
    <3>1. b.place = place /\ b.engine.pack = PackAt(place, v) /\ b.engine.head = v
      BY <1>1, <1>3, BuiltIsMade, PassesAre DEF resolve_variant_local
    <3> QED
      BY <1>1, <1>6, <3>1 DEF PackAt, ManifestUnasked, Plain
  <2>6. ManifestUnasked(1)' \/ built[1].engine.pack = built[1].engine.head
    BY <1>1, <1>5, <1>6, <2>1 DEF OwnPack, ManifestUnasked, Plain
  <2>7. OwnPack'
    BY <1>6, <2>5, <2>6 DEF OwnPack
  <2> QED
    BY <1>6, <2>2, <2>3, <2>4, <2>7 DEF BuiltInv
<1>8. AnswerAsAsked'
  BY <1>1, <1>5, <1>6 DEF BootInv, AnswerAsAsked
<1>9. BootTyped'
  BY <1>1, <1>6 DEF BootInv, BootTyped
<1> QED
  BY <1>2, <1>7, <1>8, <1>9 DEF BootInv

\* What was built and answered does not change with the files.
LEMMA BuiltStays ==
  ASSUME BootInv, UNCHANGED <<setup, recipe, resolved, built, answer>>
  PROVE  BuiltInv' /\ AnswerAsAsked'
<1>1. SidesFitEngine' /\ OwnPack'
  BY DEF BootInv, BuiltInv, SidesFitEngine, OwnPack, ManifestUnasked, Plain, resolve_punctuation
<1>2. \A k \in DOMAIN built : MadeOf(built[k])'
  <2>1. \A b : MadeOf(b) => MadeOf(b)'
    BY MadeStays
  <2> QED
    BY <2>1 DEF BootInv, BuiltInv
<1>3. AnswerAsAsked'
  BY DEF BootInv, AnswerAsAsked
<1> QED
  BY <1>1, <1>2, <1>3 DEF BuiltInv

LEMMA DiskChanges == BootInv /\ (HangUp \/ Touch) => BootInv'
<1> SUFFICES ASSUME BootInv, HangUp \/ Touch PROVE BootInv'
  OBVIOUS
<1>1. /\ boot = "up" /\ UNCHANGED <<setup, boot, recipe, resolved, built, answer>>
      /\ WithProfile' = WithProfile
  BY DEF HangUp, Touch, Up, WithProfile, Edge
<1>2. BuiltInv' /\ AnswerAsAsked' /\ EnsuredInv'
  BY <1>1, BuiltStays DEF EnsuredInv
<1>3. place' \in Directories /\ config' \in Configs
  BY BootAssumption DEF HangUp, Touch, BootInv, BootTyped
<1>4. BootTyped'
  BY <1>1, <1>3 DEF BootInv, BootTyped
<1>5. LimitsInv'
  BY <1>1 DEF BootInv, LimitsInv, HangUp, Touch
<1> QED
  BY <1>2, <1>4, <1>5 DEF BootInv

LEMMA AnswerKeeps == ASSUME NEW o \in Asked PROVE BootInv /\ Answer(o) => BootInv'
<1> SUFFICES ASSUME BootInv, Answer(o) PROVE BootInv'
  OBVIOUS
<1>1. /\ boot = "up"
      /\ UNCHANGED <<setup, place, config, changes, boot, recipe, limits, hung_up, resolved, built>>
      /\ WithProfile' = WithProfile /\ WithFlags' = WithFlags
  BY DEF Answer, Up, WithProfile, Edge, WithFlags, FromFile
<1>2. LimitsInv' /\ EnsuredInv' /\ BootTyped'
  BY <1>1 DEF BootInv, BootTyped, LimitsInv, EnsuredInv
<1>3. BuiltInv'
  <2>1. SidesFitEngine' /\ OwnPack'
    BY <1>1 DEF BootInv, BuiltInv, SidesFitEngine, OwnPack, ManifestUnasked, Plain,
                resolve_punctuation
  <2>2. \A b : MadeOf(b) => MadeOf(b)'
    BY <1>1, MadeStays
  <2> QED
    BY <1>1, <2>1, <2>2 DEF BootInv, BuiltInv
<1>4. Len(built) \in DOMAIN built
  BY <1>1 DEF BootInv, BootTyped
<1>5. AnswerAsAsked'
  <2>1. CASE Missing(o)
    <3>1. answer'.asked = o /\ answer'.code = 409
      BY <2>1 DEF Answer, Unanswered
    <3>2. \E k \in DOMAIN built : \/ o.vad = "on" /\ ~built[k].engine.vad
                                  \/ o.punctuation = "on" /\ ~built[k].engine.punctuation
      BY <1>4, <2>1 DEF Missing, Engine
    <3> QED
      BY <1>1, <3>1, <3>2 DEF AnswerAsAsked
  <2>2. CASE ~Missing(o)
    <3>1. /\ answer'.asked = o /\ answer'.code = 200
          /\ answer'.punctuation = (Engine.punctuation /\ Switch(o.punctuation, TRUE))
          /\ answer'.itn = Switch(o.itn, Engine.itn)
          /\ answer'.vad = (Engine.vad /\ Switch(o.vad, TRUE))
          /\ answer'.words = Switch(o.words, Engine.words)
      BY <2>2 DEF Answer
    <3>2. (o.vad = "on" => Engine.vad) /\ (o.punctuation = "on" => Engine.punctuation)
      BY <2>2 DEF Missing
    <3>3. /\ o.punctuation = "on" => answer'.punctuation
          /\ o.punctuation = "off" => ~answer'.punctuation
      BY <3>1, <3>2 DEF Switch
    <3>4. (o.itn = "on" => answer'.itn) /\ (o.itn = "off" => ~answer'.itn)
      BY <3>1 DEF Switch
    <3>5. (o.vad = "on" => answer'.vad) /\ (o.vad = "off" => ~answer'.vad)
      BY <3>1, <3>2 DEF Switch
    <3>6. (o.words = "on" => answer'.words) /\ (o.words = "off" => ~answer'.words)
      BY <3>1 DEF Switch
    <3>7. \A field \in {"punctuation", "itn", "vad", "words"} :
            /\ o[field] = "on" => answer'[field]
            /\ o[field] = "off" => ~answer'[field]
      BY <3>3, <3>4, <3>5, <3>6
    <3> QED
      BY <3>1, <3>7 DEF AnswerAsAsked
  <2> QED
    BY <2>1, <2>2
<1> QED
  BY <1>2, <1>3, <1>5 DEF BootInv

LEMMA BootStutters == BootInv /\ UNCHANGED bootVars => BootInv'
<1> SUFFICES ASSUME BootInv, UNCHANGED bootVars PROVE BootInv'
  OBVIOUS
<1> USE DEF bootVars
<1>1. WithProfile' = WithProfile /\ WithFlags' = WithFlags
        /\ \A v : resolve_punctuation(v)' = resolve_punctuation(v)
  BY DEF WithProfile, Edge, WithFlags, FromFile, resolve_punctuation
<1>2. BuiltInv' /\ AnswerAsAsked'
  BY BuiltStays
<1>3. ChosenAt(place)' = ChosenAt(place)
  BY DEF ChosenAt
<1>4. BootTyped' /\ LimitsInv'
  BY <1>1 DEF BootInv, BootTyped, LimitsInv
<1>5. EnsuredInv'
  BY <1>1, <1>3 DEF BootInv, EnsuredInv
<1> QED
  BY <1>2, <1>4, <1>5 DEF BootInv

LEMMA BootHolds == BootSpec => []BootInv
<1>1. BootInv /\ [BootNext]_bootVars => BootInv'
  BY ReadArgsKeeps, EnsureHeadKeeps, EnsureSidesKeeps, BuildKeeps, ReloadKeeps, DiskChanges,
     AnswerKeeps, BootStutters DEF BootNext
<1> QED
  BY <1>1, BootStarts, PTL DEF BootSpec

LEMMA BootInvSuffices == BootInv => BootIsAsAsked
<1> SUFFICES ASSUME BootInv PROVE BootIsAsAsked
  OBVIOUS
<1>1. HeadAsAsked
  <2> SUFFICES ASSUME NEW k \in DOMAIN built
               PROVE  LET e == built[k].engine
                          p == built[k].place
                      IN  /\ setup.variant # "none" => e.head = setup.variant
                          /\ Plain(built[k]) => p.heads[e.head] = "set"
                          /\ ~Plain(built[k]) =>
                               p.manifest.state = "whole" /\ (IsCtc(e.pack) => IsCtc(e.head))
                          /\ ManifestUnasked(k) \/ e.pack = e.head
                          /\ e.punctuation /\ setup.punctuation = "auto" => e.head = "rnnt"
                          /\ e.itn /\ setup.itn = "auto" => e.head = "rnnt"
    BY DEF HeadAsAsked
  <2>1. MadeOf(built[k]) /\ (ManifestUnasked(k) \/ built[k].engine.pack = built[k].engine.head)
    BY DEF BootInv, BuiltInv, OwnPack
  <2>2. PICK p, e : p = built[k].place /\ e = built[k].engine
    OBVIOUS
  <2>3. e = EngineOf(p, e.head)
    BY <2>1, <2>2 DEF MadeOf
  <2>4. e.itn = resolve_itn(e.head)
          /\ e.punctuation = (resolve_punctuation(e.head) /\ p.punct)
    BY <2>3, PassesAre
  <2>5. e.itn /\ setup.itn = "auto" => e.head = "rnnt"
    BY <2>4 DEF resolve_itn
  <2>6. e.punctuation /\ setup.punctuation = "auto" => e.head = "rnnt"
    BY <2>4 DEF resolve_punctuation
  <2> QED
    BY <2>1, <2>2, <2>5, <2>6 DEF MadeOf, Plain
<1>2. ReloadIsBoot
  <2> SUFFICES ASSUME Len(built) = 2, built[1].place = built[2].place
               PROVE  built[1].engine = built[2].engine
    BY DEF ReloadIsBoot
  <2>1. {1, 2} \subseteq DOMAIN built /\ setup.command = "serve"
    BY DEF BootInv, BootTyped
  <2>2. MadeOf(built[1]) /\ MadeOf(built[2])
    BY <2>1 DEF BootInv, BuiltInv
  <2> QED
    BY <2>1, <2>2 DEF MadeOf
<1>3. FlagsWinAtBoot
  <2> SUFFICES ASSUME Up PROVE
        /\ setup.pool # 0 => Engine.pool = setup.pool
        /\ ~hung_up /\ setup.command = "serve" =>
             /\ setup.rpm # Unset => limits.rpm = setup.rpm
             /\ setup.burst # Unset => limits.burst = setup.burst
             /\ limits.rpm > 0 => limits.burst > 0
    BY DEF FlagsWinAtBoot
  <2>1. Len(built) \in DOMAIN built /\ recipe = WithProfile /\ boot = "up"
    BY DEF BootInv, BootTyped, Up
  <2>2. Engine.pool = recipe.pool
    <3>1. MadeOf(built[Len(built)])
      BY <2>1 DEF BootInv, BuiltInv
    <3>2. PICK b : b = built[Len(built)]
      OBVIOUS
    <3>3. b.engine = EngineOf(b.place, b.engine.head)
      BY <3>1, <3>2 DEF MadeOf
    <3>4. b.engine.pool = recipe.pool
      BY <3>3, PassesAre
    <3> QED
      BY <3>2, <3>4 DEF Engine
  <2>3. setup.pool # 0 => recipe.pool = setup.pool
    BY <2>1 DEF WithProfile
  <2> QED
    BY <2>1, <2>2, <2>3 DEF BootInv, LimitsInv
<1> QED
  BY <1>1, <1>2, <1>3 DEF BootIsAsAsked, BootInv, BuiltInv

------------------------------------------------------------------------------

\* An engine that serves runs on the device that was asked for or on one that works, with
\* the triplets and threads that fit, as the head and with the passes and limits that were
\* asked for, at boot, after a reload and in what a request may switch.  It does not say
\* that a service which has a manifest, and no --model-variant or a reload behind it, runs
\* the head of the manifest (ManifestUnasked), nor that the device of `auto` is reported
\* by its name where the runtime has put the CPU in CUDA's place.  (run_serve)
THEOREM ServiceHolds == ProvidersSpec /\ BootSpec => []ServiceIsAsAsked
<1>1. ProvidersInv /\ BootInv => ServiceIsAsAsked
  BY ProvidersInvSuffices, BootInvSuffices DEF ServiceIsAsAsked
<1> QED
  BY <1>1, ProvidersHold, BootHolds, PTL
=============================================================================
