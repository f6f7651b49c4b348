----------------------------- MODULE ModelFiles -----------------------------
(***************************************************************************)
(* Model files on disk (core/model/download.rs, fetch.rs, ane.rs,          *)
(* sidecars.rs, inference/load_files.rs): processes of the same user look  *)
(* for a recognition head, download what is missing, verify, rename it     *)
(* into place and load it; any of them may be killed between two steps.    *)
(*                                                                         *)
(* The unpacked ANE package is a name of its own.  What the network sends, *)
(* and files somebody placed by hand, may be anything.                     *)
(***************************************************************************)
EXTENDS Integers, Sequences, SequencesExt, FiniteSets

CONSTANTS
  Processes,
  Heads,        \* ModelVariant::ALL, the order of detection
  FilesOf,      \* prequantized_files of each head, encoder first
  Ctc,          \* heads fetched file by file whether present or not
  Trusted,      \* files the loader holds no digest for
  Speaker,      \* the file fetched without a lock
  Package, Tar, \* an ANE encoder package, and the archive it comes in
  Lives,        \* bound: runs of processes
  NoHead, Nobody

Files == UNION {ToSet(FilesOf[h]) : h \in ToSet(Heads)}
Names == Files \cup {Speaker, Package, Tar}
Tasks == [kind : {"head"}, head : ToSet(Heads) \cup {NoHead}]
           \cup [kind : {"speaker", "ane"}, head : {NoHead}]

NoTask == [kind |-> "none", head |-> NoHead]

ASSUME FilesAssumption ==
  /\ Heads \in Seq(ToSet(Heads)) /\ Heads # <<>>
  /\ FilesOf \in [ToSet(Heads) -> Seq(Files)] /\ \A h \in ToSet(Heads) : FilesOf[h] # <<>>
  /\ {Speaker, Package, Tar} \cap Files = {} /\ Lives \in Nat

VARIABLES
  disk,         \* final names: absent, good, torn or other (somebody else's)
  staged,       \* staging names in use: what is there
  lock,         \* flock on each directory
  step,         \* where each process is
  task, head, rest,     \* its call, the head it settled on, files to go
  lives,        \* bound: runs left
  placed        \* history: names not written by a process

filesVars == <<disk, staged, lock, step, task, head, rest, lives, placed>>

FilesInit ==
  /\ disk \in [Names -> {"absent", "good", "other", "torn"}]
  /\ disk[Tar] = "absent" /\ \A n \in Names \ {Package} : disk[n] # "torn"
  /\ placed = {n \in Names : disk[n] # "absent"}
  /\ staged = <<>>
  /\ lock = [d \in {"models", "ane"} |-> Nobody]
  /\ step = [p \in Processes |-> "off"]
  /\ task = [p \in Processes |-> NoTask]
  /\ head = [p \in Processes |-> NoHead]
  /\ rest = [p \in Processes |-> <<>>]
  /\ lives = Lives

There(n) == disk[n] \notin {"absent", "torn"}     \* ane_package_complete, for the package

\* is_usable_present, is_prequantized_present
Usable(h) == \A f \in ToSet(FilesOf[h]) : There(f)

\* detect_in_dir, and the filter on it
First(i) == \A j \in 1 .. i : There(FilesOf[Heads[j]][1]) <=> j = i

Detected ==
  IF \E i \in DOMAIN Heads : First(i) /\ Usable(Heads[i])
    THEN Heads[CHOOSE i \in DOMAIN Heads : First(i)] ELSE NoHead

\* resolve_variant
Resolved(asked) ==
  IF asked # NoHead THEN asked ELSE IF Detected # NoHead THEN Detected ELSE Heads[1]

\* Everything the call is for is there already.
Present(t, h) == CASE t.kind = "head"    -> Usable(h)
                   [] t.kind = "speaker" -> There(Speaker)
                   [] t.kind = "ane"     -> There(Package)

Wanted(t, h) == CASE t.kind = "head"    -> FilesOf[h]
                  [] t.kind = "speaker" -> <<Speaker>>
                  [] t.kind = "ane"     -> <<Tar>>

Directory(t) == IF t.kind = "ane" THEN "ane" ELSE "models"

\* partial_path_unique
Partial(f, p) == <<f, p>>

Put(name, content) == [n \in DOMAIN staged \cup {name} |->
                         IF n = name THEN content ELSE staged[n]]
Gone(names) == [n \in DOMAIN staged \ names |-> staged[n]]

Release(p) ==
  lock' = [d \in DOMAIN lock |-> IF lock[d] = p THEN Nobody ELSE lock[d]]
Leave(p) ==
  /\ step' = [step EXCEPT ![p] = "off"]
  /\ task' = [task EXCEPT ![p] = NoTask] /\ head' = [head EXCEPT ![p] = NoHead]
  /\ rest' = [rest EXCEPT ![p] = <<>>]
  /\ Release(p)

-----------------------------------------------------------------------------
(* ensure_model_variant, ensure_prequantized_model_variant,                *)
(* ensure_speaker_model, ensure_ane_packages.                              *)

Ensure(p, t) ==
  /\ step[p] = "off" /\ lives > 0
  /\ lives' = lives - 1
  /\ task' = [task EXCEPT ![p] = t]
  /\ LET h == IF t.kind = "head" THEN Resolved(t.head) ELSE NoHead IN
     /\ head' = [head EXCEPT ![p] = h]
     /\ IF Present(t, h)
          THEN /\ step' = [step EXCEPT ![p] = "load"]
               /\ rest' = [rest EXCEPT ![p] = <<>>]
          ELSE /\ step' = [step EXCEPT ![p] = IF t.kind = "speaker" THEN "fetch" ELSE "lock"]
               /\ rest' = [rest EXCEPT ![p] = Wanted(t, h)]
  /\ UNCHANGED <<disk, staged, lock, placed>>

\* acquire_download_lock, and the second look
Lock(p) ==
  LET d == Directory(task[p]) IN
  /\ step[p] = "lock" /\ lock[d] = Nobody
  /\ IF Present(task[p], head[p])
       THEN step' = [step EXCEPT ![p] = "load"] /\ UNCHANGED lock
       ELSE step' = [step EXCEPT ![p] = "fetch"] /\ lock' = [lock EXCEPT ![d] = p]
  /\ UNCHANGED <<disk, staged, task, head, rest, lives, placed>>

Skip(p) ==
  /\ step[p] = "fetch" /\ rest[p] # <<>>
  /\ task[p].kind = "head" /\ head[p] \notin Ctc
  /\ There(Head(rest[p]))
  /\ rest' = [rest EXCEPT ![p] = Tail(@)]
  /\ UNCHANGED <<disk, staged, lock, step, task, head, lives, placed>>

\* stream_to_partial_then_finalize
OpenPartial(p) ==
  /\ step[p] = "fetch" /\ rest[p] # <<>>
  /\ (task[p].kind = "head" /\ head[p] \notin Ctc => ~There(Head(rest[p])))
  /\ staged' = Put(Partial(Head(rest[p]), p), "torn")
  /\ step' = [step EXCEPT ![p] = "stream"]
  /\ UNCHANGED <<disk, lock, task, head, rest, lives, placed>>

Received(p) ==
  /\ step[p] = "stream"
  /\ \E content \in {"good", "other"} :
       staged' = Put(Partial(Head(rest[p]), p), content)
  /\ step' = [step EXCEPT ![p] = "verify"]
  /\ UNCHANGED <<disk, lock, task, head, rest, lives, placed>>

\* Offline, refused, too large, broken off: PartialFileGuard removes the rest.
FetchFails(p) ==
  /\ step[p] \in {"fetch", "stream"} /\ rest[p] # <<>>
  /\ staged' = Gone({Partial(Head(rest[p]), p)})
  /\ Leave(p)
  /\ UNCHANGED <<disk, lives, placed>>

\* finalize_download
Verify(p) ==
  LET name == Partial(Head(rest[p]), p) IN
  /\ step[p] = "verify"
  /\ IF name \in DOMAIN staged /\ staged[name] = "good"
       THEN step' = [step EXCEPT ![p] = "rename"]
            /\ UNCHANGED <<staged, lock, task, head, rest>>
       ELSE staged' = Gone({name}) /\ Leave(p)
  /\ UNCHANGED <<disk, lives, placed>>

Rename(p) ==
  LET name == Partial(Head(rest[p]), p) IN
  /\ step[p] = "rename"
  /\ IF name \in DOMAIN staged
       THEN /\ disk' = [disk EXCEPT ![Head(rest[p])] = staged[name]]
            /\ placed' = placed \ {Head(rest[p])}
            /\ rest' = [rest EXCEPT ![p] = Tail(@)]
            /\ step' = [step EXCEPT ![p] = IF task[p].kind = "ane" THEN "unpack" ELSE "fetch"]
            /\ UNCHANGED <<lock, task, head>>
       ELSE Leave(p) /\ UNCHANGED <<disk, placed>>
  /\ staged' = Gone({name})
  /\ UNCHANGED lives

Complete(p) ==
  /\ step[p] = "fetch" /\ rest[p] = <<>>
  /\ step' = [step EXCEPT ![p] = "load"]
  /\ Release(p)
  /\ UNCHANGED <<disk, staged, task, head, rest, lives, placed>>

-----------------------------------------------------------------------------
(* extract_ane_tar_atomic.                                                 *)

Unpack(p) ==
  /\ step[p] = "unpack"
  /\ staged' = Put(Partial(Package, p), "torn")
  /\ step' = [step EXCEPT ![p] = "unpacking"]
  /\ UNCHANGED <<disk, lock, task, head, rest, lives, placed>>

\* Done, with the package of before out of the way.
ClearPackage(p) ==
  /\ step[p] = "unpacking"
  /\ staged' = Put(Partial(Package, p), disk[Tar])
  /\ disk' = [disk EXCEPT ![Package] = "absent"]
  /\ step' = [step EXCEPT ![p] = "swap"]
  /\ UNCHANGED <<lock, task, head, rest, lives, placed>>

SwapPackage(p) ==
  /\ step[p] = "swap"
  /\ disk' = [disk EXCEPT ![Package] = staged[Partial(Package, p)]]
  /\ placed' = placed \ {Package}
  /\ staged' = Gone({Partial(Package, p)})
  /\ step' = [step EXCEPT ![p] = "untar"]
  /\ UNCHANGED <<lock, task, head, rest, lives>>

RemoveTar(p) ==
  /\ step[p] = "untar"
  /\ disk' = [disk EXCEPT ![Tar] = "absent"]
  /\ step' = [step EXCEPT ![p] = "fetch"]
  /\ UNCHANGED <<staged, lock, task, head, rest, lives, placed>>

UnpackFails(p) ==
  /\ step[p] \in {"unpack", "unpacking", "swap"}
  /\ staged' = Gone({Partial(Package, p)})
  /\ disk' = [disk EXCEPT ![Tar] = "absent"]
  /\ Leave(p)
  /\ UNCHANGED <<lives, placed>>

-----------------------------------------------------------------------------
(* Loading, and being killed.                                              *)

\* The encoder is the one that matters.
LoadableEncoder(p) ==
  \/ task[p].kind # "head"
  \/ /\ Usable(head[p])
     /\ FilesOf[head[p]][1] \in Trusted \/ disk[FilesOf[head[p]][1]] = "good"

\* ResolvedModelFiles::resolve, verify_pinned_checksums
Loadable(p) ==
  \/ task[p].kind # "head"
  \/ /\ Usable(head[p])
     /\ \A f \in ToSet(FilesOf[head[p]]) \ Trusted : disk[f] = "good"

Load(p) ==
  /\ step[p] = "load"
  /\ IF Loadable(p)
       THEN step' = [step EXCEPT ![p] = "ready"] /\ UNCHANGED <<lock, task, head, rest>>
       ELSE Leave(p)
  /\ UNCHANGED <<disk, staged, lives, placed>>

\* An exit or a kill, anywhere: the kernel closes what the process held, and
\* its staging files stay.
Killed(p) ==
  /\ step[p] # "off"
  /\ Leave(p)
  /\ UNCHANGED <<disk, staged, lives, placed>>

FilesNext ==
  \E p \in Processes :
    \/ \E t \in Tasks : Ensure(p, t)
    \/ Lock(p) \/ Skip(p) \/ OpenPartial(p) \/ Received(p) \/ FetchFails(p)
    \/ Verify(p) \/ Rename(p) \/ Complete(p)
    \/ Unpack(p) \/ ClearPackage(p) \/ SwapPackage(p) \/ RemoveTar(p) \/ UnpackFails(p)
    \/ Load(p) \/ Killed(p)

FilesSpec == FilesInit /\ [][FilesNext]_filesVars

-----------------------------------------------------------------------------
(* Properties.                                                             *)

\* Whatever processes overlap, with the lock and without it, and wherever they
\* are killed: what stands under a final name and was not placed by hand is the
\* verified file, whole.  (finalize_download, extract_ane_tar_atomic)
InstalledIsVerified ==
  \A n \in Names \ placed : disk[n] \in {"absent", "good"}

\* A process that runs has every file of its head, and none but those somebody
\* placed there, of the kind the loader trusts, is other than the pinned one;
\* nothing that was installed when it loaded has gone since.  (is_usable_present,
\* verify_pinned_checksums)
ReadyIsWhole ==
  \A p \in Processes : step[p] = "ready" /\ task[p].kind = "head" =>
    \A f \in ToSet(FilesOf[head[p]]) :
      disk[f] = "good" \/ (f \in Trusted \cap placed /\ disk[f] = "other")

\* What is installed and what runs on it, together.
ModelsAreWhole == InstalledIsVerified /\ ReadyIsWhole
=============================================================================
