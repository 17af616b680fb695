---------------------------- MODULE RuntimeLayer ----------------------------
(***************************************************************************)
(* expandRuntimeLayer (fetcher/main.go): how the fault manifest            *)
(* runtime.yaml becomes the directory Envoy's disk_layer reads.  Every key *)
(* of the manifest is written as a file of data-<digest>, the symlink      *)
(* runtime/current is swapped to that directory, and the directory it      *)
(* named before is removed.  The fetcher and Envoy are separate processes; *)
(* the fetcher may die between any two steps, and supervisord starts it    *)
(* again over the same file system, having forgotten what it applied.      *)
(*                                                                         *)
(* A directory is identified by the manifest its name is the digest of:    *)
(* two manifests with one (64-bit) digest are not modelled.  Writing one   *)
(* key file is one step: AtomicWrite shows that it is atomic to readers.   *)
(***************************************************************************)
EXTENDS FiniteSets

CONSTANTS
  Manifest,   \* the contents runtime.yaml may have
  Key,        \* runtime keys
  Value,      \* their values
  UnsafeKey,  \* keys that are not a bare file name
  Absent,     \* no such file
  None,       \* no manifest, no directory
  Desired     \* what each manifest decodes to: Key -> Value or Absent

ASSUME ConstantsAssumption ==
  /\ None \notin Manifest
  /\ Absent \notin Value
  /\ None \notin [Key -> Value \cup {Absent}]
  /\ UnsafeKey \subseteq Key
  /\ Desired \in [Manifest -> [Key -> Value \cup {Absent}]]

VARIABLES
  exists,   \* the data directories there are
  files,    \* the key files in each
  stray,    \* directories holding a ".tmp-" file of an unfinished write
  current,  \* the directory runtime/current points to
  tmpLink,  \* the directory runtime/current.tmp points to
  pc,       \* where expandRuntimeLayer is
  job,      \* the manifest it expands
  todo,     \* the keys it has not written yet
  prev,     \* previousTarget
  applied,  \* lastHash["runtime.yaml"]
  blamed,   \* history: directories a failure or a crash may have left behind
  event,    \* the symlink changed and Envoy has not looked yet
  opened,   \* the directory Envoy is reading
  loaded    \* Envoy's runtime entries

disk == <<exists, files, stray, current, tmpLink>>
fetcher == <<pc, job, todo, prev, applied>>
envoy == <<event, opened, loaded>>
vars == <<disk, fetcher, blamed, envoy>>

Nothing == [k \in Key |-> Absent]

Keys(m) == {k \in Key : Desired[m][k] # Absent}

Init ==
  /\ exists = {} /\ files = [m \in Manifest |-> Nothing] /\ stray = {}
  /\ current = None /\ tmpLink = None
  /\ pc = "idle" /\ job = None /\ todo = {} /\ prev = None /\ applied = None
  /\ blamed = {}
  /\ event = FALSE /\ opened = None /\ loaded = Nothing
-----------------------------------------------------------------------------
\* expandRuntimeLayer returns nil and the poll loop records the digest.
Succeed ==
  /\ pc' = "idle" /\ job' = None /\ todo' = {} /\ prev' = None
  /\ applied' = job

\* A plausible bug: the digest is recorded whether or not it was applied.
FailRecorded ==
  /\ pc' = "idle" /\ job' = None /\ todo' = {} /\ prev' = None
  /\ applied' = job
  /\ blamed' = blamed \cup ({job} \ {current})

\* A plausible bug: the work left by a failed attempt is not dropped.
FailUnreset ==
  /\ pc' = "idle" /\ job' = None /\ prev' = None
  /\ UNCHANGED <<todo, applied>>
  /\ blamed' = blamed \cup ({job} \ {current})

\* expandRuntimeLayer returns an error and the poll loop records nothing.
Fail ==
  /\ pc' = "idle" /\ job' = None /\ todo' = {} /\ prev' = None
  /\ UNCHANGED applied
  /\ blamed' = blamed \cup ({job} \ {current})

\* A poll finds a manifest that is not the last one this process applied:
\* decode it and make sure its directory exists.  (When decoding or MkdirAll
\* fails nothing has changed.)
Expand(m) ==
  /\ pc = "idle" /\ m # applied
  /\ pc' = "write" /\ job' = m /\ todo' = Keys(m)
  /\ exists' = exists \cup {m}
  /\ UNCHANGED <<files, stray, current, tmpLink, prev, applied, blamed, envoy>>

\* A plausible bug, and what "an earlier version of this function did": the
\* keys are rewritten in the directory Envoy already reads.
WriteKeyInPlace(k) ==
  /\ pc = "write" /\ k \in todo \ UnsafeKey
  /\ files' = [files EXCEPT ![IF current = None THEN job ELSE current][k] = Desired[job][k]]
  /\ todo' = todo \ {k}
  /\ UNCHANGED <<exists, stray, current, tmpLink, pc, job, prev, applied, blamed, envoy>>

\* The loop body for one key; the map's iteration order is random.
WriteKey(k) ==
  /\ pc = "write" /\ k \in todo \ UnsafeKey
  /\ files' = [files EXCEPT ![job][k] = Desired[job][k]]
  /\ todo' = todo \ {k}
  /\ UNCHANGED <<exists, stray, current, tmpLink, pc, job, prev, applied, blamed, envoy>>

RefuseKey(k) ==
  /\ pc = "write" /\ k \in todo \cap UnsafeKey
  /\ Fail
  /\ UNCHANGED <<disk, envoy>>

\* atomicWrite fails; its temporary file stays in the directory when the rename
\* fails, or the removal that follows a failed write.
WriteFails ==
  /\ pc = "write" /\ todo \ UnsafeKey # {}
  /\ stray' \in {stray, stray \cup {job}}
  /\ Fail
  /\ UNCHANGED <<exists, files, current, tmpLink, envoy>>

\* A plausible bug: the link is made before every key is written.
MakeLinkEarly ==
  /\ pc = "write"
  /\ tmpLink' = job /\ prev' = current /\ pc' = "swap"
  /\ UNCHANGED <<exists, files, stray, current, job, todo, applied, blamed, envoy>>

\* Every key is written: replace current.tmp, then read what current names.
MakeLink ==
  /\ pc = "write" /\ todo = {}
  /\ tmpLink' = job /\ prev' = current /\ pc' = "swap"
  /\ UNCHANGED <<exists, files, stray, current, job, todo, applied, blamed, envoy>>

LinkFails ==
  /\ pc = "write" /\ todo = {}
  /\ tmpLink' = None
  /\ Fail
  /\ UNCHANGED <<exists, files, stray, current, envoy>>

\* A plausible bug: the previous directory is removed even when it is the one
\* just expanded again.
SwapRemovesOwn ==
  /\ pc = "swap"
  /\ current' = tmpLink /\ tmpLink' = None /\ event' = TRUE
  /\ IF prev = None
       THEN Succeed
       ELSE /\ pc' = "clean"
            /\ UNCHANGED <<job, todo, prev, applied>>
  /\ UNCHANGED <<exists, files, stray, blamed, opened, loaded>>

\* A plausible bug: the previous directory is never removed.
SwapKeepsPrevious ==
  /\ pc = "swap"
  /\ current' = tmpLink /\ tmpLink' = None /\ event' = TRUE
  /\ Succeed
  /\ UNCHANGED <<exists, files, stray, blamed, opened, loaded>>

\* os.Rename(current.tmp, current), the replacement Envoy watches for.
Swap ==
  /\ pc = "swap"
  /\ current' = tmpLink /\ tmpLink' = None /\ event' = TRUE
  /\ IF prev \in {None, job}
       THEN Succeed
       ELSE /\ pc' = "clean"
            /\ UNCHANGED <<job, todo, prev, applied>>
  /\ UNCHANGED <<exists, files, stray, blamed, opened, loaded>>

SwapFails ==
  /\ pc = "swap"
  /\ Fail
  /\ UNCHANGED <<disk, envoy>>

\* os.RemoveAll(previousTarget), one directory entry at a time.
RemoveEntry ==
  /\ pc = "clean"
  /\ \/ /\ prev \in stray
        /\ stray' = stray \ {prev} /\ UNCHANGED files
     \/ \E k \in Keys(prev) :
          /\ files[prev][k] # Absent
          /\ files' = [files EXCEPT ![prev][k] = Absent] /\ UNCHANGED stray
  /\ UNCHANGED <<exists, current, tmpLink, fetcher, blamed, envoy>>

RemoveDir ==
  /\ pc = "clean" /\ files[prev] = Nothing /\ prev \notin stray
  /\ exists' = exists \ {prev} /\ blamed' = blamed \ {prev}
  /\ Succeed
  /\ UNCHANGED <<files, stray, current, tmpLink, envoy>>

\* The error of os.RemoveAll is dropped.
RemoveFails ==
  /\ pc = "clean"
  /\ Succeed
  /\ blamed' = blamed \cup {prev}
  /\ UNCHANGED <<disk, envoy>>

\* The fetcher's process ends wherever it is, perhaps in the middle of an
\* atomicWrite, and is started again.
Crash ==
  /\ stray' \in IF pc = "write" /\ todo \ UnsafeKey # {}
                  THEN {stray, stray \cup {job}} ELSE {stray}
  /\ blamed' = blamed \cup ({job, prev} \ {None, current})
  /\ pc' = "idle" /\ job' = None /\ todo' = {} /\ prev' = None
  /\ applied' = None
  /\ UNCHANGED <<exists, files, current, tmpLink, envoy>>
-----------------------------------------------------------------------------
(* Envoy's disk_layer (external): on a change of the symlink it resolves   *)
(* it, then reads the directory it found, in one step: files are removed   *)
(* from it only after another swap, whose event is then pending, and a key *)
(* written again has the value it had.  A leftover temporary file would be *)
(* an entry no route asks for.  A directory that is gone leaves the        *)
(* entries as they were.                                                   *)

EnvoyOpen ==
  /\ event /\ opened = None /\ current # None
  /\ event' = FALSE /\ opened' = current
  /\ UNCHANGED <<disk, fetcher, blamed, loaded>>

EnvoyRead ==
  /\ opened # None
  /\ loaded' = IF opened \in exists THEN files[opened] ELSE loaded
  /\ opened' = None
  /\ UNCHANGED <<disk, fetcher, blamed, event>>

\* A new Envoy process starts with no entries and loads whatever is there.
EnvoyRestart ==
  /\ event' = (current # None) /\ opened' = None /\ loaded' = Nothing
  /\ UNCHANGED <<disk, fetcher, blamed>>

Next ==
  \/ \E m \in Manifest : Expand(m)
  \/ \E k \in Key : WriteKey(k) \/ RefuseKey(k)
  \/ WriteFails \/ MakeLink \/ LinkFails \/ Swap \/ SwapFails
  \/ RemoveEntry \/ RemoveDir \/ RemoveFails
  \/ Crash
  \/ EnvoyOpen \/ EnvoyRead \/ EnvoyRestart

Spec == Init /\ [][Next]_vars
-----------------------------------------------------------------------------
\* Type invariant, with what each program point knows.
TypeOK ==
  /\ exists \subseteq Manifest /\ stray \subseteq Manifest
  /\ files \in [Manifest -> [Key -> Value \cup {Absent}]]
  /\ current \in Manifest \cup {None} /\ tmpLink \in Manifest \cup {None}
  /\ pc \in {"idle", "write", "swap", "clean"}
  /\ job \in Manifest \cup {None} /\ (job = None <=> pc = "idle")
  /\ todo \subseteq Key /\ (todo # {} => pc = "write")
  /\ prev \in Manifest \cup {None} /\ (pc = "clean" => prev # None)
  /\ applied \in Manifest \cup {None}
  /\ blamed \subseteq Manifest
  /\ event \in BOOLEAN /\ opened \in Manifest \cup {None}
  /\ loaded \in [Key -> Value \cup {Absent}]

\* The directory Envoy is pointed at exists and holds exactly the keys of one
\* manifest, through failures at any step, restarts in the middle, retries
\* over half-written directories and the removal of the previous one.
CurrentComplete ==
  current # None => current \in exists /\ files[current] = Desired[current]

\* lastHash never claims more than the disk holds: a manifest this process
\* counts as applied is the one current points to, so a failed attempt is
\* retried on the next poll.
AppliedIsCurrent ==
  applied # None /\ pc # "clean" => current = applied

\* Once Envoy has caught up with the symlink it runs exactly the manifest that
\* is current: no write to a directory it was already reading, and no removal
\* of one it was still reading, leaves it with anything else.
QuiescentLoad ==
  current # None /\ ~event /\ opened = None => loaded = Desired[current]

\* Data directories do not pile up: one that is neither current nor in use was
\* left by a failed or interrupted expansion or removal.
LeftoversExplained ==
  exists \subseteq {current, job, prev} \cup blamed

\* What runtime/current shows its readers, and the manifest on its way there.
Live == IF current = None THEN Nothing ELSE files[current]
Requested ==
  [c \in {"fetcher"} |-> IF pc \in {"write", "swap"} THEN Desired[job] ELSE None]

Cell == INSTANCE AtomicCell WITH
          Value <- {Desired[m] : m \in Manifest}, Initial <- Nothing,
          Client <- {"fetcher"}, NoRequest <- None,
          cell <- Live, pending <- Requested

\* The symlink implements AtomicCell: one whole manifest after another, each the
\* one being expanded, and an expansion that fails or dies changes nothing.
ImplementsCell == Cell!Spec
=============================================================================
