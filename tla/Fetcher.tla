------------------------------ MODULE Fetcher ------------------------------
(***************************************************************************)
(* The poll loop of fetcher/main.go: one process per gateway container     *)
(* that fetches each of CONFIG_FILES, in order, from the config source and *)
(* applies the ones whose digest it has not applied yet, and that answers  *)
(* the container's readiness probe from `synced`.                          *)
(*                                                                         *)
(* The source, the file system and the life of the process are the         *)
(* environment: anyone may push a file at any time, a fetch or a write     *)
(* may fail while its file is in `faulty`, and the process may restart.    *)
(* A fetch from S3 whose request or answer is lost may never return.       *)
(* Applying a file is one step: AtomicWrite and RuntimeLayer show that     *)
(* atomicWrite and expandRuntimeLayer are atomic to a reader and leave     *)
(* what was there when they fail.  A digest stands for its content.        *)
(***************************************************************************)
EXTENDS Naturals, Sequences

CONSTANTS
  Files,      \* CONFIG_FILES, a sequence without repetition
  Content,    \* what a file may hold
  Seed,       \* the content baked into the image, in Content
  NotPushed,  \* the source holds nothing for a file
  None,       \* no content fetched, no digest recorded
  ReadErrorIsNotFound
    \* TRUE for the http source, whose server answers 404 to a GET whatever
    \* the reason it could not read the file; FALSE for the s3 source

\* The http client gives up after 5 s; GetObject's context has no deadline.
HasDeadline == ReadErrorIsNotFound

File == {Files[n] : n \in 1..Len(Files)}

ASSUME ConstantsAssumption ==
  /\ Len(Files) \in Nat \ {0}
  /\ \A m, n \in 1..Len(Files) : Files[m] = Files[n] => m = n
  /\ Seed \in Content
  /\ NotPushed \notin Content /\ None \notin Content
  /\ ReadErrorIsNotFound \in BOOLEAN

VARIABLES
  remote,     \* the source's content of each file
  faulty,     \* files whose fetch or write may fail now
  disk,       \* the content applied in the container: what Envoy can load
  lastHash,   \* digests recorded since the process started
  synced,     \* the readiness flag
  cleanPass,  \* no error so far in this pass
  pc,         \* "fetch", "lost", "apply", "settle", "end", "sleep"
  i,          \* position in Files
  got,        \* the content fetched for Files[i]
  moved       \* history: the files pushed since this pass began

env == <<remote, faulty>>
loop == <<cleanPass, pc, i, got>>
vars == <<env, disk, lastHash, synced, loop, moved>>

file == Files[i]

Init ==
  /\ remote \in [File -> Content \cup {NotPushed}]
  /\ faulty \in SUBSET File
  /\ disk = [f \in File |-> Seed]
  /\ lastHash = [f \in File |-> None]
  /\ synced = FALSE
  /\ cleanPass = TRUE /\ pc = "fetch" /\ i = 1 /\ got = None
  /\ moved = {}
-----------------------------------------------------------------------------
(* One iteration of the loop over files.  `continue` and the end of the    *)
(* body both go on to the next file, or to the end of the pass.            *)

\* A plausible bug: one position too many.
NextFileTooFar ==
  IF i <= Len(Files) THEN i' = i + 1 /\ pc' = "fetch" ELSE i' = i /\ pc' = "end"

\* A plausible bug: an error ends the pass instead of the file's turn.
NextFileOrBreak ==
  IF i < Len(Files) /\ file \notin faulty
    THEN i' = i + 1 /\ pc' = "fetch" ELSE i' = i /\ pc' = "end"

NextFile ==
  IF i < Len(Files) THEN i' = i + 1 /\ pc' = "fetch" ELSE i' = i /\ pc' = "end"

\* A plausible bug: a fetch that fails does not spoil the pass.
FetchFailsUnnoted ==
  /\ (pc = "fetch" /\ file \in faulty) \/ pc = "lost"
  /\ NextFile
  /\ UNCHANGED <<env, disk, lastHash, synced, cleanPass, got, moved>>

\* src.fetch has sent its request, which is lost, or its answer is, and nothing
\* makes it return.
FetchLost ==
  /\ pc = "fetch" /\ file \in faulty /\ ~HasDeadline
  /\ pc' = "lost"
  /\ UNCHANGED <<env, disk, lastHash, synced, cleanPass, i, got, moved>>

\* src.fetch returns an error.
FetchFails ==
  /\ (pc = "fetch" /\ file \in faulty) \/ pc = "lost"
  /\ cleanPass' = FALSE /\ NextFile
  /\ UNCHANGED <<env, disk, lastHash, synced, got, moved>>

\* src.fetch returns found = false: nothing was pushed, or config_server could
\* not read what was.
FetchFindsNothing ==
  /\ pc = "fetch"
  /\ \/ remote[file] = NotPushed
     \/ ReadErrorIsNotFound /\ file \in faulty
  /\ NextFile
  /\ UNCHANGED <<env, disk, lastHash, synced, cleanPass, got, moved>>

FetchUnchanged ==
  /\ pc = "fetch" /\ remote[file] # NotPushed
  /\ lastHash[file] = remote[file]
  /\ NextFile
  /\ UNCHANGED <<env, disk, lastHash, synced, cleanPass, got, moved>>

FetchChanged ==
  /\ pc = "fetch" /\ remote[file] # NotPushed
  /\ lastHash[file] # remote[file]
  /\ got' = remote[file] /\ pc' = "apply"
  /\ UNCHANGED <<env, disk, lastHash, synced, cleanPass, i, moved>>

\* atomicWrite or expandRuntimeLayer succeeds and the digest is recorded; a
\* pause follows unless this was the last file.
Apply ==
  /\ pc = "apply"
  /\ disk' = [disk EXCEPT ![file] = got]
  /\ lastHash' = [lastHash EXCEPT ![file] = got]
  /\ got' = None
  /\ IF i < Len(Files) THEN pc' = "settle" /\ i' = i ELSE NextFile
  /\ UNCHANGED <<env, synced, cleanPass, moved>>

\* A plausible bug: the digest is recorded before the write's error is seen.
ApplyFailsRecorded ==
  /\ pc = "apply" /\ file \in faulty
  /\ lastHash' = [lastHash EXCEPT ![file] = got]
  /\ cleanPass' = FALSE /\ got' = None /\ NextFile
  /\ UNCHANGED <<env, disk, synced, moved>>

ApplyFails ==
  /\ pc = "apply" /\ file \in faulty
  /\ cleanPass' = FALSE /\ got' = None /\ NextFile
  /\ UNCHANGED <<env, disk, lastHash, synced, moved>>

\* The 300 ms after a write are over.
Settle ==
  /\ pc = "settle"
  /\ NextFile
  /\ UNCHANGED <<env, disk, lastHash, synced, cleanPass, got, moved>>

\* A plausible bug: ready after any pass.
EndPassAlwaysReady ==
  /\ pc = "end"
  /\ synced' = TRUE
  /\ pc' = "sleep"
  /\ UNCHANGED <<env, disk, lastHash, cleanPass, i, got, moved>>

\* After the last file: report readiness if the pass was clean, then sleep.
EndPass ==
  /\ pc = "end"
  /\ synced' = (synced \/ cleanPass)
  /\ pc' = "sleep"
  /\ UNCHANGED <<env, disk, lastHash, cleanPass, i, got, moved>>

\* A plausible bug: a pass inherits the errors of the one before.
BeginPassUnreset ==
  /\ pc = "sleep"
  /\ i' = 1 /\ pc' = "fetch"
  /\ moved' = {}
  /\ UNCHANGED <<env, disk, lastHash, synced, cleanPass, got>>

BeginPass ==
  /\ pc = "sleep"
  /\ cleanPass' = TRUE /\ i' = 1 /\ pc' = "fetch"
  /\ moved' = {}
  /\ UNCHANGED <<env, disk, lastHash, synced, got>>

FetcherStep ==
  \/ FetchLost \/ FetchFails
  \/ FetchFindsNothing \/ FetchUnchanged \/ FetchChanged
  \/ Apply \/ ApplyFails \/ Settle
  \/ EndPass \/ BeginPass
-----------------------------------------------------------------------------
(* The environment                                                         *)

\* The process starts, with nothing in memory: supervisord restarts it over
\* the disk as it was, or a new container starts from the image.
Start(newDisk) ==
  /\ disk' = newDisk
  /\ lastHash' = [f \in File |-> None]
  /\ synced' = FALSE
  /\ cleanPass' = TRUE /\ pc' = "fetch" /\ i' = 1 /\ got' = None
  /\ moved' = {}
  /\ UNCHANGED env

Restart == Start(disk) \/ Start([f \in File |-> Seed])

\* Someone pushes file f, or the source loses what it held (the server's
\* storage need not be persistent).
Push(f, c) ==
  /\ remote' = [remote EXCEPT ![f] = c]
  /\ moved' = moved \cup {f}
  /\ UNCHANGED <<faulty, disk, lastHash, synced, loop>>

Trouble ==
  /\ faulty' \in SUBSET File
  /\ UNCHANGED <<remote, disk, lastHash, synced, loop, moved>>

Environment ==
  \/ Restart \/ Trouble
  \/ \E f \in File : \E c \in Content \cup {NotPushed} : Push(f, c)

Next == FetcherStep \/ Environment

Spec == Init /\ [][Next]_vars

\* The loop goes on: its sleeps end, its writes return, and so does a fetch unless
\* it is lost, of which nothing is assumed, nor of the environment; and while a file
\* is faulty nothing says whether its fetch fails or not.
FairSpec == Spec /\ WF_vars(FetcherStep /\ pc # "lost")
-----------------------------------------------------------------------------
\* Type invariant of the loop and its environment.
TypeOK ==
  /\ remote \in [File -> Content \cup {NotPushed}]
  /\ faulty \subseteq File
  /\ disk \in [File -> Content]
  /\ lastHash \in [File -> Content \cup {None}]
  /\ synced \in BOOLEAN /\ cleanPass \in BOOLEAN
  /\ pc \in {"fetch", "lost", "apply", "settle", "end", "sleep"}
  /\ i \in 1..Len(Files)
  /\ got \in Content \cup {None} /\ (got # None <=> pc = "apply")
  /\ moved \subseteq File

\* A recorded digest is the digest of what is on disk, whatever failed or
\* restarted before: a file is skipped as unchanged only when it is in place.
HashMeansApplied ==
  \A f \in File : lastHash[f] # None => disk[f] = lastHash[f]

\* f on disk is what the source holds, unless f was pushed during this pass or
\* the source holds nothing for it.
Reflects(f) == f \in moved \/ remote[f] = NotPushed \/ disk[f] = remote[f]

\* A pass without errors leaves every file as the source has it: a push is on
\* disk by the end of the first clean pass that begins after it, whatever the
\* passes and processes before that one did (scripts/integration-test.sh:273-274,
\* "eventually consistent within one poll interval").
CleanPassReflects ==
  pc = "end" /\ cleanPass => \A f \in File : Reflects(f)

\* Readiness is first reported at the end of a pass that left every file as
\* the source has it (main.go:257-259), and only then.
ReadyIsEarned == [][~synced /\ synced' => \A f \in File : Reflects(f)]_vars

\* Readiness "never flips back" (main.go:260) while the process lives.
ReadyStays == [][synced => synced' \/ Restart]_vars

\* From some point on the process is not restarted, file f is not pushed, and
\* neither fetching nor writing f fails.
Quiet(f) ==
  /\ <>[][~Restart /\ remote'[f] = remote[f]]_vars
  /\ <>[](f \notin faulty)

\* No fetch is lost for good.  For the http source that is so; a GetObject that
\* never returns blocks the loop for every file.
FetchesReturn == []<>(pc # "lost")

\* A file that is left alone reaches the disk and stays, even if every other
\* file keeps failing or changing, unless a fetch is lost for good.
FileConverges ==
  FetchesReturn => \A f \in File :
    Quiet(f) => <>[](remote[f] # NotPushed => disk[f] = remote[f])

\* A process that is left running without failures becomes ready, however many
\* failures came first and however often files are still pushed, unless a fetch
\* that was lost before never returns.
BecomesReady ==
  FetchesReturn /\ <>[][~Restart]_vars /\ <>[](faulty = {}) => <>[]synced
=============================================================================
