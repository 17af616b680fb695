----------------------------- MODULE Gatewayctl -----------------------------
(***************************************************************************)
(* gatewayctl's commands as processes: operators share one checkout, that  *)
(* is values.yaml and rendered/, and the remote source they push to and    *)
(* read from, to which other machines push as well.  Commands overlap and  *)
(* stop half way.                                                          *)
(*                                                                         *)
(* A backend is its cluster in cds.yaml and its route in lds.yaml, and a   *)
(* target's faults are in runtime.yaml: content is a set of such parts,    *)
(* and a file shows the parts that are its own (Values has what they say). *)
(***************************************************************************)
EXTENDS Naturals, FiniteSets, Sequences

CONSTANTS
  Operator,   \* those who work in this checkout
  Name,       \* of backends, and of what faults are set for
  Files,      \* cds.yaml, lds.yaml and runtime.yaml in the order they are handled
  Cds, Lds, Runtime,
  Missing,    \* no such file
  Empty,      \* a file just truncated
  Nobody,
  MaxCommands \* a bound on the commands begun here and the uploads from elsewhere

ASSUME FilesAssumption == Files \in Seq({Cds, Lds, Runtime}) /\ Len(Files) > 0

File == {Files[i] : i \in 1..Len(Files)}
Part == File \X Name

ASSUME ConstantsAssumption ==
  /\ \A content \in SUBSET Part : content \notin {Missing, Empty}
  /\ Nobody \notin Operator /\ Name # {} /\ MaxCommands \in Nat

Backend(name) == Part \cap {<<Cds, name>>, <<Lds, name>>}
FaultsOf(name) == Part \cap {<<Runtime, name>>}

Rendering(content) == [f \in File |-> {p \in content : p[1] = f}]

\* What a file says to those who parse it: a missing and an empty one say nothing.
AsRead(file) == IF file \in {Missing, Empty} THEN {} ELSE file

Edit == {"add", "remove", "fault", "reset"}

\* Command lines: force is for those that have --force, and pushes says that a
\* mode is set, without which fetch and generate-values only report an error.
Command ==
  {c \in [kind : Edit \cup {"render", "push", "fetch", "generate"},
          name : Name, force : BOOLEAN, pushes : BOOLEAN] :
     /\ c.force => c.kind \in {"add", "generate"}
     /\ c.pushes => c.kind # "render"
     /\ c.kind \in {"push", "fetch", "generate"} => c.pushes}

\* What an edit makes of a content.
Edited(content, c) ==
  CASE c.kind = "add" -> content \cup Backend(c.name)
    [] c.kind = "remove" -> content \ Backend(c.name)
    [] c.kind = "fault" -> content \cup FaultsOf(c.name)
    [] c.kind = "reset" -> content \ FaultsOf(c.name)
    [] OTHER -> content

\* What generate-values makes of what the files show: a route by itself is no backend.
Restored(content) ==
  {p \in content : p[1] = Lds => <<Cds, p[2]>> \in content}

VARIABLES
  values,    \* values.yaml
  rendered,  \* rendered/, by file
  remote,    \* the remote source, by file
  at,        \* each operator's place in the code
  cmd,       \* and command
  mem,       \* and the content it has read
  n,         \* and the number of the file it is at
  alone,     \* history: the operator whose command has had everything to itself
  start,     \* history: values.yaml when that command began
  begun      \* the number of commands begun here and of uploads from elsewhere

vars == <<values, rendered, remote, at, cmd, mem, n, alone, start, begun>>
process == <<at, cmd, mem, n>>
history == <<alone, start, begun>>

Idle == CHOOSE c \in Command : TRUE

Init ==
  /\ values = Missing
  /\ rendered = [f \in File |-> Missing]
  /\ remote = [f \in File |-> Missing]
  /\ at = [o \in Operator |-> "idle"]
  /\ cmd = [o \in Operator |-> Idle]
  /\ mem = [o \in Operator |-> {}]
  /\ n = [o \in Operator |-> 1]
  /\ alone = Nobody
  /\ start = Missing
  /\ begun = 0

Set(f, o, x) == [f EXCEPT ![o] = x]

\* The program goes on at place p with file m, holding content c.
GoesOn(o, p, m, c) ==
  /\ at' = Set(at, o, p)
  /\ n' = Set(n, o, m)
  /\ mem' = Set(mem, o, c)
  /\ UNCHANGED cmd

\* The process ends, however it does.
Ends(o) ==
  /\ at' = Set(at, o, "idle")
  /\ cmd' = Set(cmd, o, Idle)
  /\ n' = Set(n, o, 1)
  /\ mem' = Set(mem, o, {})
  /\ alone' = IF alone = o THEN Nobody ELSE alone
  /\ UNCHANGED <<start, begun>>

\* Operator o enters c.
Begin(o, c) ==
  /\ at[o] = "idle" /\ begun < MaxCommands
  /\ cmd' = Set(cmd, o, c)
  /\ n' = Set(n, o, 1)
  /\ alone' = IF \A q \in Operator : at[q] = "idle" THEN o ELSE Nobody
  /\ start' = values
  /\ begun' = begun + 1
  /\ UNCHANGED <<values, rendered, remote>>

\* A plausible bug: the check of add-backend is left out.
LoadUnchecked(o, c) ==
  /\ c.kind \in Edit
  /\ c.kind = "remove" => <<Cds, c.name>> \in AsRead(values)
  /\ Begin(o, c)
  /\ at' = Set(at, o, "truncate")
  /\ mem' = Set(mem, o, Edited(AsRead(values), c))

\* add-backend, remove-backend and fault, up to the edit: add-backend refuses a
\* missing values.yaml if it would push, remove-backend a name that is not there.
Load(o, c) ==
  /\ c.kind \in Edit
  /\ c.kind = "add" => c.force \/ ~c.pushes \/ values # Missing
  /\ c.kind = "remove" => <<Cds, c.name>> \in AsRead(values)
  /\ Begin(o, c)
  /\ at' = Set(at, o, "truncate")
  /\ mem' = Set(mem, o, Edited(AsRead(values), c))

\* os.WriteFile in Save, in its two steps.
Truncate(o) ==
  /\ at[o] = "truncate"
  /\ values' = Empty
  /\ GoesOn(o, "save", n[o], mem[o])
  /\ UNCHANGED <<rendered, remote, history>>

Save(o) ==
  /\ at[o] = "save"
  /\ values' = mem[o]
  /\ IF cmd[o].kind = "generate" THEN Ends(o)
       ELSE GoesOn(o, "reload", 1, {}) /\ UNCHANGED history
  /\ UNCHANGED <<rendered, remote>>

\* A plausible bug: push-http and push-s3 send what is already rendered.
StartRegenerateUnlessPush(o, c) ==
  /\ c.kind \in {"render", "push"}
  /\ Begin(o, c)
  /\ at' = Set(at, o, IF c.kind = "push" THEN "open" ELSE "reload")
  /\ UNCHANGED mem

\* render, push-http and push-s3 begin with regenerate.
StartRegenerate(o, c) ==
  /\ c.kind \in {"render", "push"}
  /\ Begin(o, c)
  /\ at' = Set(at, o, "reload")
  /\ UNCHANGED mem

\* regenerate reads values.yaml again.
Reload(o) ==
  /\ at[o] = "reload"
  /\ GoesOn(o, "emit", 1, AsRead(values))
  /\ UNCHANGED <<values, rendered, remote, history>>

\* A plausible bug: the last file is not written.
EmitAllButLast(o) ==
  /\ at[o] = "emit"
  /\ rendered' = IF n[o] = Len(Files) THEN rendered
                   ELSE Set(rendered, Files[n[o]], Rendering(mem[o])[Files[n[o]]])
  /\ IF n[o] < Len(Files) THEN GoesOn(o, "emit", n[o] + 1, mem[o]) /\ UNCHANGED history
       ELSE IF cmd[o].pushes THEN GoesOn(o, "open", 1, {}) /\ UNCHANGED history
       ELSE Ends(o)
  /\ UNCHANGED <<values, remote>>

\* A plausible bug: the loop goes one too far.
EmitTooFar(o) ==
  /\ at[o] = "emit"
  /\ rendered' = Set(rendered, Files[n[o]], Rendering(mem[o])[Files[n[o]]])
  /\ GoesOn(o, "emit", n[o] + 1, mem[o])
  /\ UNCHANGED <<values, remote, history>>

\* regenerate writes a file, atomically; then the push, if there is to be one.
Emit(o) ==
  /\ at[o] = "emit"
  /\ rendered' = Set(rendered, Files[n[o]], Rendering(mem[o])[Files[n[o]]])
  /\ IF n[o] < Len(Files) THEN GoesOn(o, "emit", n[o] + 1, mem[o]) /\ UNCHANGED history
       ELSE IF cmd[o].pushes THEN GoesOn(o, "open", 1, {}) /\ UNCHANGED history
       ELSE Ends(o)
  /\ UNCHANGED <<values, remote>>

\* pushHTTPFiles and pushS3Files read a rendered file,
OpenRendered(o) ==
  /\ at[o] = "open"
  /\ rendered[Files[n[o]]] # Missing
  /\ GoesOn(o, "send", n[o], rendered[Files[n[o]]])
  /\ UNCHANGED <<values, rendered, remote, history>>

\* and upload it.  It is stored at once or, if the command stops here, by an
\* Elsewhere or never; Distribution has requests that are late.
Send(o) ==
  /\ at[o] = "send"
  /\ remote' = Set(remote, Files[n[o]], mem[o])
  /\ IF n[o] < Len(Files) THEN GoesOn(o, "open", n[o] + 1, {}) /\ UNCHANGED history
       ELSE Ends(o)
  /\ UNCHANGED <<values, rendered>>

\* fetch.
StartFetch(o, c) ==
  /\ c.kind = "fetch"
  /\ Begin(o, c)
  /\ at' = Set(at, o, "fetch")
  /\ UNCHANGED mem

\* After a file of fetch.
NextFetch(o) ==
  IF n[o] < Len(Files) THEN GoesOn(o, "fetch", n[o] + 1, {}) /\ UNCHANGED history ELSE Ends(o)

\* A plausible bug: fetch ends at a file the source does not have.
FetchNothingReturns(o) ==
  /\ at[o] = "fetch"
  /\ remote[Files[n[o]]] = Missing
  /\ Ends(o)
  /\ UNCHANGED <<values, rendered, remote>>

\* A file the source does not have is skipped,
FetchNothing(o) ==
  /\ at[o] = "fetch"
  /\ remote[Files[n[o]]] = Missing
  /\ NextFetch(o)
  /\ UNCHANGED <<values, rendered, remote>>

\* and any other replaces the rendered one, by os.WriteFile.
FetchFile(o) ==
  /\ at[o] = "fetch"
  /\ remote[Files[n[o]]] # Missing
  /\ GoesOn(o, "cut", n[o], remote[Files[n[o]]])
  /\ UNCHANGED <<values, rendered, remote, history>>

Cut(o) ==
  /\ at[o] = "cut"
  /\ rendered' = Set(rendered, Files[n[o]], Empty)
  /\ GoesOn(o, "fill", n[o], mem[o])
  /\ UNCHANGED <<values, remote, history>>

Fill(o) ==
  /\ at[o] = "fill"
  /\ rendered' = Set(rendered, Files[n[o]], mem[o])
  /\ NextFetch(o)
  /\ UNCHANGED <<values, remote>>

\* A plausible bug: what is there is kept and added to.
StartGenerateMerging(o, c) ==
  /\ c.kind = "generate"
  /\ c.force \/ values = Missing
  /\ Begin(o, c)
  /\ at' = Set(at, o, "gather")
  /\ mem' = Set(mem, o, AsRead(values))

\* generate-values needs --force if there is a values.yaml.
StartGenerate(o, c) ==
  /\ c.kind = "generate"
  /\ c.force \/ values = Missing
  /\ Begin(o, c)
  /\ at' = Set(at, o, "gather")
  /\ UNCHANGED mem

\* It gets every file, must find the first two, and only then writes.
Gather(o) ==
  LET f == Files[n[o]]
      more == mem[o] \cup AsRead(remote[f])
  IN  /\ at[o] = "gather"
      /\ f \in {Cds, Lds} => remote[f] # Missing
      /\ IF n[o] < Len(Files) THEN GoesOn(o, "gather", n[o] + 1, more)
           ELSE GoesOn(o, "truncate", 1, Restored(more))
      /\ UNCHANGED <<values, rendered, remote, history>>

\* A command ends in the middle, by an error of any of its steps or a signal.
Stops(o) ==
  /\ at[o] # "idle"
  /\ Ends(o)
  /\ UNCHANGED <<values, rendered, remote>>

\* A file is uploaded by another machine, or by a command that gave up waiting for
\* its upload (push_http.go:90).
Elsewhere(f, content) ==
  /\ begun < MaxCommands
  /\ remote' = Set(remote, f, content)
  /\ alone' = Nobody
  /\ begun' = begun + 1
  /\ UNCHANGED <<values, rendered, process, start>>

Step(o) ==
  \/ \E c \in Command :
       Load(o, c) \/ StartRegenerate(o, c) \/ StartFetch(o, c) \/ StartGenerate(o, c)
  \/ Truncate(o) \/ Save(o) \/ Reload(o) \/ Emit(o) \/ OpenRendered(o) \/ Send(o)
  \/ FetchNothing(o) \/ FetchFile(o) \/ Cut(o) \/ Fill(o) \/ Gather(o) \/ Stops(o)

Next ==
  \/ \E o \in Operator : Step(o)
  \/ \E f \in File, names \in SUBSET Name : Elsewhere(f, {f} \X names)

Spec == Init /\ [][Next]_vars
-----------------------------------------------------------------------------
\* Type invariant.
TypeOK ==
  /\ values \in (SUBSET Part) \cup {Missing, Empty}
  /\ \A f \in File : {rendered[f], remote[f]} \subseteq (SUBSET ({f} \X Name)) \cup {Missing, Empty}
  /\ at \in [Operator -> {"idle", "truncate", "save", "reload", "emit", "open", "send",
                          "fetch", "cut", "fill", "gather"}]
  /\ cmd \in [Operator -> Command]
  /\ mem \in [Operator -> (SUBSET Part) \cup {Empty}]
  /\ n \in [Operator -> 1..Len(Files)]
  /\ alone \in Operator \cup {Nobody}
  /\ start \in (SUBSET Part) \cup {Missing, Empty}
  /\ begun \in 0..MaxCommands

\* A command that has the checkout and the source to itself leaves in values.yaml
\* what it found there, edited, and in rendered/ what that renders to, whatever
\* commands that overlapped, failed or were killed left before it: "the rendered
\* output is always in sync with values.yaml on disk" (root.go:158-160).
InSync ==
  [][\A o \in Operator : alone = o /\ Emit(o) /\ n[o] = Len(Files) =>
       /\ AsRead(values') = Edited(AsRead(start), cmd[o])
       /\ rendered' = Rendering(AsRead(values'))]_vars

\* If it pushes and gets to its end, so does the source, in every file.
Delivers ==
  [][\A o \in Operator : alone = o /\ Send(o) /\ at'[o] = "idle" =>
       /\ AsRead(values') = Edited(AsRead(start), cmd[o])
       /\ remote' = Rendering(AsRead(values'))]_vars

\* An add-backend or remove-backend without --force that has everything to itself
\* never uploads anything if values.yaml was missing: docs/index.html:488, "This
\* guards the wrong-directory/wrong-machine trap".
MissingIsSafe ==
  \A o \in Operator :
    ~ /\ alone = o /\ start = Missing
      /\ cmd[o].kind \in {"add", "remove"} /\ ~cmd[o].force
      /\ at[o] = "send"

\* A fetch by itself leaves in rendered/ every file the source has (fetch.go:17-25).
FetchCopies ==
  [][\A o \in Operator : alone = o /\ (Fill(o) \/ FetchNothing(o)) /\ at'[o] = "idle" =>
       \A f \in File : remote[f] # Missing => rendered'[f] = remote[f]]_vars

\* generate-values by itself leaves in values.yaml what the source has and nothing
\* of what was there (docs/index.html:508).
GenerateCopies ==
  [][\A o \in Operator : alone = o /\ Save(o) /\ cmd[o].kind = "generate" =>
       values' = Restored(UNION {AsRead(remote[f]) : f \in File})]_vars

\* "A reader never observes a missing or partial file mid-swap" (docs/architecture.md:25-27).
ReadsWhole ==
  [][\A o \in Operator :
       /\ Reload(o) \/ (\E c \in Command : Load(o, c)) => values # Empty
       /\ OpenRendered(o) => rendered[Files[n[o]]] # Empty]_vars
=============================================================================
