-------------------------- MODULE GatewayctlProofs --------------------------
(***************************************************************************)
(* Proofs about overlapping gatewayctl commands, for any number of         *)
(* operators and commands and any names and files.                         *)
(***************************************************************************)
EXTENDS Gatewayctl, TLAPS

\* What a file may hold.
FileContent == (SUBSET Part) \cup {Missing, Empty}

LEMMA FileAt ==
  /\ 1 \in 1..Len(Files) /\ Len(Files) \in Nat
  /\ \A m \in 1..Len(Files) : Files[m] \in File
<1>1. Len(Files) \in Nat
  BY FilesAssumption
<1> QED
  BY <1>1, FilesAssumption DEF File

LEMMA AsReadType == ASSUME NEW x \in FileContent PROVE AsRead(x) \in SUBSET Part
  BY DEF AsRead, FileContent

\* Content is never mistaken for a missing or a truncated file.
LEMMA AsReadContent == ASSUME NEW x \in SUBSET Part PROVE AsRead(x) = x
  BY ConstantsAssumption DEF AsRead

LEMMA EditedType ==
  ASSUME NEW content \in SUBSET Part, NEW c PROVE Edited(content, c) \in SUBSET Part
  BY Zenon DEF Edited, Backend, FaultsOf

LEMMA RestoredType ==
  ASSUME NEW content \in SUBSET Part PROVE Restored(content) \in SUBSET Part
  BY DEF Restored

LEMMA RenderingType ==
  ASSUME NEW content \in SUBSET Part, NEW f \in File
  PROVE  Rendering(content)[f] \in SUBSET ({f} \X Name)
  BY DEF Rendering, Part

LEMMA IdleType == Idle \in Command
<1>1. PICK x \in Name : TRUE
  BY ConstantsAssumption
<1>2. [kind |-> "push", name |-> x, force |-> FALSE, pushes |-> TRUE] \in Command
  BY DEF Command
<1> QED
  BY <1>2 DEF Idle
-----------------------------------------------------------------------------
(* Types                                                                   *)

\* The files, here and at the source, which have parts of their own only.
FilesTyped ==
  /\ values \in FileContent
  /\ rendered \in [File -> FileContent] /\ remote \in [File -> FileContent]
  /\ \A f \in File :
       {rendered[f], remote[f]} \subseteq (SUBSET ({f} \X Name)) \cup {Missing, Empty}

\* What a command that is at place p with file m has read: content if it is about
\* to be saved or rendered, a part of that file if it is about to be sent or written.
MayHold(p, m, c) ==
  /\ c \in (SUBSET Part) \cup {Empty}
  /\ p \in {"idle", "reload"} => c = {}
  /\ p \in {"truncate", "save", "emit", "gather"} => c \in SUBSET Part
  /\ p \in {"send", "cut", "fill"} => c \in (SUBSET ({Files[m]} \X Name)) \cup {Empty}

At == {"idle", "truncate", "save", "reload", "emit", "open", "send",
       "fetch", "cut", "fill", "gather"}

CommandsTyped ==
  /\ at \in [Operator -> At] /\ cmd \in [Operator -> Command]
  /\ mem \in [Operator -> (SUBSET Part) \cup {Empty}] /\ n \in [Operator -> 1..Len(Files)]
  /\ \A o \in Operator : MayHold(at[o], n[o], mem[o])
  /\ alone \in Operator \cup {Nobody} /\ start \in FileContent /\ begun \in 0..MaxCommands

Typed == FilesTyped /\ CommandsTyped

LEMMA TypedImplies == Typed => TypeOK
  BY DEF Typed, FilesTyped, CommandsTyped, TypeOK, FileContent, At

LEMMA TypedInit == Init => Typed
<1> SUFFICES ASSUME Init PROVE Typed
  OBVIOUS
<1>1. FilesTyped
  BY DEF Init, FilesTyped, FileContent
<1>2. CommandsTyped
  BY FileAt, IdleType, ConstantsAssumption DEF Init, CommandsTyped, MayHold, FileContent, At
<1> QED
  BY <1>1, <1>2 DEF Typed

\* A program that goes on, ends or begins leaves the others alone.
LEMMA GoesOnTyped ==
  ASSUME CommandsTyped, NEW o \in Operator, NEW p \in At, NEW m \in 1..Len(Files), NEW c,
         MayHold(p, m, c), GoesOn(o, p, m, c), UNCHANGED history
  PROVE  CommandsTyped'
<1>1. UNCHANGED <<cmd, alone, start, begun>>
  BY DEF GoesOn, history
<1>2. /\ at' = [at EXCEPT ![o] = p] /\ n' = [n EXCEPT ![o] = m] /\ mem' = [mem EXCEPT ![o] = c]
      /\ c \in (SUBSET Part) \cup {Empty}
  BY DEF GoesOn, Set, MayHold
<1>3. \A q \in Operator : MayHold(at'[q], n'[q], mem'[q])
  BY <1>2 DEF CommandsTyped
<1> QED
  BY <1>1, <1>2, <1>3 DEF CommandsTyped

LEMMA EndsTyped ==
  ASSUME CommandsTyped, NEW o \in Operator, Ends(o)
  PROVE  CommandsTyped'
<1>1. UNCHANGED <<start, begun>> /\ alone' \in Operator \cup {Nobody}
  BY DEF Ends, CommandsTyped
<1>2. /\ at' = [at EXCEPT ![o] = "idle"] /\ cmd' = [cmd EXCEPT ![o] = Idle]
      /\ n' = [n EXCEPT ![o] = 1] /\ mem' = [mem EXCEPT ![o] = {}]
  BY DEF Ends, Set
<1>3. MayHold("idle", 1, {})
  BY DEF MayHold
<1>4. \A q \in Operator : MayHold(at'[q], n'[q], mem'[q])
  BY <1>2, <1>3 DEF CommandsTyped
<1> QED
  BY <1>1, <1>2, <1>4, FileAt, IdleType DEF CommandsTyped, At

LEMMA BeginTyped ==
  ASSUME CommandsTyped, values \in FileContent, NEW o \in Operator, NEW c \in Command,
         NEW p \in At, NEW x, MayHold(p, 1, x),
         Begin(o, c), at' = Set(at, o, p), mem' = Set(mem, o, x)
  PROVE  CommandsTyped'
<1>1. /\ begun' \in 0..MaxCommands /\ start' \in FileContent
      /\ alone' \in Operator \cup {Nobody}
  BY ConstantsAssumption DEF Begin, CommandsTyped
<1>2. /\ at' = [at EXCEPT ![o] = p] /\ cmd' = [cmd EXCEPT ![o] = c]
      /\ n' = [n EXCEPT ![o] = 1] /\ mem' = [mem EXCEPT ![o] = x]
      /\ x \in (SUBSET Part) \cup {Empty}
  BY DEF Begin, Set, MayHold
<1>3. \A q \in Operator : MayHold(at'[q], n'[q], mem'[q])
  BY <1>2 DEF CommandsTyped
<1> QED
  BY <1>1, <1>2, <1>3, FileAt DEF CommandsTyped

\* A step that writes at most one file of rendered/ or of the source.
LEMMA FilesStayTyped ==
  ASSUME FilesTyped, values' = values \/ values' \in FileContent,
         NEW f \in File, NEW x \in (SUBSET ({f} \X Name)) \cup {Missing, Empty},
         rendered' \in {rendered, Set(rendered, f, x)},
         remote' \in {remote, Set(remote, f, x)}
  PROVE  FilesTyped'
<1>1. x \in FileContent
  BY DEF FileContent, Part
<1> QED
  BY <1>1 DEF FilesTyped, Set

LEMMA TypedInductive == ASSUME Typed, [Next]_vars PROVE Typed'
<1> USE DEF Typed
<1>1. values \in FileContent /\ AsRead(values) \in SUBSET Part
  BY AsReadType DEF FilesTyped
<1>2. ASSUME NEW o \in Operator, Step(o) PROVE Typed'
  <2>1. /\ n[o] \in 1..Len(Files) /\ n[o] \in Nat /\ MayHold(at[o], n[o], mem[o])
        /\ Files[n[o]] \in File /\ (n[o] < Len(Files) => n[o] + 1 \in 1..Len(Files))
    BY FileAt DEF CommandsTyped
  <2>2. UNCHANGED <<values, rendered, remote>> => FilesTyped'
    BY DEF FilesTyped
  <2>3. MayHold("open", 1, {}) /\ MayHold("reload", 1, {})
        /\ \A m : MayHold("open", m, {}) /\ MayHold("fetch", m, {})
    BY DEF MayHold
  <2>4. ASSUME NEW c \in Command, Load(o, c) PROVE Typed'
    <3>1. Edited(AsRead(values), c) \in SUBSET Part
      BY <1>1, EditedType
    <3> QED
      BY <1>1, <2>2, <2>4, <3>1, BeginTyped DEF Load, Begin, MayHold, At
  <2>5. ASSUME NEW c \in Command, StartRegenerate(o, c) \/ StartFetch(o, c) \/ StartGenerate(o, c)
        PROVE  Typed'
    <3>1. Begin(o, c) /\ at[o] = "idle" /\ mem' = mem
      BY <2>5 DEF StartRegenerate, StartFetch, StartGenerate, Begin
    <3>2. mem' = Set(mem, o, {})
      BY <2>1, <3>1 DEF CommandsTyped, MayHold, Set
    <3>3. PICK p \in {"reload", "fetch", "gather"} : at' = Set(at, o, p)
      BY <2>5 DEF StartRegenerate, StartFetch, StartGenerate
    <3>4. MayHold(p, 1, {}) /\ p \in At
      BY DEF MayHold, At
    <3> QED
      BY <1>1, <2>2, <3>1, <3>2, <3>3, <3>4, BeginTyped DEF Begin
  <2>6. CASE Truncate(o)
    <3>1. MayHold("save", n[o], mem[o]) /\ "save" \in At
      BY <2>1, <2>6 DEF Truncate, MayHold, At
    <3>2. FilesTyped'
      BY <2>6 DEF Truncate, FilesTyped, FileContent
    <3> QED
      BY <2>1, <2>6, <3>1, <3>2, GoesOnTyped DEF Truncate
  <2>7. CASE Save(o)
    <3>1. FilesTyped'
      BY <2>1, <2>7 DEF Save, FilesTyped, FileContent, MayHold
    <3> QED
      BY <2>3, <2>7, <3>1, FileAt, GoesOnTyped, EndsTyped DEF Save, At
  <2>8. CASE Reload(o)
    <3>1. MayHold("emit", 1, AsRead(values)) /\ "emit" \in At
      BY <1>1 DEF MayHold, At
    <3> QED
      BY <2>2, <2>8, <3>1, FileAt, GoesOnTyped DEF Reload
  <2>9. CASE Emit(o)
    <3>1. Rendering(mem[o])[Files[n[o]]] \in SUBSET ({Files[n[o]]} \X Name)
      BY <2>1, <2>9, RenderingType DEF Emit, MayHold
    <3>2. FilesTyped'
      BY <2>1, <2>9, <3>1, FilesStayTyped DEF Emit
    <3>3. MayHold("emit", n[o] + 1, mem[o])
      BY <2>1, <2>9 DEF Emit, MayHold
    <3> QED
      BY <2>1, <2>3, <2>9, <3>2, <3>3, FileAt, GoesOnTyped, EndsTyped DEF Emit, At
  <2>10. CASE OpenRendered(o)
    <3>1. MayHold("send", n[o], rendered[Files[n[o]]]) /\ "send" \in At
      BY <2>1, <2>10 DEF OpenRendered, MayHold, FilesTyped, FileContent, At, Part
    <3> QED
      BY <2>1, <2>2, <2>10, <3>1, GoesOnTyped DEF OpenRendered
  <2>11. CASE Send(o)
    <3>1. FilesTyped'
      BY <2>1, <2>11, FilesStayTyped DEF Send, MayHold
    <3> QED
      BY <2>1, <2>3, <2>11, <3>1, GoesOnTyped, EndsTyped DEF Send, At
  <2>12. ASSUME NextFetch(o) PROVE CommandsTyped'
    BY <2>1, <2>3, <2>12, GoesOnTyped, EndsTyped DEF NextFetch, At
  <2>13. CASE FetchNothing(o)
    BY <2>2, <2>12, <2>13 DEF FetchNothing
  <2>14. CASE FetchFile(o)
    <3>1. MayHold("cut", n[o], remote[Files[n[o]]]) /\ "cut" \in At
      BY <2>1, <2>14 DEF FetchFile, MayHold, FilesTyped, FileContent, At, Part
    <3> QED
      BY <2>1, <2>2, <2>14, <3>1, GoesOnTyped DEF FetchFile
  <2>15. CASE Cut(o)
    <3>1. MayHold("fill", n[o], mem[o]) /\ "fill" \in At
      BY <2>1, <2>15 DEF Cut, MayHold, At
    <3>2. FilesTyped'
      BY <2>1, <2>15, FilesStayTyped DEF Cut
    <3> QED
      BY <2>1, <2>15, <3>1, <3>2, GoesOnTyped DEF Cut
  <2>16. CASE Fill(o)
    <3>1. FilesTyped'
      BY <2>1, <2>16, FilesStayTyped DEF Fill, MayHold
    <3> QED
      BY <2>12, <2>16, <3>1 DEF Fill
  <2>17. CASE Gather(o)
    <3> DEFINE more == mem[o] \cup AsRead(remote[Files[n[o]]])
    <3>1. more \in SUBSET Part
      BY <2>1, <2>17, AsReadType DEF Gather, MayHold, FilesTyped
    <3>2. Restored(more) \in SUBSET Part
      BY <3>1, RestoredType
    <3>3. MayHold("gather", n[o] + 1, more) /\ MayHold("truncate", 1, Restored(more))
      BY <3>1, <3>2 DEF MayHold
    <3>4. /\ UNCHANGED <<values, rendered, remote, history>>
          /\ IF n[o] < Len(Files) THEN GoesOn(o, "gather", n[o] + 1, more)
               ELSE GoesOn(o, "truncate", 1, Restored(more))
      BY <2>17 DEF Gather
    <3> HIDE DEF more
    <3> QED
      BY <2>1, <2>2, <3>3, <3>4, FileAt, GoesOnTyped DEF At
  <2>18. CASE Stops(o)
    BY <2>2, <2>18, EndsTyped DEF Stops
  <2> QED
    BY <1>2, <2>4, <2>5, <2>6, <2>7, <2>8, <2>9, <2>10, <2>11, <2>13, <2>14, <2>15,
       <2>16, <2>17, <2>18 DEF Step
<1>3. ASSUME NEW f \in File, NEW names \in SUBSET Name, Elsewhere(f, {f} \X names)
      PROVE  Typed'
  <2>1. {f} \X names \in SUBSET ({f} \X Name)
    OBVIOUS
  <2>2. FilesTyped'
    BY <1>3, <2>1, FilesStayTyped DEF Elsewhere
  <2>3. CommandsTyped'
    BY <1>3, ConstantsAssumption DEF Elsewhere, process, CommandsTyped
  <2> QED
    BY <2>2, <2>3
<1>4. CASE UNCHANGED vars
  BY <1>4 DEF vars, FilesTyped, CommandsTyped
<1> QED
  BY <1>2, <1>3, <1>4 DEF Next

\* Every command, file and history variable keeps its type.
THEOREM TypeCorrect == Spec => []TypeOK
  BY TypedInit, TypedInductive, TypedImplies, PTL DEF Spec
-----------------------------------------------------------------------------
(* Which commands there are beside one                                     *)

\* The kinds of command that may be at place p.
KindsAt(p) ==
  CASE p \in {"truncate", "save"} -> Edit \cup {"generate"}
    [] p \in {"reload", "emit", "open", "send"} -> Edit \cup {"render", "push"}
    [] p \in {"fetch", "cut", "fill"} -> {"fetch"}
    [] p = "gather" -> {"generate"}

\* Which command is where, and that the one nobody disturbs is the only one.
Placed ==
  /\ \A o \in Operator : at[o] # "idle" =>
       cmd[o].kind \in KindsAt(at[o]) /\ (at[o] \in {"open", "send"} => cmd[o].pushes)
  /\ \A o \in Operator : alone = o =>
       at[o] # "idle" /\ \A q \in Operator \ {o} : at[q] = "idle"

\* A command that acts has nobody else alone.
LEMMA AloneOrDisturbed ==
  ASSUME Placed, Typed, NEW o \in Operator, at[o] # "idle"
  PROVE  alone \in {o, Nobody}
  BY DEF Placed, Typed, CommandsTyped

LEMMA EndsPlaced ==
  ASSUME Placed, Typed, NEW o \in Operator, at[o] # "idle", Ends(o)
  PROVE  Placed' /\ alone' = Nobody
<1>1. alone' = Nobody
  BY AloneOrDisturbed DEF Ends
<1>2. at' = [at EXCEPT ![o] = "idle"] /\ cmd' = [cmd EXCEPT ![o] = Idle]
  BY DEF Ends, Set
<1> QED
  BY <1>1, <1>2, ConstantsAssumption DEF Placed, Typed, CommandsTyped

LEMMA GoesOnPlaced ==
  ASSUME Placed, Typed, NEW o \in Operator, at[o] # "idle", NEW p \in At \ {"idle"}, NEW m, NEW c,
         GoesOn(o, p, m, c), UNCHANGED history,
         cmd[o].kind \in KindsAt(p), p \in {"open", "send"} => cmd[o].pushes
  PROVE  Placed' /\ alone' \in {o, Nobody}
<1>1. alone' = alone /\ alone \in {o, Nobody}
  BY AloneOrDisturbed DEF history
<1>2. at' = [at EXCEPT ![o] = p] /\ cmd' = cmd
  BY DEF GoesOn, Set
<1> QED
  BY <1>1, <1>2, ConstantsAssumption DEF Placed, Typed, CommandsTyped

LEMMA BeginPlaced ==
  ASSUME Placed, Typed, NEW o \in Operator, NEW c \in Command, NEW p \in At \ {"idle"},
         Begin(o, c), at' = Set(at, o, p),
         c.kind \in KindsAt(p), p \notin {"open", "send"}
  PROVE  Placed' /\ alone' \in {o, Nobody}
<1>1. /\ at' = [at EXCEPT ![o] = p] /\ cmd' = [cmd EXCEPT ![o] = c]
      /\ alone' \in {o, Nobody}
      /\ alone' = o => \A q \in Operator \ {o} : at[q] = "idle"
  BY ConstantsAssumption DEF Begin, Set
<1> QED
  BY <1>1, ConstantsAssumption DEF Placed, Typed, CommandsTyped
-----------------------------------------------------------------------------
(* What a command has done that nobody disturbs                            *)

\* The first k files, as generate-values gathers them.
Gathered(k) == UNION {AsRead(remote[Files[m]]) : m \in 1..k}

\* rendered/ has f as the source does, unless the source does not have it.
Copied(f) == remote[f] # Missing => rendered[f] = remote[f]

\* What the command of o has done of an edit, a render and a push, if nobody
\* disturbed it: values.yaml is as the command means it to be once it is saved,
\* then the files before the nth are rendered from it, then they are sent.
Publishes(o) ==
  /\ at[o] \in {"truncate", "save"} /\ cmd[o].kind \in Edit =>
       mem[o] = Edited(AsRead(start), cmd[o])
  /\ at[o] \in {"reload", "emit", "open", "send"} =>
       AsRead(values) = Edited(AsRead(start), cmd[o])
  /\ at[o] = "emit" =>
       /\ mem[o] = AsRead(values)
       /\ \A m \in 1..n[o] - 1 : rendered[Files[m]] = Rendering(mem[o])[Files[m]]
  /\ at[o] \in {"open", "send"} =>
       /\ rendered = Rendering(AsRead(values))
       /\ \A m \in 1..n[o] - 1 : remote[Files[m]] = rendered[Files[m]]
  /\ at[o] = "send" => mem[o] = rendered[Files[n[o]]]

\* And of the way back.
Retrieves(o) ==
  /\ at[o] = "fetch" => \A m \in 1..n[o] - 1 : Copied(Files[m])
  /\ at[o] \in {"cut", "fill"} =>
       /\ mem[o] = remote[Files[n[o]]]
       /\ \A m \in 1..n[o] - 1 : Copied(Files[m]) \/ Files[m] = Files[n[o]]
  /\ at[o] = "gather" => mem[o] = Gathered(n[o] - 1)
  /\ at[o] \in {"truncate", "save"} /\ cmd[o].kind = "generate" =>
       mem[o] = Restored(Gathered(Len(Files)))

\* A command that add-backend's or remove-backend's check lets through although
\* values.yaml is missing does not push.
Guarded(o) ==
  start = Missing /\ cmd[o].kind \in {"add", "remove"} /\ ~cmd[o].force => ~cmd[o].pushes

Undisturbed ==
  \A o \in Operator : alone = o => Publishes(o) /\ Retrieves(o) /\ Guarded(o)

\* It is enough to look at the command that acts.
LEMMA UndisturbedBy ==
  ASSUME NEW o \in Operator, alone' \in {o, Nobody},
         alone' = o => Publishes(o)' /\ Retrieves(o)' /\ Guarded(o)'
  PROVE  Undisturbed'
  BY ConstantsAssumption DEF Undisturbed

LEMMA GatheredNext ==
  ASSUME NEW k \in 1..Len(Files)
  PROVE  Gathered(k) = Gathered(k - 1) \cup AsRead(remote[Files[k]])
<1>1. 1..k = (1..k - 1) \cup {k}
  BY FileAt
<1> QED
  BY <1>1 DEF Gathered

LEMMA GatheredAll == Gathered(Len(Files)) = UNION {AsRead(remote[f]) : f \in File}
  BY DEF Gathered, File

LEMMA GatheredNone == Gathered(0) = {}
<1>1. 1..0 = {}
  OBVIOUS
<1> QED
  BY <1>1 DEF Gathered

LEMMA AfterGoesOn ==
  ASSUME Typed, NEW o \in Operator, NEW p, NEW m, NEW c, GoesOn(o, p, m, c), UNCHANGED history
  PROVE  /\ at'[o] = p /\ n'[o] = m /\ mem'[o] = c
         /\ UNCHANGED <<cmd, start>> /\ alone' = alone
  BY DEF GoesOn, Set, history, Typed, CommandsTyped

LEMMA AfterBegin ==
  ASSUME Typed, NEW o \in Operator, NEW c, NEW p, NEW x,
         Begin(o, c), at' = Set(at, o, p), mem' = Set(mem, o, x)
  PROVE  /\ at'[o] = p /\ n'[o] = 1 /\ mem'[o] = x /\ cmd'[o] = c
         /\ start' = values /\ UNCHANGED <<values, rendered, remote>>
  BY DEF Begin, Set, Typed, CommandsTyped

LEMMA UndisturbedInductive ==
  ASSUME Typed, Placed, Undisturbed, [Next]_vars
  PROVE  Placed' /\ Undisturbed'
<1>1. ASSUME NEW o \in Operator, Step(o) PROVE Placed' /\ Undisturbed'
  <2>0. /\ n[o] \in 1..Len(Files) /\ n[o] \in Nat /\ Files[n[o]] \in File
        /\ MayHold(at[o], n[o], mem[o]) /\ AsRead(values) \in SUBSET Part
    BY FileAt, AsReadType DEF Typed, FilesTyped, CommandsTyped
  <2>1. ASSUME Ends(o), at[o] # "idle" PROVE Placed' /\ Undisturbed'
    BY <2>1, EndsPlaced, UndisturbedBy, ConstantsAssumption
  <2>2. ASSUME NEW c \in Command, Load(o, c) PROVE Placed' /\ Undisturbed'
    <3> DEFINE x == Edited(AsRead(values), c)
    <3>1. /\ Begin(o, c) /\ at' = Set(at, o, "truncate") /\ mem' = Set(mem, o, x)
          /\ c.kind \in Edit
          /\ c.kind = "add" => c.force \/ ~c.pushes \/ values # Missing
          /\ c.kind = "remove" => <<Cds, c.name>> \in AsRead(values)
      BY <2>2 DEF Load
    <3>2. Placed' /\ alone' \in {o, Nobody}
      BY <3>1, BeginPlaced DEF KindsAt, At
    <3>3. /\ at'[o] = "truncate" /\ mem'[o] = x /\ cmd'[o] = c /\ start' = values
      BY <3>1, AfterBegin
    <3>4. Guarded(o)'
      BY <3>1, <3>3 DEF Guarded, AsRead
    <3>5. Publishes(o)'
      BY <3>3 DEF Publishes
    <3>6. Retrieves(o)'
      BY <3>1, <3>3 DEF Retrieves, Edit
    <3> QED
      BY <3>2, <3>4, <3>5, <3>6, UndisturbedBy
  <2>3. ASSUME NEW c \in Command, NEW p \in {"reload", "fetch", "gather"},
               Begin(o, c), at' = Set(at, o, p), UNCHANGED mem,
               p = "reload" => c.kind \in {"render", "push"},
               p = "fetch" => c.kind = "fetch", p = "gather" => c.kind = "generate"
        PROVE  Placed' /\ Undisturbed'
    <3>1. Placed' /\ alone' \in {o, Nobody}
      BY <2>3, BeginPlaced DEF KindsAt, At
    <3>2. mem' = Set(mem, o, {})
      BY <2>0, <2>3 DEF Typed, CommandsTyped, MayHold, Set, Begin
    <3>3. /\ at'[o] = p /\ mem'[o] = {} /\ cmd'[o] = c /\ start' = values /\ n'[o] = 1
          /\ UNCHANGED <<values, rendered, remote>>
      BY <2>3, <3>2, AfterBegin
    <3>4. Guarded(o)'
      BY <2>3, <3>3 DEF Guarded
    <3>5. p = "reload" => Edited(AsRead(values), c) = AsRead(values)
      BY <2>3 DEF Edited
    <3>6. Publishes(o)'
      BY <3>3, <3>5 DEF Publishes
    <3>7. Retrieves(o)'
      BY <3>3, GatheredNone DEF Retrieves, Gathered
    <3> QED
      BY <3>1, <3>4, <3>6, <3>7, UndisturbedBy
  \* The command goes on, and if it is alone it is where it should be.
  <2>4. ASSUME at[o] # "idle", NEW p \in At \ {"idle"}, NEW m, NEW c, GoesOn(o, p, m, c),
               UNCHANGED history,
               cmd[o].kind \in KindsAt(p), p \in {"open", "send"} => cmd[o].pushes,
               alone = o => Publishes(o)' /\ Retrieves(o)'
        PROVE  Placed' /\ Undisturbed'
    <3>1. Placed' /\ alone' \in {o, Nobody}
      BY <2>4, GoesOnPlaced
    <3>2. alone' = alone /\ start' = start /\ cmd' = cmd
      BY <2>4, AfterGoesOn
    <3>3. alone = o => Guarded(o)'
      BY <3>2 DEF Undisturbed, Guarded
    <3> QED
      BY <2>4, <3>1, <3>2, <3>3, UndisturbedBy
  <2>5. at[o] # "idle" => cmd[o].kind \in KindsAt(at[o])
    BY DEF Placed
  <2>6. alone = o => Publishes(o) /\ Retrieves(o)
    BY DEF Undisturbed
  <2>7. CASE Truncate(o)
    <3>1. /\ at[o] = "truncate" /\ GoesOn(o, "save", n[o], mem[o])
          /\ UNCHANGED <<rendered, remote>> /\ UNCHANGED history
      BY <2>7 DEF Truncate
    <3>2. cmd[o].kind \in KindsAt("save")
      BY <2>5, <3>1 DEF KindsAt
    <3>3. /\ at'[o] = "save" /\ n'[o] = n[o] /\ mem'[o] = mem[o] /\ cmd' = cmd /\ start' = start
      BY <3>1, AfterGoesOn
    <3>4. alone = o => Publishes(o)' /\ Retrieves(o)'
      BY <2>6, <3>1, <3>3 DEF Publishes, Retrieves, Gathered
    <3> QED
      BY <2>4, <3>1, <3>2, <3>4 DEF At
  <2>8. CASE Save(o)
    <3>1. at[o] = "save" /\ values' = mem[o] /\ mem[o] \in SUBSET Part
      BY <2>0, <2>8 DEF Save, MayHold
    <3>2. CASE cmd[o].kind = "generate"
      BY <2>1, <2>8, <3>1, <3>2 DEF Save
    <3>3. CASE cmd[o].kind # "generate"
      <4>1. GoesOn(o, "reload", 1, {}) /\ UNCHANGED history
        BY <2>8, <3>3 DEF Save
      <4>2. cmd[o].kind \in KindsAt("reload") /\ cmd[o].kind \in Edit
        BY <2>5, <3>1, <3>3 DEF KindsAt
      <4>3. at'[o] = "reload" /\ cmd' = cmd /\ start' = start
        BY <4>1, AfterGoesOn
      <4>4. AsRead(values') = mem[o]
        BY <3>1, AsReadContent
      <4>5. alone = o => Publishes(o)' /\ Retrieves(o)'
        BY <2>6, <3>1, <4>2, <4>3, <4>4 DEF Publishes, Retrieves
      <4> QED
        BY <2>4, <3>1, <4>1, <4>2, <4>5 DEF At
    <3> QED
      BY <3>2, <3>3
  <2>9. CASE Reload(o)
    <3>1. /\ at[o] = "reload" /\ GoesOn(o, "emit", 1, AsRead(values))
          /\ UNCHANGED <<values, rendered, remote>> /\ UNCHANGED history
      BY <2>9 DEF Reload
    <3>2. cmd[o].kind \in KindsAt("emit")
      BY <2>5, <3>1 DEF KindsAt
    <3>3. /\ at'[o] = "emit" /\ n'[o] = 1 /\ mem'[o] = AsRead(values) /\ cmd' = cmd /\ start' = start
      BY <3>1, AfterGoesOn
    <3>4. alone = o => Publishes(o)' /\ Retrieves(o)'
      BY <2>6, <3>1, <3>3 DEF Publishes, Retrieves
    <3> QED
      BY <2>4, <3>1, <3>2, <3>4 DEF At
  <2>10. CASE Emit(o)
    <3>1. /\ at[o] = "emit" /\ UNCHANGED <<values, remote>>
          /\ rendered' = [rendered EXCEPT ![Files[n[o]]] = Rendering(mem[o])[Files[n[o]]]]
          /\ rendered \in [File -> FileContent]
      BY <2>10 DEF Emit, Set, Typed, FilesTyped
    <3>2. cmd[o].kind \in KindsAt("emit") /\ cmd[o].kind \in KindsAt("open")
      BY <2>5, <3>1 DEF KindsAt
    <3>3. ASSUME alone = o, NEW m \in 1..Len(Files), m <= n[o]
          PROVE  rendered'[Files[m]] = Rendering(mem[o])[Files[m]]
      BY <2>0, <2>6, <3>1, <3>3, FileAt DEF Publishes
    <3>4. CASE n[o] < Len(Files)
      <4>1. GoesOn(o, "emit", n[o] + 1, mem[o]) /\ UNCHANGED history
        BY <2>10, <3>4 DEF Emit
      <4>2. /\ at'[o] = "emit" /\ n'[o] = n[o] + 1 /\ mem'[o] = mem[o] /\ cmd' = cmd
            /\ start' = start
        BY <4>1, AfterGoesOn
      <4>3. alone = o => \A m \in 1..n'[o] - 1 : rendered'[Files[m]] = Rendering(mem'[o])[Files[m]]
        BY <2>0, <3>3, <4>2, FileAt
      <4>4. alone = o => Publishes(o)' /\ Retrieves(o)'
        BY <2>6, <3>1, <4>2, <4>3 DEF Publishes, Retrieves
      <4> QED
        BY <2>4, <3>1, <3>2, <4>1, <4>4 DEF At
    <3>5. CASE ~(n[o] < Len(Files)) /\ cmd[o].pushes
      <4>1. GoesOn(o, "open", 1, {}) /\ UNCHANGED history
        BY <2>10, <3>5 DEF Emit
      <4>2. at'[o] = "open" /\ n'[o] = 1 /\ cmd' = cmd /\ start' = start
        BY <4>1, AfterGoesOn
      <4>3. alone = o => rendered' = Rendering(AsRead(values))
        <5>1. SUFFICES ASSUME alone = o PROVE rendered' = Rendering(mem[o])
          BY <2>6, <3>1 DEF Publishes
        <5>2. \A f \in File : rendered'[f] = Rendering(mem[o])[f]
          BY <2>0, <3>3, <3>5, <5>1, FileAt DEF File
        <5> QED
          BY <3>1, <5>2 DEF Rendering
      <4>4. alone = o => Publishes(o)' /\ Retrieves(o)'
        BY <2>6, <3>1, <4>2, <4>3 DEF Publishes, Retrieves
      <4> QED
        BY <2>4, <3>1, <3>2, <3>5, <4>1, <4>4 DEF At
    <3>6. CASE ~(n[o] < Len(Files)) /\ ~cmd[o].pushes
      BY <2>1, <2>10, <3>1, <3>6 DEF Emit
    <3> QED
      BY <3>4, <3>5, <3>6
  <2>11. CASE OpenRendered(o)
    <3>1. /\ at[o] = "open" /\ GoesOn(o, "send", n[o], rendered[Files[n[o]]])
          /\ UNCHANGED <<values, rendered, remote>> /\ UNCHANGED history
      BY <2>11 DEF OpenRendered
    <3>2. cmd[o].kind \in KindsAt("send") /\ cmd[o].pushes
      BY <2>5, <3>1 DEF KindsAt, Placed
    <3>3. /\ at'[o] = "send" /\ n'[o] = n[o] /\ mem'[o] = rendered[Files[n[o]]]
          /\ cmd' = cmd /\ start' = start
      BY <3>1, AfterGoesOn
    <3>4. alone = o => Publishes(o)' /\ Retrieves(o)'
      BY <2>6, <3>1, <3>3 DEF Publishes, Retrieves
    <3> QED
      BY <2>4, <3>1, <3>2, <3>4 DEF At
  <2>12. CASE Send(o)
    <3>1. /\ at[o] = "send" /\ UNCHANGED <<values, rendered>>
          /\ remote' = [remote EXCEPT ![Files[n[o]]] = mem[o]] /\ remote \in [File -> FileContent]
      BY <2>12 DEF Send, Set, Typed, FilesTyped
    <3>2. CASE n[o] < Len(Files)
      <4>1. GoesOn(o, "open", n[o] + 1, {}) /\ UNCHANGED history
        BY <2>12, <3>2 DEF Send
      <4>2. at'[o] = "open" /\ n'[o] = n[o] + 1 /\ cmd' = cmd /\ start' = start
        BY <4>1, AfterGoesOn
      <4>3. cmd[o].kind \in KindsAt("open") /\ cmd[o].pushes
        BY <2>5, <3>1 DEF KindsAt, Placed
      <4>4. alone = o => \A m \in 1..n'[o] - 1 : remote'[Files[m]] = rendered'[Files[m]]
        BY <2>0, <2>6, <3>1, <4>2, FileAt DEF Publishes
      <4>5. alone = o => Publishes(o)' /\ Retrieves(o)'
        BY <2>6, <3>1, <4>2, <4>4 DEF Publishes, Retrieves
      <4> QED
        BY <2>4, <3>1, <4>1, <4>3, <4>5 DEF At
    <3>3. CASE ~(n[o] < Len(Files))
      BY <2>1, <2>12, <3>1, <3>3 DEF Send
    <3> QED
      BY <3>2, <3>3
  \* fetch goes on to the next file, or ends.
  <2>13. ASSUME at[o] \in {"fetch", "fill"}, NextFetch(o),
                alone = o => \A m \in 1..n[o] : Copied(Files[m])'
         PROVE  Placed' /\ Undisturbed'
    <3>1. CASE n[o] < Len(Files)
      <4>1. GoesOn(o, "fetch", n[o] + 1, {}) /\ UNCHANGED history
        BY <2>13, <3>1 DEF NextFetch
      <4>2. at'[o] = "fetch" /\ n'[o] = n[o] + 1
        BY <4>1, AfterGoesOn
      <4>3. cmd[o].kind \in KindsAt("fetch")
        BY <2>5, <2>13 DEF KindsAt
      <4>4. alone = o => Publishes(o)' /\ Retrieves(o)'
        BY <2>0, <2>13, <4>2 DEF Publishes, Retrieves
      <4> QED
        BY <2>4, <2>13, <4>1, <4>3, <4>4 DEF At
    <3>2. CASE ~(n[o] < Len(Files))
      BY <2>1, <2>13, <3>2 DEF NextFetch
    <3> QED
      BY <3>1, <3>2
  <2>14. CASE FetchNothing(o)
    <3>1. /\ at[o] = "fetch" /\ NextFetch(o) /\ remote[Files[n[o]]] = Missing
          /\ UNCHANGED <<values, rendered, remote>>
      BY <2>14 DEF FetchNothing
    <3>2. alone = o => \A m \in 1..n[o] : Copied(Files[m])'
      BY <2>0, <2>6, <3>1 DEF Retrieves, Copied
    <3> QED
      BY <2>13, <3>1, <3>2
  <2>15. CASE FetchFile(o)
    <3>1. /\ at[o] = "fetch" /\ GoesOn(o, "cut", n[o], remote[Files[n[o]]])
          /\ UNCHANGED <<values, rendered, remote>> /\ UNCHANGED history
      BY <2>15 DEF FetchFile
    <3>2. cmd[o].kind \in KindsAt("cut")
      BY <2>5, <3>1 DEF KindsAt
    <3>3. at'[o] = "cut" /\ n'[o] = n[o] /\ mem'[o] = remote[Files[n[o]]]
      BY <3>1, AfterGoesOn
    <3>4. alone = o => Publishes(o)' /\ Retrieves(o)'
      BY <2>6, <3>1, <3>3 DEF Publishes, Retrieves, Copied
    <3> QED
      BY <2>4, <3>1, <3>2, <3>4 DEF At
  <2>16. CASE Cut(o)
    <3>1. /\ at[o] = "cut" /\ GoesOn(o, "fill", n[o], mem[o])
          /\ UNCHANGED <<values, remote>> /\ UNCHANGED history
          /\ rendered' = [rendered EXCEPT ![Files[n[o]]] = Empty]
          /\ rendered \in [File -> FileContent]
      BY <2>16 DEF Cut, Set, Typed, FilesTyped
    <3>2. cmd[o].kind \in KindsAt("fill")
      BY <2>5, <3>1 DEF KindsAt
    <3>3. at'[o] = "fill" /\ n'[o] = n[o] /\ mem'[o] = mem[o]
      BY <3>1, AfterGoesOn
    <3>4. \A m \in 1..n[o] - 1 : Files[m] # Files[n[o]] => rendered'[Files[m]] = rendered[Files[m]]
      BY <2>0, <3>1, FileAt
    <3>5. alone = o => Publishes(o)' /\ Retrieves(o)'
      BY <2>6, <3>1, <3>3, <3>4 DEF Publishes, Retrieves, Copied
    <3> QED
      BY <2>4, <3>1, <3>2, <3>5 DEF At
  <2>17. CASE Fill(o)
    <3>1. /\ at[o] = "fill" /\ NextFetch(o) /\ UNCHANGED <<values, remote>>
          /\ rendered' = [rendered EXCEPT ![Files[n[o]]] = mem[o]]
          /\ rendered \in [File -> FileContent]
      BY <2>17 DEF Fill, Set, Typed, FilesTyped
    <3>2. alone = o => \A m \in 1..n[o] : Copied(Files[m])'
      BY <2>0, <2>6, <3>1, FileAt DEF Retrieves, Copied
    <3> QED
      BY <2>13, <3>1, <3>2
  <2>18. CASE Gather(o)
    <3> DEFINE more == mem[o] \cup AsRead(remote[Files[n[o]]])
    <3>1. /\ at[o] = "gather" /\ UNCHANGED <<values, rendered, remote>> /\ UNCHANGED history
          /\ IF n[o] < Len(Files) THEN GoesOn(o, "gather", n[o] + 1, more)
               ELSE GoesOn(o, "truncate", 1, Restored(more))
      BY <2>18 DEF Gather, history
    <3>2. alone = o => more = Gathered(n[o])
      BY <2>0, <2>6, <3>1, GatheredNext DEF Retrieves
    <3>3. \A k : Gathered(k)' = Gathered(k)
      BY <3>1 DEF Gathered
    <3>4. cmd[o].kind = "generate" /\ cmd[o].kind \in KindsAt("gather")
          /\ cmd[o].kind \in KindsAt("truncate")
      BY <2>5, <3>1 DEF KindsAt
    <3> HIDE DEF more
    <3>5. CASE n[o] < Len(Files)
      <4>1. GoesOn(o, "gather", n[o] + 1, more)
        BY <3>1, <3>5
      <4>2. at'[o] = "gather" /\ n'[o] = n[o] + 1 /\ mem'[o] = more
        BY <3>1, <4>1, AfterGoesOn
      <4>3. n'[o] - 1 = n[o]
        BY <2>0, <4>2
      <4>4. alone = o => Publishes(o)' /\ Retrieves(o)'
        BY <3>2, <3>3, <4>2, <4>3 DEF Publishes, Retrieves
      <4> QED
        BY <2>4, <3>1, <3>4, <4>1, <4>4 DEF At
    <3>6. CASE ~(n[o] < Len(Files))
      <4>1. GoesOn(o, "truncate", 1, Restored(more)) /\ n[o] = Len(Files)
        BY <2>0, <3>1, <3>6, FileAt
      <4>2. at'[o] = "truncate" /\ mem'[o] = Restored(more) /\ cmd' = cmd
        BY <3>1, <4>1, AfterGoesOn
      <4>3. alone = o => Publishes(o)' /\ Retrieves(o)'
        BY <3>2, <3>3, <3>4, <4>1, <4>2 DEF Publishes, Retrieves, Edit
      <4> QED
        BY <2>4, <3>1, <3>4, <4>1, <4>3 DEF At
    <3> QED
      BY <3>5, <3>6
  <2>19. CASE Stops(o)
    BY <2>1, <2>19 DEF Stops
  <2>20. ASSUME NEW c \in Command,
                StartRegenerate(o, c) \/ StartFetch(o, c) \/ StartGenerate(o, c)
         PROVE  Placed' /\ Undisturbed'
    BY <2>3, <2>20 DEF StartRegenerate, StartFetch, StartGenerate
  <2> QED
    BY <1>1, <2>2, <2>7, <2>8, <2>9, <2>10, <2>11, <2>12, <2>14, <2>15, <2>16, <2>17,
       <2>18, <2>19, <2>20 DEF Step
<1>2. ASSUME NEW f \in File, NEW names \in SUBSET Name, Elsewhere(f, {f} \X names)
      PROVE  Placed' /\ Undisturbed'
  BY <1>2, ConstantsAssumption DEF Elsewhere, process, Placed, Undisturbed
<1>3. CASE UNCHANGED vars
  BY <1>3 DEF vars, Placed, Undisturbed, Publishes, Retrieves, Guarded, Gathered, Copied
<1> QED
  BY <1>1, <1>2, <1>3 DEF Next

LEMMA AlwaysUndisturbed == Spec => [](Typed /\ Placed /\ Undisturbed)
<1>1. Init => Placed /\ Undisturbed
  BY ConstantsAssumption DEF Init, Placed, Undisturbed
<1> QED
  BY <1>1, TypedInit, TypedInductive, UndisturbedInductive, PTL DEF Spec
-----------------------------------------------------------------------------
(* The properties                                                          *)

\* An add-backend or remove-backend without --force that is alone and found no
\* values.yaml uploads nothing: add-backend may write a first values.yaml, but only
\* when no mode is set, and remove-backend finds no such name.
THEOREM MissingNeverUploaded == Spec => []MissingIsSafe
<1>1. Placed /\ Undisturbed => MissingIsSafe
  BY DEF Placed, Undisturbed, Guarded, MissingIsSafe
<1> QED
  BY <1>1, AlwaysUndisturbed, PTL

\* A command that has everything to itself leaves values.yaml edited and
\* rendered/ in sync with it, whatever was there when it began.
THEOREM RenderedInSync == Spec => InSync
<1>1. ASSUME Typed, Undisturbed, NEW o \in Operator, alone = o, Emit(o), n[o] = Len(Files)
      PROVE  /\ AsRead(values') = Edited(AsRead(start), cmd[o])
             /\ rendered' = Rendering(AsRead(values'))
  <2>1. /\ AsRead(values) = Edited(AsRead(start), cmd[o]) /\ mem[o] = AsRead(values)
        /\ \A m \in 1..n[o] - 1 : rendered[Files[m]] = Rendering(mem[o])[Files[m]]
    BY <1>1 DEF Emit, Undisturbed, Publishes
  <2>2. /\ values' = values /\ rendered \in [File -> FileContent]
        /\ rendered' = [rendered EXCEPT ![Files[n[o]]] = Rendering(mem[o])[Files[n[o]]]]
    BY <1>1 DEF Emit, Set, Typed, FilesTyped
  <2>3. \A m \in 1..Len(Files) : rendered'[Files[m]] = Rendering(mem[o])[Files[m]]
    BY <1>1, <2>1, <2>2, FileAt
  <2>4. rendered' = Rendering(mem[o])
    BY <2>2, <2>3 DEF Rendering, File
  <2> QED
    BY <2>1, <2>2, <2>4
<1>2. Typed /\ Undisturbed /\ [Next]_vars =>
        [\A o \in Operator : alone = o /\ Emit(o) /\ n[o] = Len(Files) =>
           /\ AsRead(values') = Edited(AsRead(start), cmd[o])
           /\ rendered' = Rendering(AsRead(values'))]_vars
  BY <1>1
<1> QED
  BY <1>2, AlwaysUndisturbed, PTL DEF Spec, InSync

\* If it pushes and gets to its end, the source has every file as well.
THEOREM PushDelivers == Spec => Delivers
<1>1. ASSUME Typed, Undisturbed, NEW o \in Operator, alone = o, Send(o), at'[o] = "idle"
      PROVE  /\ AsRead(values') = Edited(AsRead(start), cmd[o])
             /\ remote' = Rendering(AsRead(values'))
  <2>1. /\ AsRead(values) = Edited(AsRead(start), cmd[o]) /\ rendered = Rendering(AsRead(values))
        /\ mem[o] = rendered[Files[n[o]]]
        /\ \A m \in 1..n[o] - 1 : remote[Files[m]] = rendered[Files[m]]
    BY <1>1 DEF Send, Undisturbed, Publishes
  <2>2. /\ values' = values /\ remote \in [File -> FileContent]
        /\ remote' = [remote EXCEPT ![Files[n[o]]] = mem[o]]
    BY <1>1 DEF Send, Set, Typed, FilesTyped
  <2>3. n[o] = Len(Files)
    <3>1. n[o] \in 1..Len(Files)
      BY <1>1 DEF Typed, CommandsTyped
    <3>2. ~(n[o] < Len(Files))
      <4> SUFFICES ASSUME n[o] < Len(Files) PROVE FALSE
        OBVIOUS
      <4>1. GoesOn(o, "open", n[o] + 1, {}) /\ UNCHANGED history
        BY <1>1 DEF Send
      <4> QED
        BY <1>1, <4>1, AfterGoesOn
    <3> QED
      BY <3>1, <3>2, FileAt
  <2>4. \A m \in 1..Len(Files) : remote'[Files[m]] = rendered[Files[m]]
    BY <2>1, <2>2, <2>3, FileAt
  <2>5. remote' = Rendering(AsRead(values))
    BY <2>1, <2>2, <2>4 DEF Rendering, File
  <2> QED
    BY <2>1, <2>2, <2>5
<1>2. Typed /\ Undisturbed /\ [Next]_vars =>
        [\A o \in Operator : alone = o /\ Send(o) /\ at'[o] = "idle" =>
           /\ AsRead(values') = Edited(AsRead(start), cmd[o])
           /\ remote' = Rendering(AsRead(values'))]_vars
  BY <1>1
<1> QED
  BY <1>2, AlwaysUndisturbed, PTL DEF Spec, Delivers

\* A fetch by itself copies every file the source has.
THEOREM FetchAlwaysCopies == Spec => FetchCopies
<1>1. ASSUME Typed, Undisturbed, NEW o \in Operator, alone = o, Fill(o) \/ FetchNothing(o),
             at'[o] = "idle", NEW f \in File, remote[f] # Missing
      PROVE  rendered'[f] = remote[f]
  <2>1. n[o] \in 1..Len(Files) /\ Publishes(o) /\ Retrieves(o)
    BY <1>1 DEF Typed, CommandsTyped, Undisturbed
  <2>2. n[o] = Len(Files)
    <3>1. ~(n[o] < Len(Files))
      <4> SUFFICES ASSUME n[o] < Len(Files) PROVE FALSE
        OBVIOUS
      <4>1. GoesOn(o, "fetch", n[o] + 1, {}) /\ UNCHANGED history
        BY <1>1 DEF Fill, FetchNothing, NextFetch
      <4> QED
        BY <1>1, <4>1, AfterGoesOn
    <3> QED
      BY <2>1, <3>1, FileAt
  <2>3. PICK m \in 1..Len(Files) : f = Files[m]
    BY DEF File
  <2>4. CASE Fill(o)
    <3>1. /\ rendered' = [rendered EXCEPT ![Files[n[o]]] = mem[o]]
          /\ rendered \in [File -> FileContent] /\ mem[o] = remote[Files[n[o]]]
          /\ m = n[o] \/ Copied(f) \/ f = Files[n[o]]
      BY <1>1, <2>1, <2>2, <2>3, <2>4, FileAt DEF Fill, Set, Typed, FilesTyped, Retrieves
    <3> QED
      BY <1>1, <2>3, <3>1 DEF Copied
  <2>5. CASE FetchNothing(o)
    BY <1>1, <2>1, <2>2, <2>3, <2>5, FileAt DEF FetchNothing, Retrieves, Copied
  <2> QED
    BY <1>1, <2>4, <2>5
<1>2. Typed /\ Undisturbed /\ [Next]_vars =>
        [\A o \in Operator : alone = o /\ (Fill(o) \/ FetchNothing(o)) /\ at'[o] = "idle" =>
           \A f \in File : remote[f] # Missing => rendered'[f] = remote[f]]_vars
  BY <1>1
<1> QED
  BY <1>2, AlwaysUndisturbed, PTL DEF Spec, FetchCopies

\* generate-values by itself leaves in values.yaml what the source shows, and no more.
THEOREM GenerateAlwaysCopies == Spec => GenerateCopies
<1>1. ASSUME Undisturbed, NEW o \in Operator, alone = o, Save(o), cmd[o].kind = "generate"
      PROVE  values' = Restored(UNION {AsRead(remote[f]) : f \in File})
  BY <1>1, GatheredAll DEF Save, Undisturbed, Retrieves
<1>2. Undisturbed /\ [Next]_vars =>
        [\A o \in Operator : alone = o /\ Save(o) /\ cmd[o].kind = "generate" =>
           values' = Restored(UNION {AsRead(remote[f]) : f \in File})]_vars
  BY <1>1
<1> QED
  BY <1>2, AlwaysUndisturbed, PTL DEF Spec, GenerateCopies
=============================================================================
