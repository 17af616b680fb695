----------------------------- MODULE AtomicCell -----------------------------
(***************************************************************************)
(* What a file that is replaced atomically promises: whoever looks sees    *)
(* one whole value, that value changes only when a client's write commits, *)
(* all at once, to what that client was asked to write, and a write that   *)
(* fails or dies leaves it alone.  AtomicWrite (the temporary file and     *)
(* rename of cds.yaml and lds.yaml) and RuntimeLayer (the data directory   *)
(* and symlink swap of the runtime keys) both implement it.                *)
(***************************************************************************)
CONSTANTS Value, Initial, Client, NoRequest

VARIABLES
  cell,    \* what a reader that came now would see
  pending  \* what each client is in the middle of writing

vars == <<cell, pending>>

Init ==
  /\ cell = Initial
  /\ pending = [c \in Client |-> NoRequest]

Begin(c, v) ==
  /\ pending[c] = NoRequest
  /\ pending' = [pending EXCEPT ![c] = v]
  /\ UNCHANGED cell

Commit(c) ==
  /\ pending[c] # NoRequest
  /\ cell' = pending[c]
  /\ pending' = [pending EXCEPT ![c] = NoRequest]

Abort(c) ==
  /\ pending[c] # NoRequest
  /\ pending' = [pending EXCEPT ![c] = NoRequest]
  /\ UNCHANGED cell

Next ==
  \E c \in Client : Commit(c) \/ Abort(c) \/ \E v \in Value : Begin(c, v)

Spec == Init /\ [][Next]_vars
=============================================================================
