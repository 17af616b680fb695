---------------------------- MODULE ConfigServer ----------------------------
(***************************************************************************)
(* The two kinds of config source, config_server and an S3 bucket with a   *)
(* prefix, and the requests under way to them.  A request outlives its     *)
(* client: what was sent before a timeout or a signal may still arrive.    *)
(* While there is trouble, requests and answers are lost and the source's  *)
(* storage fails.                                                          *)
(***************************************************************************)
EXTENDS Naturals

CONSTANTS
  Server,     \* URLs of config_servers
  Bucket,     \* buckets, each with a prefix: the pairs of the two
  Client,     \* those who send requests and wait for the answer
  Nobody,     \* a client that is gone
  ApiToken,   \* the servers' API_TOKEN
  Name,       \* the names of the files
  NotPushed, Silence

Place == Server \cup Bucket

VARIABLES
  source,   \* the content each place has of each file
  wire,     \* requests nobody has handled yet
  inbox,    \* the answer that has reached each client
  trouble

sourceVars == <<source, wire, inbox, trouble>>

SourceInit ==
  /\ source = [s \in Place |-> [f \in Name |-> NotPushed]]
  /\ inbox = [c \in Client |-> Silence]
  /\ trouble = FALSE

\* The client's side of http.Client.Do and of the S3 client's calls: content is
\* the file's for a POST or PutObject, NotPushed for a GET or GetObject.
Request(client, place, token, file, content) ==
  [from |-> client, place |-> place, token |-> token, file |-> file, content |-> content]

Posts(r) == r.content # NotPushed

\* The token gates everything under /config/; S3 has its own credentials.
CheckAuth(r) == r.place \in Server => r.token = ApiToken

\* The request is done with, and its client gets an answer, or should have.
Reply(r, status, body) ==
  /\ wire' = wire \ {r}
  /\ \/ inbox' = [c \in Client |->
                    IF c = r.from THEN [status |-> status, body |-> body] ELSE inbox[c]]
     \/ trouble /\ UNCHANGED inbox
  /\ UNCHANGED trouble
-----------------------------------------------------------------------------
(* handleConfig                                                            *)

\* A plausible bug: the file is looked for before the token is.
UnauthorizedLate(r) ==
  /\ ~CheckAuth(r)
  /\ Reply(r, IF ~Posts(r) /\ source[r.place][r.file] = NotPushed THEN 404 ELSE 401, NotPushed)
  /\ UNCHANGED source

Unauthorized(r) == ~CheckAuth(r) /\ Reply(r, 401, NotPushed) /\ UNCHANGED source

Get(r) ==
  LET held == source[r.place][r.file] IN
  /\ CheckAuth(r) /\ ~Posts(r)
  /\ Reply(r, IF held = NotPushed THEN 404 ELSE 200, held)
  /\ UNCHANGED source

\* os.ReadFile fails: for config_server that is a 404 as well.
GetFails(r) ==
  /\ CheckAuth(r) /\ ~Posts(r) /\ trouble
  /\ Reply(r, IF r.place \in Server THEN 404 ELSE 500, NotPushed)
  /\ UNCHANGED source

\* atomicWrite has succeeded.
Post(r) ==
  /\ CheckAuth(r) /\ Posts(r)
  /\ source' = [source EXCEPT ![r.place][r.file] = r.content]
  /\ Reply(r, 200, NotPushed)

\* The form is cut short, or atomicWrite fails.
PostFails(r) ==
  /\ CheckAuth(r) /\ Posts(r) /\ trouble
  /\ \E status \in {400, 500} : Reply(r, status, NotPushed)
  /\ UNCHANGED source

Serve(r) == Unauthorized(r) \/ Get(r) \/ GetFails(r) \/ PostFails(r)
-----------------------------------------------------------------------------
(* The network                                                             *)

Lose(r) ==
  /\ trouble \/ r.from = Nobody
  /\ wire' = wire \ {r}
  /\ UNCHANGED <<source, inbox, trouble>>

Trouble == trouble' = ~trouble /\ UNCHANGED <<source, wire, inbox>>
=============================================================================
