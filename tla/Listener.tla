------------------------------ MODULE Listener ------------------------------
(***************************************************************************)
(* run_tcp (main.rs): how the debugger comes by the one connection it      *)
(* serves.  Editors probe the port before they connect, so a connection    *)
(* that ends or stays silent for two seconds is dropped and the next one   *)
(* accepted; the first one with data to read is the session, for good.     *)
(*                                                                         *)
(* The operating system's part is external: the backlog, what clients do   *)
(* with their ends, and the clock, which may run out at any moment at      *)
(* which there is nothing to read.  What a client sends is told apart by   *)
(* what DapServer::run does with it; the handlers are those of DapSession. *)
(***************************************************************************)
EXTENDS Integers, Sequences

CONSTANTS
    Clients,          \* connections that may be made
    NoClient,
    MaxUnread         \* bound on what a client sends ahead

ASSUME ClientAssumption == NoClient \notin Clients

VARIABLES
    pc,               \* "accepting", "peeking", "serving" or "ended"
    stream,           \* the connection at hand, or NoClient
    read_timeout,     \* it has a read timeout
    backlog,          \* connections not accepted yet, oldest first
    connected,        \* connections made so far
    spoken,           \* those with bytes sent
    unread,           \* per connection, what the server has not read of it
    closed            \* those closed by the client

clients == <<connected, spoken, closed>>
vars    == <<pc, stream, read_timeout, backlog, unread, clients>>

(* A request with a handler, one of the protocol without, and bytes that   *)
(* are no request.                                                         *)
Messages == {"request", "unsupported", "unreadable"}

TypeOK ==
    /\ pc \in {"accepting", "peeking", "serving", "ended"}
    /\ stream \in Clients \cup {NoClient}
    /\ pc = "accepting" => stream = NoClient
    /\ pc \in {"peeking", "serving"} => stream \in Clients
    /\ read_timeout \in BOOLEAN
    /\ backlog \in Seq(Clients)
    /\ connected \in SUBSET Clients
    /\ spoken \in SUBSET Clients
    /\ unread \in [Clients -> Seq(Messages)]
    /\ closed \in SUBSET Clients

Init ==
    /\ pc = "accepting"
    /\ stream = NoClient
    /\ read_timeout = FALSE
    /\ backlog = <<>>
    /\ connected = {}
    /\ spoken = {}
    /\ unread = [c \in Clients |-> <<>>]
    /\ closed = {}

-----------------------------------------------------------------------------
(* The clients.  After an orderly end what was sent can still be read; an  *)
(* abrupt one may lose it.                                                 *)
Connect(c) ==
    /\ pc # "ended"
    /\ c \notin connected
    /\ connected' = connected \cup {c}
    /\ backlog' = Append(backlog, c)
    /\ UNCHANGED <<pc, stream, read_timeout, unread, spoken, closed>>

Send(c, m) ==
    /\ c \in connected \ closed
    /\ Len(unread[c]) < MaxUnread
    /\ spoken' = spoken \cup {c}
    /\ unread' = [unread EXCEPT ![c] = Append(@, m)]
    /\ UNCHANGED <<pc, stream, read_timeout, backlog, connected, closed>>

Close(c) ==
    /\ c \in connected \ closed
    /\ closed' = closed \cup {c}
    /\ \/ UNCHANGED unread
       \/ unread' = [unread EXCEPT ![c] = <<>>]
    /\ UNCHANGED <<pc, stream, read_timeout, backlog, connected, spoken>>

-----------------------------------------------------------------------------
(* run_tcp.                                                                *)

(* Slip: no timeout is set.                                                *)
AcceptUntimed ==
    /\ pc = "accepting"
    /\ backlog # <<>>
    /\ stream' = Head(backlog)
    /\ backlog' = Tail(backlog)
    /\ read_timeout' = FALSE
    /\ pc' = "peeking"
    /\ UNCHANGED <<unread, clients>>

Accept ==
    /\ pc = "accepting"
    /\ backlog # <<>>
    /\ stream' = Head(backlog)
    /\ backlog' = Tail(backlog)
    /\ read_timeout' = TRUE
    /\ pc' = "peeking"
    /\ UNCHANGED <<unread, clients>>

(* Slip: the session keeps the timeout of the peek.                        *)
PeekDataTimed ==
    /\ pc = "peeking"
    /\ unread[stream] # <<>>
    /\ pc' = "serving"
    /\ UNCHANGED <<stream, read_timeout, backlog, unread, clients>>

(* peek() returns a byte, and leaves it to be read.                        *)
PeekData ==
    /\ pc = "peeking"
    /\ unread[stream] # <<>>
    /\ read_timeout' = FALSE
    /\ pc' = "serving"
    /\ UNCHANGED <<stream, backlog, unread, clients>>

(* Slip: any answer of peek() will do.                                     *)
PeekNothingServed ==
    /\ pc = "peeking"
    /\ unread[stream] = <<>>
    /\ stream \in closed \/ read_timeout
    /\ pc' = "serving"
    /\ read_timeout' = FALSE
    /\ UNCHANGED <<stream, backlog, unread, clients>>

(* Slip: the connection is not dropped.                                    *)
PeekNothingKept ==
    /\ pc = "peeking"
    /\ unread[stream] = <<>>
    /\ stream \in closed \/ read_timeout
    /\ pc' = "accepting"
    /\ UNCHANGED <<stream, read_timeout, backlog, unread, clients>>

(* It returns 0, or an error: the connection has ended or timed out, and   *)
(* the loop drops it.                                                      *)
PeekNothing ==
    /\ pc = "peeking"
    /\ unread[stream] = <<>>
    /\ stream \in closed \/ read_timeout
    /\ pc' = "accepting"
    /\ stream' = NoClient
    /\ read_timeout' = FALSE
    /\ UNCHANGED <<backlog, unread, clients>>

(* accept() or a call on the new stream fails, and run_tcp with it.        *)
Fail ==
    /\ pc \in {"accepting", "peeking"}
    /\ pc' = "ended"
    /\ UNCHANGED <<stream, read_timeout, backlog, unread, clients>>

(* DapServer::run: a request is read and handled.  An error of a handler   *)
(* goes to the console and ends nothing.                                   *)
Read ==
    /\ pc = "serving"
    /\ unread[stream] # <<>>
    /\ Head(unread[stream]) # "unreadable"
    /\ unread' = [unread EXCEPT ![stream] = Tail(@)]
    /\ UNCHANGED <<pc, stream, read_timeout, backlog, clients>>

(* poll_request()? ends run when what it reads is no request, and so does  *)
(* respond()? when the refusal of an unsupported one cannot be written.    *)
ReadFails ==
    /\ pc = "serving"
    /\ unread[stream] # <<>>
    /\ Head(unread[stream]) \in {"unreadable", "unsupported"}
    /\ unread' = [unread EXCEPT ![stream] = Tail(@)]
    /\ pc' = "ended"
    /\ UNCHANGED <<stream, read_timeout, backlog, clients>>

(* The end of the input ends run, and so would a read that times out.      *)
ReadEnds ==
    /\ pc = "serving"
    /\ unread[stream] = <<>>
    /\ stream \in closed \/ read_timeout
    /\ pc' = "ended"
    /\ UNCHANGED <<stream, read_timeout, backlog, unread, clients>>

ServerMoves ==
    \/ Accept
    \/ PeekData
    \/ PeekNothing
    \/ Read
    \/ ReadFails
    \/ ReadEnds

Next ==
    \/ \E c \in Clients :
          \/ Connect(c)
          \/ \E m \in Messages : Send(c, m)
          \/ Close(c)
    \/ ServerMoves
    \/ Fail

SafetySpec == Init /\ [][Next]_vars

(* accept, peek and read return once they can, the timeout included.       *)
Spec == SafetySpec /\ WF_vars(ServerMoves)

-----------------------------------------------------------------------------
(* Nobody is taken for the client who has not sent anything: a probe, or a *)
(* connection that ended, is never served (main.rs:138-147).               *)
SessionHasSpoken == pc = "serving" => stream \in spoken

(* Only its client ends the session: by closing it, and then not before    *)
(* the server has read all that came, or by something that is no request   *)
(* with a handler.  It is not ended by silence, however long the client    *)
(* thinks between two requests - the two seconds are for the peek alone -  *)
(* nor by a request that fails (main.rs:136, 140, server.rs:78-106).       *)
SessionEndsByItsClient ==
    [][pc = "serving" /\ pc' # "serving" =>
          /\ pc' = "ended"
          /\ \/ stream \in closed /\ unread[stream] = <<>>
             \/ /\ unread[stream] # <<>>
                /\ Head(unread[stream]) # "request"]_vars

(* No number of probes, silent or ended, keeps a client out that has sent  *)
(* its first request and whose connection holds: it is served, unless      *)
(* another one is (main.rs:133-149).                                       *)
Waiting(c) == unread[c] # <<>> /\ \E i \in DOMAIN backlog : backlog[i] = c

ClientIsServed ==
    \A c \in Clients :
        Waiting(c) ~> \/ pc = "ended"
                      \/ pc = "serving" /\ stream \in spoken
                      \/ c \in closed /\ unread[c] = <<>>
=============================================================================
