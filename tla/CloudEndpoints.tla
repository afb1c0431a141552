---------------------------- MODULE CloudEndpoints ----------------------------
(***************************************************************************)
(* The outbound connection of a cloud endpoint (internal/mcp/cloud,        *)
(* service/connection.go).  The manager keeps one client per endpoint in   *)
(* a map; a restart replaces it, and the goroutine of every client ends    *)
(* with the deletion of the entry of the endpoint, whoever that belongs to *)
(* by then.  Besides, a client that is stopped while it dials goes on.     *)
(*                                                                         *)
(* One endpoint: endpoints share nothing.  m.mu and c.mu make what they    *)
(* guard one step.                                                         *)
(***************************************************************************)
EXTENDS Naturals, FiniteSets

CONSTANTS Requests,  \* requests of the owner
          MaxClients \* bound on the clients made

VARIABLES
  client,    \* the clients ever made
  clientNo,  \* clients made
  entry,     \* m.clients of the endpoint: a client, or 0
  status,    \* connection_status of the row, or "deleted"
  request,   \* requests
  closed,    \* a Disconnect or Delete returned, and nobody has connected since (history)
  early      \* clients that were stopped before they had connected (history)

cloudVars == <<client, clientNo, entry, status, request, closed, early>>

Clients == 1 .. MaxClients
NoClient == 0
NewClient == [at |-> "none", auto |-> FALSE]
Idle == [at |-> "idle", client |-> NoClient, quiet |-> FALSE]

CloudTypeOK ==
  /\ client \in [Clients -> [at : {"none", "dial", "save", "refused", "open", "lost", "end", "gone"},
                             auto : BOOLEAN]]
  /\ clientNo \in 0 .. MaxClients /\ entry \in 0 .. MaxClients
  /\ status \in {"connected", "disconnected", "deleted"}
  /\ request \in [Requests -> [at : {"idle", "start", "await", "close", "delete"}, client : 0 .. MaxClients,
                           quiet : BOOLEAN]]
  /\ closed \in BOOLEAN /\ early \subseteq Clients

\* StartAll: when the process starts, an endpoint may get a client at once.
CloudInit ==
  /\ \E n \in {0, 1} :
       /\ n <= MaxClients /\ clientNo = n /\ entry = n
       /\ client = [c \in Clients |-> IF c <= n THEN [at |-> "dial", auto |-> TRUE] ELSE NewClient]
  /\ status = "disconnected" /\ request = [u \in Requests |-> Idle] /\ closed = FALSE /\ early = {}

Report(s) == IF status = "deleted" THEN status ELSE s
ClientAt(c, l) == client' = [client EXCEPT ![c].at = l]
RequestAt(u, l) == request' = [request EXCEPT ![u].at = l]

MakeClient ==
  /\ clientNo < MaxClients /\ clientNo' = clientNo + 1
  /\ client' = [client EXCEPT ![clientNo + 1] = [NewClient EXCEPT !.at = "dial"]]
  /\ entry' = clientNo + 1

-----------------------------------------------------------------------------
(* A client                                                                  *)

\* Connect: the handshake, ...
Dial(c) ==
  /\ client[c].at = "dial"
  /\ \/ ClientAt(c, "save")
     \/ ClientAt(c, "refused")
  /\ UNCHANGED <<clientNo, entry, status, request, closed, early>>

\* ... the row, which must still be there, ...
SavePeer(c) ==
  /\ client[c].at = "save"
  /\ \/ status # "deleted" /\ status' = "connected" /\ ClientAt(c, "open")
     \/ ClientAt(c, "refused") /\ UNCHANGED status
  /\ UNCHANGED <<clientNo, entry, request, closed, early>>

\* ... and the loops, which end when the peer or Disconnect closes.
LoopEnds(c) ==
  /\ client[c].at \in {"open", "lost"}
  /\ ClientAt(c, "end")
  /\ status' = Report("disconnected")
  /\ UNCHANGED <<clientNo, entry, request, closed, early>>

\* The goroutine of the client reports, and unless StartAll made it, deletes
\* the entry.
ClientGone(c) ==
  /\ client[c].at \in {"end", "refused"}
  /\ ClientAt(c, "gone")
  /\ status' = Report("disconnected")
  /\ entry' = IF client[c].auto THEN entry ELSE NoClient
  /\ UNCHANGED <<clientNo, request, closed, early>>

-----------------------------------------------------------------------------
(* Requests                                                                  *)

\* StopEndpoint.  Disconnect closes the connection that is there: none before
\* Connect has stored it.
StopEndpoint ==
  /\ entry' = NoClient
  /\ IF entry = NoClient THEN UNCHANGED <<client, status, early>>
     ELSE /\ client' = [client EXCEPT ![entry].at = IF @ = "open" THEN "lost" ELSE @]
          /\ early' = IF client[entry].at \in {"dial", "save"} THEN early \cup {entry} ELSE early
          /\ status' = Report("disconnected")

\* Connect and BindApiKey restart the endpoint: RestartEndpoint stops it, ...
Restart(u) ==
  /\ request[u].at = "idle" /\ status # "deleted" /\ clientNo < MaxClients
  /\ StopEndpoint
  /\ RequestAt(u, "start")
  /\ closed' = FALSE
  /\ UNCHANGED clientNo

\* ... and starts a client.
StartClient(u) ==
  /\ request[u].at = "start"
  /\ MakeClient
  /\ request' = [request EXCEPT ![u] = [Idle EXCEPT !.at = "await", !.client = clientNo + 1]]
  /\ UNCHANGED <<status, closed, early>>

\* The request returns after the first handshake, or after 15 seconds.
Started(u) ==
  /\ request[u].at = "await"
  /\ request' = [request EXCEPT ![u] = Idle]
  /\ UNCHANGED <<client, clientNo, entry, status, closed, early>>

Connecting ==
  \/ \E u \in Requests : request[u].at \in {"start", "await"}
  \/ \E c \in Clients : client[c].at \in {"dial", "save"}

\* Disconnect, Delete, and Update when it disables the endpoint.
StopRequest(u) ==
  /\ request[u].at = "idle" /\ status # "deleted"
  /\ StopEndpoint
  /\ \E l \in {"close", "delete"} :
       request' = [request EXCEPT ![u] = [Idle EXCEPT !.at = l, !.quiet = ~ Connecting]]
  /\ UNCHANGED <<clientNo, closed>>

Stopped(u) ==
  /\ request[u].at \in {"close", "delete"}
  /\ status' = IF request[u].at = "delete" THEN "deleted" ELSE Report("disconnected")
  /\ request' = [request EXCEPT ![u] = Idle]
  /\ closed' = (request[u].quiet /\ ~ Connecting)
  /\ UNCHANGED <<client, clientNo, entry, early>>

CloudNext ==
  \/ \E c \in Clients : Dial(c) \/ SavePeer(c) \/ LoopEnds(c) \/ ClientGone(c)
  \/ \E u \in Requests : Restart(u) \/ StartClient(u) \/ Started(u) \/ StopRequest(u) \/ Stopped(u)

CloudSpec == CloudInit /\ [][CloudNext]_cloudVars

-----------------------------------------------------------------------------
(* Properties                                                                *)

\* "the connection is closed and the database updated when the request returns"
\* (docs/API.md:966): after a Disconnect that met nobody who was connecting, no
\* connection is open, but for those of clients that an earlier stop had met
\* before they were connected.
DisconnectedMeansClosed ==
  closed => \A c \in Clients : client[c].at = "open" => c \in early
===============================================================================
