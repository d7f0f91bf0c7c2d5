------------------------------- MODULE Startup -------------------------------
(***************************************************************************)
(* Reaching the resident server of a workspace, starting it, replacing one *)
(* of another build and stopping it: ask, spawn and stop_and_wait of       *)
(* crates/client/src/client.rs, run and serve_connection of                *)
(* crates/cli/src/server.rs, and open, start_server and stop of            *)
(* crates/store/src/database.rs.                                           *)
(*                                                                         *)
(* What the processes share is the workspace's files, the socket, the      *)
(* spawn lock and server.json, and the cluster they describe.  A wait may  *)
(* run out at any time.                                                    *)
(***************************************************************************)
EXTENDS Integers, FiniteSets

CONSTANTS
  Clients,
  Servers,    \* places for server processes
  Stoppers,   \* clients that may run `stop`
  BuildOf,    \* [Clients -> the build of the server it would start]
  StoreOf,    \* [Clients -> the store settings it starts one with]
  NoSocket,   \* no file at the socket's path
  Leftover,   \* the file of a server that is gone
  NoServer,
  NoRecord,
  MaxKills    \* a bound

ASSUME StartupAssumption ==
  /\ IsFiniteSet(Clients) /\ IsFiniteSet(Servers)
  /\ NoSocket # Leftover /\ {NoSocket, Leftover, NoServer} \cap Servers = {}
  /\ NoRecord \notin {0} \cup {StoreOf[c] : c \in Clients}

VARIABLES
  socket,      \* pamin.sock: the server that bound it, or one of the two above
  spawning,    \* whether pamin.spawning exists
  record,      \* server.json: the settings the cluster was started with
  cluster,     \* the settings it really runs with, or NoRecord when it is down
  client,
  server,
  kills,
  past         \* what has happened since that the properties are not about

startVars == <<socket, spawning, record, cluster, client, server, kills, past>>
startFiles == <<socket, spawning, record, cluster>>

\* `won` it holds the lock, `child` it started, `to` it is connected to, `again` it
\* has replaced one server already.
NoClient == [at |-> "idle", stops |-> FALSE, won |-> FALSE, again |-> FALSE,
             child |-> NoServer, to |-> NoServer]
\* `asked` says how far each client's `stop` is.
NoProcess == [at |-> "none", build |-> 0, store |-> 0, asked |-> [c \in Clients |-> "no"]]

StartInit ==
  /\ socket = NoSocket /\ spawning = FALSE /\ record = NoRecord /\ cluster = NoRecord
  /\ client = [c \in Clients |-> NoClient]
  /\ server = [s \in Servers |-> NoProcess]
  /\ kills = 0 /\ past = {}

-----------------------------------------------------------------------------

ClientAt(c, phase) == client[c].at = phase
ServerAt(s, phase) == server[s].at = phase
Running(s) == ~ServerAt(s, "none")
Serves(s) == ServerAt(s, "serving")
Starting == {s \in Servers : Running(s) /\ ~Serves(s)}
Asked(s) == {c \in Clients : server[s].asked[c] # "no"}
Replacing == {c \in Clients : client[c].at \in {"mismatched", "farewell", "gone"}}
Stopping == Replacing \cup UNION {Asked(s) : s \in Servers}

\* Whether a connection to the path is accepted.
Live == socket \in Servers /\ Serves(socket)

\* More than one start or end of a server under way, and no server that stays.
Crossing == /\ Cardinality(Starting) + Cardinality(Stopping) > 1
            /\ Live => Stopping # {}

Client(c, with) == client' = [client EXCEPT ![c] = with]
Moves(c, phase) == Client(c, [client[c] EXCEPT !.at = phase])
Server(s, with) == server' = [server EXCEPT ![s] = with]

\* The process is gone: what it bound is a file that nobody listens behind.
Dies(s) ==
  /\ Server(s, NoProcess)
  /\ socket' = IF socket = s THEN Leftover ELSE socket

-----------------------------------------------------------------------------
(* The client.                                                             *)

\* A client's place is free once nothing is left of what was asked from it.
Begin(c) ==
  /\ ClientAt(c, "idle") /\ \A s \in Servers : c \notin Asked(s)
  /\ \E stops \in {FALSE} \cup (IF c \in Stoppers THEN {TRUE} ELSE {}) :
       Client(c, [NoClient EXCEPT !.at = "connect", !.stops = stops])
  /\ UNCHANGED <<startFiles, server>>

\* `stop` is the one call that does not start a server.
Connect(c) ==
  /\ ClientAt(c, "connect")
  /\ Client(c, IF Live THEN [client[c] EXCEPT !.at = "sent", !.to = socket]
               ELSE IF client[c].stops THEN NoClient
               ELSE [client[c] EXCEPT !.at = "spawn"])
  /\ UNCHANGED <<startFiles, server>>

\* A mutant: whoever finds the lock taken starts one too.
TakeAnyLock(c) ==
  /\ ClientAt(c, "spawn")
  /\ Client(c, [client[c] EXCEPT !.at = "start", !.won = ~spawning])
  /\ spawning' = TRUE
  /\ UNCHANGED <<socket, record, cluster, server>>

\* create_new: one of those that try has it.
TakeLock(c) ==
  /\ ClientAt(c, "spawn")
  /\ Client(c, IF spawning THEN [client[c] EXCEPT !.at = "await"]
               ELSE [client[c] EXCEPT !.at = "start", !.won = TRUE])
  /\ spawning' = TRUE
  /\ UNCHANGED <<socket, record, cluster, server>>

\* A place is free when no process is there and nobody is to reap one.
Vacant(s) == ~Running(s) /\ \A c \in Clients : s \notin {client[c].child, client[c].to}

StartProcess(c) ==
  /\ ClientAt(c, "start")
  /\ \E s \in Servers :
       /\ Vacant(s)
       /\ Server(s, [NoProcess EXCEPT !.at = "opening", !.build = BuildOf[c],
                                      !.store = StoreOf[c]])
       /\ Client(c, [client[c] EXCEPT !.at = "await", !.child = s])
  /\ UNCHANGED startFiles

StartFails(c) ==
  /\ ClientAt(c, "start")
  /\ spawning' = FALSE
  /\ Client(c, NoClient)
  /\ UNCHANGED <<socket, record, cluster, server>>

\* Until something listens, its own child exits, or the deadline.
Await(c) ==
  /\ ClientAt(c, "await")
  /\ \/ Live /\ Moves(c, "listening")
     \/ ~Live /\ Moves(c, "gaveUp")
  /\ UNCHANGED <<startFiles, server>>

\* Whoever took the lock removes it, however the wait ended.
Release(c) ==
  /\ client[c].at \in {"listening", "gaveUp"}
  /\ spawning' = (spawning /\ ~client[c].won)
  /\ Client(c, IF ClientAt(c, "gaveUp") THEN NoClient
               ELSE [client[c] EXCEPT !.at = "reconnect", !.won = FALSE, !.child = NoServer])
  /\ UNCHANGED <<socket, record, cluster, server>>

Reconnect(c) ==
  /\ ClientAt(c, "reconnect")
  /\ Client(c, IF Live THEN [client[c] EXCEPT !.at = "sent", !.to = socket] ELSE NoClient)
  /\ UNCHANGED <<startFiles, server>>

\* The server it was connected to is gone, and the connection with it.
Unanswered(c) ==
  /\ ClientAt(c, "sent")
  /\ ~Running(client[c].to)
  /\ Client(c, NoClient)
  /\ UNCHANGED <<startFiles, server>>

\* stop_and_wait of a server of another build.
Farewell(c) ==
  /\ ClientAt(c, "mismatched")
  /\ IF Live
       THEN /\ Client(c, [client[c] EXCEPT !.at = "farewell", !.to = socket])
            /\ Server(socket, [server[socket] EXCEPT !.asked[c] = "stopping"])
       ELSE Moves(c, "gone") /\ UNCHANGED server
  /\ UNCHANGED startFiles

FarewellOver(c) ==
  /\ ClientAt(c, "farewell")
  /\ LET s == client[c].to IN ~Running(s) \/ server[s].asked[c] \in {"answered", "removed"}
  /\ Client(c, IF client[c].stops THEN NoClient
               ELSE [client[c] EXCEPT !.at = "gone", !.to = NoServer])
  /\ UNCHANGED <<startFiles, server>>

\* It waits ten seconds for the path to go, and removes it then, whoever's it is.
Clear(c) ==
  /\ ClientAt(c, "gone")
  /\ socket' = NoSocket
  /\ Client(c, [client[c] EXCEPT !.at = "spawn", !.again = TRUE])
  /\ UNCHANGED <<spawning, record, cluster, server>>

ClientSteps(c) ==
  \/ Connect(c) \/ TakeLock(c) \/ StartProcess(c) \/ StartFails(c) \/ Await(c) \/ Release(c)
  \/ Reconnect(c) \/ Unanswered(c) \/ Farewell(c) \/ FarewellOver(c) \/ Clear(c)

-----------------------------------------------------------------------------
(* The server.                                                             *)

Becomes(s, phase) == Server(s, [server[s] EXCEPT !.at = phase])
Up == cluster # NoRecord

\* A mutant: what the cluster was started with is not looked at.
OpenAnyDatabase(s) ==
  /\ ServerAt(s, "opening")
  /\ Becomes(s, IF Up /\ record # NoRecord THEN "opened" ELSE "starting")
  /\ UNCHANGED <<startFiles, client>>

\* Database::open.  A cluster on record that answers is used with the settings it is
\* recorded with, and refused with others.
OpenDatabase(s) ==
  /\ ServerAt(s, "opening")
  /\ \/ Up /\ record = server[s].store /\ Becomes(s, "opened") /\ UNCHANGED socket
     \/ Up /\ record \notin {NoRecord, server[s].store} /\ Dies(s)
     \/ (~Up \/ record = NoRecord) /\ Becomes(s, "starting") /\ UNCHANGED socket
  /\ UNCHANGED <<spawning, record, cluster, client>>

\* pg_ctl starts no second cluster on one directory.
StartCluster(s) ==
  /\ ServerAt(s, "starting")
  /\ IF Up THEN Dies(s) /\ UNCHANGED cluster
     ELSE Becomes(s, "recording") /\ cluster' = server[s].store /\ UNCHANGED socket
  /\ UNCHANGED <<spawning, record, client>>

RecordCluster(s) ==
  /\ ServerAt(s, "recording")
  /\ Becomes(s, "opened")
  /\ record' = server[s].store
  /\ UNCHANGED <<socket, spawning, cluster, client>>

\* A mutant: a socket's file is taken for a dead server's.
CheckNobody(s) ==
  /\ ServerAt(s, "opened")
  /\ Becomes(s, "checked")
  /\ UNCHANGED <<startFiles, client>>

\* Connecting is what tells a live server's socket from a dead one's.
Check(s) ==
  /\ ServerAt(s, "opened")
  /\ IF Live THEN Dies(s) ELSE Becomes(s, "checked") /\ UNCHANGED socket
  /\ UNCHANGED <<spawning, record, cluster, client>>

ClearPath(s) ==
  /\ ServerAt(s, "checked")
  /\ Becomes(s, "cleared")
  /\ socket' = NoSocket
  /\ UNCHANGED <<spawning, record, cluster, client>>

Bind(s) ==
  /\ ServerAt(s, "cleared")
  /\ IF socket = NoSocket THEN Becomes(s, "serving") /\ socket' = s
     ELSE Dies(s)
  /\ UNCHANGED <<spawning, record, cluster, client>>

\* serve_connection: a stop is never refused, another build is, and then other
\* settings are.
Answer(c) ==
  /\ ClientAt(c, "sent")
  /\ LET s == client[c].to
     IN /\ Serves(s)
        /\ IF client[c].stops
             THEN /\ Server(s, [server[s] EXCEPT !.asked[c] = "stopping"])
                  /\ Moves(c, "farewell")
             ELSE /\ Client(c, IF server[s].build # BuildOf[c] /\ ~client[c].again
                               THEN [client[c] EXCEPT !.at = "mismatched", !.to = NoServer]
                               ELSE NoClient)
                  /\ UNCHANGED server
  /\ UNCHANGED startFiles

\* stop of database.rs: without a record there is nothing it knows to stop.
StopCluster(s, c) ==
  /\ server[s].asked[c] = "stopping"
  /\ cluster' = IF record = NoRecord THEN cluster ELSE NoRecord
  /\ Server(s, [server[s] EXCEPT !.asked[c] = "answered"])
  /\ UNCHANGED <<socket, spawning, record, client>>

\* Answered first, then gone: its path, then itself.
RemovePath(s, c) ==
  /\ server[s].asked[c] = "answered"
  /\ socket' = NoSocket
  /\ Server(s, [server[s] EXCEPT !.asked[c] = "removed"])
  /\ UNCHANGED <<spawning, record, cluster, client>>

Exit(s, c) ==
  /\ server[s].asked[c] = "removed"
  /\ Dies(s)
  /\ UNCHANGED <<spawning, record, cluster, client>>

ServerSteps(s) ==
  \/ OpenDatabase(s) \/ StartCluster(s) \/ RecordCluster(s) \/ Check(s) \/ ClearPath(s)
  \/ Bind(s)
  \/ \E c \in Clients : StopCluster(s, c) \/ RemovePath(s, c) \/ Exit(s, c)

-----------------------------------------------------------------------------

\* A client that is killed leaves its lock, and what it started or asked for goes on.
KillClient(c) ==
  /\ ~ClientAt(c, "idle")
  /\ Client(c, NoClient)
  /\ UNCHANGED <<startFiles, server>>

KillServer(s) ==
  /\ Running(s)
  /\ Dies(s)
  /\ UNCHANGED <<spawning, record, cluster, client>>

Works == (\E c \in Clients : ClientSteps(c) \/ Answer(c)) \/ \E s \in Servers : ServerSteps(s)
Kills == (\E c \in Clients : KillClient(c)) \/ \E s \in Servers : KillServer(s)

Deadly == \E s \in Servers : ServerAt(s, "recording") /\ server'[s].at = "none"
Late == Starting # {} /\ \E c \in Clients : ClientAt(c, "await") /\ client'[c].at = "gaveUp"

Since ==
  past \cup (IF kills' > kills \/ Stopping # {} \/ Late THEN {"trouble"} ELSE {})
       \cup (IF Crossing' THEN {"crossing"} ELSE {})
       \cup (IF kills' > kills /\ Deadly THEN {"unrecorded"} ELSE {})

StartNext ==
  /\ \/ (Works \/ \E c \in Clients : Begin(c)) /\ UNCHANGED kills
     \/ kills < MaxKills /\ Kills /\ kills' = kills + 1
  /\ past' = Since

StartSpec == StartInit /\ [][StartNext]_startVars

-----------------------------------------------------------------------------

\* While nothing is killed or stopped and no wait runs out, one server starts at a time:
\* the lock has everyone else wait for it, or find it listening (client.rs, spawn).  A
\* second one that starts beside a server that listens finds it so.
OneStarts == "trouble" \notin past => Live \/ Cardinality(Starting) <= 1

\* A server that serves and is not being stopped is the one the socket reaches, whatever
\* clients ask, wait for or die of meanwhile: one started beside it finds it listening
\* and leaves it be (server.rs, run).  Not so once two starts or ends have crossed.
Reachable == \A s \in Servers : Serves(s) /\ Asked(s) = {} /\ "crossing" \notin past => socket = s

\* A server serves from a cluster that runs with the settings the server was started
\* with (database.rs, reusable): the record it goes by is the cluster's, unless the
\* process that started the cluster died before it wrote it, or starts crossed.
SettingsAreHonoured ==
  \A s \in Servers : Serves(s) /\ Asked(s) = {} /\ Up /\ server[s].store # cluster =>
    past \cap {"unrecorded", "crossing"} # {}

-----------------------------------------------------------------------------
(* What it rests on.                                                       *)

ClientPhases == {"idle", "connect", "spawn", "start", "await", "listening", "gaveUp",
                 "reconnect", "sent", "mismatched", "farewell", "gone"}
ServerPhases == {"none", "opening", "starting", "recording", "opened", "checked",
                 "cleared", "serving"}

StartupTypeOK ==
  /\ socket \in Servers \cup {NoSocket, Leftover} /\ spawning \in BOOLEAN
  /\ client \in [Clients -> [at : ClientPhases, stops : BOOLEAN, won : BOOLEAN,
                            again : BOOLEAN, child : Servers \cup {NoServer},
                            to : Servers \cup {NoServer}]]
  /\ \A c \in Clients : ClientAt(c, "sent") => client[c].to \in Servers
  /\ server \in [Servers -> [at : ServerPhases, build : {0} \cup {BuildOf[c] : c \in Clients},
                            store : {0} \cup {StoreOf[c] : c \in Clients},
                            asked : [Clients -> {"no", "stopping", "answered", "removed"}]]]
  /\ kills \in Nat /\ past \subseteq {"trouble", "crossing", "unrecorded"}

\* One client has the spawn lock, and only that one starts a server.
LockIsOnes ==
  /\ \A c \in Clients : client[c].won =>
       spawning /\ client[c].at \in {"start", "await", "listening", "gaveUp"}
  /\ \A c, d \in Clients : client[c].won /\ client[d].won => c = d
  /\ \A c \in Clients : ClientAt(c, "start") => client[c].won

\* Unless there was trouble, what starts is what the holder of the lock waits for, or
\* finds another listening.
StartsAreAwaited ==
  "trouble" \notin past =>
    IF Live THEN \A s \in Servers : server[s].at \notin {"checked", "cleared"}
    ELSE \A s \in Starting : \E c \in Clients :
           client[c].won /\ ClientAt(c, "await") /\ client[c].child = s

\* Starts and ends that cross are noted.
CrossingIsNoted == Crossing => "crossing" \in past

\* A server past its check has the path to itself; one that a client asked to stop, or
\* waits to see gone, was the only one.
Alone ==
  "crossing" \notin past =>
    /\ \A s \in Servers : server[s].at \in {"checked", "cleared"} =>
         \A t \in Servers : ~Serves(t)
    /\ (\E s \in Servers : Asked(s) # {})
         \/ (\E c \in Clients : client[c].at \in {"farewell", "gone"}) =>
         \A t \in Servers : Serves(t) => Asked(t) # {}

Recording == {s \in Servers : ServerAt(s, "recording")}
Settled == {s \in Servers : \/ server[s].at \in {"opened", "checked", "cleared"}
                            \/ Serves(s) /\ Asked(s) = {}}

\* Which settings the cluster runs with, and which it is recorded with.
ClusterIsRecorded ==
  past \cap {"unrecorded", "crossing"} = {} =>
    /\ \A s \in Settled : Up /\ server[s].store = cluster /\ record = cluster
    /\ \A s \in Recording : Up /\ server[s].store = cluster
    /\ Up => record = cluster \/ Recording # {}

StartupInv ==
  /\ StartupTypeOK /\ LockIsOnes /\ StartsAreAwaited /\ CrossingIsNoted
  /\ Alone /\ Reachable /\ ClusterIsRecorded

=============================================================================
