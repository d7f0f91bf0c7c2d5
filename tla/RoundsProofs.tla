---------------------------- MODULE RoundsProofs ----------------------------
(***************************************************************************)
(* What is proved of the two components that are checked beside a drain's  *)
(* rounds: that one server serves a workspace with the settings            *)
(* it was started with (Startup), and that a model is read from one        *)
(* commit (Hub).  The two share nothing.                                   *)
(***************************************************************************)
EXTENDS Startup, Hub, FiniteSetTheorems, TLAPS

-----------------------------------------------------------------------------
(***************************************************************************)
(* However many clients and servers there are, StartupInv is inductive.    *)
(***************************************************************************)

ClientRecord == [at : ClientPhases, stops : BOOLEAN, won : BOOLEAN, again : BOOLEAN,
                 child : Servers \cup {NoServer}, to : Servers \cup {NoServer}]
ServerRecord == [at : ServerPhases, build : {0} \cup {BuildOf[c] : c \in Clients},
                 store : {0} \cup {StoreOf[c] : c \in Clients},
                 asked : [Clients -> {"no", "stopping", "answered", "removed"}]]

\* What a step adds to the past.
Noted ==
  /\ past' = Since /\ kills' \in {kills, kills + 1}

LEMMA RecordsOfTypes ==
  ASSUME StartupTypeOK
  PROVE  /\ client \in [Clients -> ClientRecord] /\ server \in [Servers -> ServerRecord]
         /\ socket \in Servers \cup {NoSocket, Leftover} /\ spawning \in BOOLEAN
         /\ kills \in Nat /\ past \subseteq {"trouble", "crossing", "unrecorded"}
         /\ NoSocket # Leftover /\ NoSocket \notin Servers /\ Leftover \notin Servers
         /\ NoServer \notin Servers
BY StartupAssumption DEF StartupTypeOK, ClientRecord, ServerRecord

LEMMA NoneAreRecords == NoClient \in ClientRecord /\ NoProcess \in ServerRecord
BY DEF NoClient, NoProcess, ClientRecord, ServerRecord, ClientPhases, ServerPhases

LEMMA PastKept ==
  ASSUME StartupTypeOK, Noted
  PROVE  /\ kills' \in Nat /\ past' \subseteq {"trouble", "crossing", "unrecorded"}
         /\ CrossingIsNoted'
         /\ past \subseteq past'
         /\ "trouble" \notin past' => kills' = kills /\ Stopping = {} /\ ~Late
         /\ "unrecorded" \notin past' => ~(kills' > kills /\ Deadly)
<1>1. kills \in Nat /\ past \subseteq {"trouble", "crossing", "unrecorded"}
  BY DEF StartupTypeOK
<1>2. past' = Since /\ kills' \in {kills, kills + 1}
  BY DEF Noted
<1>3. kills' \in Nat /\ (kills' # kills => kills' > kills)
  BY <1>1, <1>2
<1>4. past' \subseteq {"trouble", "crossing", "unrecorded"} /\ past \subseteq past'
  BY <1>1, <1>2 DEF Since
<1>5. CrossingIsNoted'
  BY <1>2, Zenon DEF Since, CrossingIsNoted
<1>6. "trouble" \notin past' => ~(kills' > kills) /\ Stopping = {} /\ ~Late
  BY <1>2 DEF Since
<1>7. "unrecorded" \notin past' => ~(kills' > kills /\ Deadly)
  BY <1>2 DEF Since
<1> QED BY <1>3, <1>4, <1>5, <1>6, <1>7

\* Starts and ends that have not crossed: a server listens and none is stopped, or at most
\* one starts and none is stopped, or one is stopped and none starts.
LEMMA OneAtATime ==
  ASSUME StartupTypeOK, ~Crossing
  PROVE  /\ Stopping # {} => Starting = {}
         /\ ~Live => \A s, t \in Starting : s = t
<1>1. IsFiniteSet(Starting) /\ IsFiniteSet(Stopping)
  <2>1. Starting \subseteq Servers /\ Stopping \subseteq Clients
    BY DEF Starting, Stopping, Replacing, Asked
  <2> QED BY <2>1, StartupAssumption, FS_Subset
<1> DEFINE a == Cardinality(Starting)
           b == Cardinality(Stopping)
<1>2. a \in Nat /\ b \in Nat
  BY <1>1, FS_CardinalityType
<1>3. (a = 0 <=> Starting = {}) /\ (b = 0 <=> Stopping = {})
  BY <1>1, FS_EmptySet
<1>4. a = 1 => \E x : Starting = {x}
  BY <1>1, FS_Singleton
<1>5. a + b <= 1 \/ (Live /\ Stopping = {})
  BY <1>2 DEF Crossing
<1> HIDE DEF a, b
<1> QED BY <1>2, <1>3, <1>4, <1>5

LEMMA WhoStops ==
  ASSUME StartupTypeOK
  PROVE  /\ \A c \in Clients : client[c].at \in {"mismatched", "farewell", "gone"}
                                 => Stopping # {}
         /\ \A c \in Clients, s \in Servers : server[s].asked[c] # "no"
                                 => Stopping # {} /\ Asked(s) # {}
BY DEF Stopping, Replacing, Asked

\* What an invariant says of the starts that have not crossed.
LEMMA Uncrossed ==
  ASSUME StartupInv, "crossing" \notin past
  PROVE  /\ Stopping # {} => Starting = {}
         /\ ~Live => \A s, t \in Starting : s = t
         /\ \A s \in Servers : Serves(s) /\ Asked(s) = {} => Live /\ socket = s
<1>1. ~Crossing /\ StartupTypeOK /\ Reachable
  BY DEF StartupInv, CrossingIsNoted
<1>2. \A s \in Servers : Serves(s) /\ Asked(s) = {} => Live /\ socket = s
  BY <1>1 DEF Reachable, Live
<1> QED BY <1>1, <1>2, OneAtATime

-----------------------------------------------------------------------------
(* A client's step on its own.                                             *)

LEMMA ClientKeeps ==
  ASSUME StartupInv, Noted, NEW c \in Clients,
         client' = [client EXCEPT ![c] = client'[c]], client'[c] \in ClientRecord,
         UNCHANGED <<socket, record, cluster, server>>, spawning' \in BOOLEAN,
         client'[c].won => spawning' /\ client'[c].at \in {"start", "await", "listening", "gaveUp"},
         \A d \in Clients \ {c} : client[d].won => spawning' /\ ~client'[c].won,
         client'[c].at = "start" => client'[c].won,
         client'[c].at = "sent" => client'[c].to \in Servers,
         client[c].won /\ client[c].at = "await" /\ ~Live /\ Starting # {} =>
           "trouble" \in past',
         client'[c].at \in {"farewell", "gone"} /\ "crossing" \notin past =>
           \/ client[c].at \in {"farewell", "gone"}
           \/ \A t \in Servers : Serves(t) => Asked(t) # {}
  PROVE  StartupInv'
<1> DEFINE r == client'[c]
<1>1. StartupTypeOK
  BY DEF StartupInv
<1>2. /\ client \in [Clients -> ClientRecord] /\ server \in [Servers -> ServerRecord]
      /\ kills' \in Nat /\ past' \subseteq {"trouble", "crossing", "unrecorded"}
      /\ past \subseteq past' /\ CrossingIsNoted'
  BY <1>1, RecordsOfTypes, PastKept
<1>3. \A d \in Clients : client'[d] = IF d = c THEN r ELSE client[d]
  BY <1>2
<1>4. StartupTypeOK'
  <2>1. client' \in [Clients -> ClientRecord]
    BY <1>2
  <2> QED BY <1>1, <1>2, <1>3, <2>1 DEF StartupTypeOK, ClientRecord, ServerRecord, ClientAt
<1>5. (Live' <=> Live) /\ Starting' = Starting /\ (\A s \in Servers : Asked(s)' = Asked(s))
      /\ (\A s \in Servers : Serves(s)' <=> Serves(s))
      /\ Recording' = Recording /\ Settled' = Settled /\ (Up' <=> Up)
  BY DEF Live, Starting, Asked, Serves, Running, ServerAt, Recording, Settled, Up
<1>6. LockIsOnes'
  <2>1. LockIsOnes
    BY DEF StartupInv
  <2> QED BY <1>3, <2>1 DEF LockIsOnes, ClientAt
<1>7. StartsAreAwaited'
  <2>1. StartsAreAwaited
    BY DEF StartupInv
  <2> SUFFICES ASSUME "trouble" \notin past'
               PROVE  IF Live THEN \A s \in Servers : server[s].at \notin {"checked", "cleared"}
                      ELSE \A s \in Starting : \E d \in Clients :
                        client'[d].won /\ client'[d].at = "await" /\ client'[d].child = s
    BY <1>5 DEF StartsAreAwaited, ClientAt
  <2>2. CASE Live
    BY <1>2, <2>1, <2>2 DEF StartsAreAwaited
  <2>3. CASE ~Live
    <3> SUFFICES ASSUME NEW s \in Starting
                 PROVE  \E d \in Clients :
                   client'[d].won /\ client'[d].at = "await" /\ client'[d].child = s
      BY <2>3
    <3>1. PICK d \in Clients : client[d].won /\ client[d].at = "await" /\ client[d].child = s
      BY <1>2, <2>1, <2>3 DEF StartsAreAwaited, ClientAt
    <3>2. d # c
      BY <2>3, <3>1
    <3> QED BY <1>3, <3>1, <3>2
  <2> QED BY <2>2, <2>3
<1>8. Alone'
  <2>1. Alone
    BY DEF StartupInv
  <2> SUFFICES ASSUME "crossing" \notin past'
               PROVE /\ \A s \in Servers : server[s].at \in {"checked", "cleared"} =>
                          \A t \in Servers : ~Serves(t)
                     /\ (\E s \in Servers : Asked(s) # {})
                          \/ (\E d \in Clients : client'[d].at \in {"farewell", "gone"}) =>
                          \A t \in Servers : Serves(t) => Asked(t) # {}
    BY <1>5 DEF Alone
  <2>2. "crossing" \notin past
    BY <1>2
  <2> QED BY <1>3, <2>1, <2>2 DEF Alone
<1>9. Reachable'
  <2>1. Reachable
    BY DEF StartupInv
  <2> QED BY <1>2, <1>5, <2>1 DEF Reachable
<1>10. ClusterIsRecorded'
  <2>1. ClusterIsRecorded
    BY DEF StartupInv
  <2>2. past' \cap {"unrecorded", "crossing"} = {} => past \cap {"unrecorded", "crossing"} = {}
    BY <1>2
  <2> QED BY <1>5, <2>1, <2>2 DEF ClusterIsRecorded
<1> QED BY <1>2, <1>4, <1>6, <1>7, <1>8, <1>9, <1>10 DEF StartupInv

\* The same, for a step that leaves the lock and the past of it alone.
LEMMA ClientMoves ==
  ASSUME StartupInv, Noted, NEW c \in Clients, NEW with,
         Client(c, with), with \in ClientRecord,
         UNCHANGED <<startFiles, server>>,
         with.won => client[c].won /\ with.at \in {"start", "await", "listening", "gaveUp"},
         with.at # "start", with.at = "sent" => with.to \in Servers,
         client[c].won /\ client[c].at = "await" /\ ~Live /\ Starting # {} =>
           "trouble" \in past',
         with.at \in {"farewell", "gone"} /\ "crossing" \notin past =>
           \/ client[c].at \in {"farewell", "gone"}
           \/ \A t \in Servers : Serves(t) => Asked(t) # {}
  PROVE  StartupInv'
<1>1. /\ client \in [Clients -> ClientRecord] /\ spawning \in BOOLEAN
      /\ LockIsOnes
  BY RecordsOfTypes DEF StartupInv
<1>2. client' = [client EXCEPT ![c] = client'[c]] /\ client'[c] = with
  BY <1>1 DEF Client
<1>3. UNCHANGED <<socket, record, cluster, server, spawning>>
  BY DEF startFiles
<1>4. \A d \in Clients \ {c} : client[d].won => spawning' /\ ~with.won
  BY <1>1, <1>3 DEF LockIsOnes
<1>5. with.won => spawning'
  BY <1>1, <1>3 DEF LockIsOnes
<1> QED BY <1>1, <1>2, <1>3, <1>4, <1>5, ClientKeeps

LEMMA ClientAlone ==
  ASSUME StartupInv, Noted, NEW c \in Clients,
         \/ Begin(c) \/ Connect(c) \/ Reconnect(c) \/ Unanswered(c) \/ FarewellOver(c)
         \/ Await(c)
         \/ KillClient(c) /\ kills' = kills + 1
  PROVE  StartupInv'
<1>1. StartupTypeOK /\ LockIsOnes
  BY DEF StartupInv
<1>2. /\ client \in [Clients -> ClientRecord] /\ spawning \in BOOLEAN /\ NoClient \in ClientRecord
      /\ socket \in Servers \cup {NoSocket, Leftover} /\ kills \in Nat
  BY <1>1, RecordsOfTypes, NoneAreRecords
<1>3. "trouble" \notin past' => kills' = kills /\ ~Late
  BY <1>1, PastKept
<1>4. client[c] \in ClientRecord /\ (Live => socket \in Servers)
  BY <1>2 DEF Live
<1>5. client[c].won => client[c].at \in {"start", "await", "listening", "gaveUp"}
  BY <1>1 DEF LockIsOnes
<1>6. CASE Begin(c)
  <2>1. PICK stops \in BOOLEAN : Client(c, [NoClient EXCEPT !.at = "connect", !.stops = stops])
    BY <1>6 DEF Begin
  <2> DEFINE with == [NoClient EXCEPT !.at = "connect", !.stops = stops]
  <2>2. with \in ClientRecord /\ with.at = "connect" /\ ~with.won
    BY <1>2, <2>1 DEF ClientRecord, ClientPhases, NoClient
  <2>3. Client(c, with) /\ ClientAt(c, "idle") /\ UNCHANGED <<startFiles, server>>
    BY <1>6, <2>1 DEF Begin
  <2> HIDE DEF with
  <2> QED BY <1>5, <2>2, <2>3, ClientMoves DEF ClientAt
<1>7. CASE Connect(c)
  <2> DEFINE with == IF Live THEN [client[c] EXCEPT !.at = "sent", !.to = socket]
                     ELSE IF client[c].stops THEN NoClient
                     ELSE [client[c] EXCEPT !.at = "spawn"]
  <2>1. Client(c, with) /\ client[c].at = "connect" /\ UNCHANGED <<startFiles, server>>
    BY <1>7 DEF Connect, ClientAt
  <2>2. with \in ClientRecord /\ with.at \in {"sent", "spawn", "idle"} /\ ~with.won
        /\ (with.at = "sent" => with.to \in Servers)
    BY <1>2, <1>4, <1>5, <2>1 DEF ClientRecord, ClientPhases, NoClient
  <2> HIDE DEF with
  <2> QED BY <1>5, <2>1, <2>2, ClientMoves
<1>8. CASE Reconnect(c)
  <2> DEFINE with == IF Live THEN [client[c] EXCEPT !.at = "sent", !.to = socket] ELSE NoClient
  <2>1. Client(c, with) /\ client[c].at = "reconnect" /\ UNCHANGED <<startFiles, server>>
    BY <1>8 DEF Reconnect, ClientAt
  <2>2. with \in ClientRecord /\ with.at \in {"sent", "idle"} /\ ~with.won
        /\ (with.at = "sent" => with.to \in Servers)
    BY <1>2, <1>4, <1>5, <2>1 DEF ClientRecord, ClientPhases, NoClient
  <2> HIDE DEF with
  <2> QED BY <1>5, <2>1, <2>2, ClientMoves
<1>9. CASE Unanswered(c)
  <2>1. Client(c, NoClient) /\ client[c].at = "sent" /\ UNCHANGED <<startFiles, server>>
    BY <1>9 DEF Unanswered, ClientAt
  <2>2. NoClient.at = "idle" /\ ~NoClient.won
    BY DEF NoClient
  <2> QED BY <1>2, <1>5, <2>1, <2>2, ClientMoves
<1>10. CASE FarewellOver(c)
  <2> DEFINE with == IF client[c].stops THEN NoClient
                     ELSE [client[c] EXCEPT !.at = "gone", !.to = NoServer]
  <2>1. Client(c, with) /\ client[c].at = "farewell" /\ UNCHANGED <<startFiles, server>>
    BY <1>10 DEF FarewellOver, ClientAt
  <2>2. with \in ClientRecord /\ with.at \in {"gone", "idle"} /\ ~with.won
    BY <1>2, <1>4, <1>5, <2>1 DEF ClientRecord, ClientPhases, NoClient
  <2> HIDE DEF with
  <2> QED BY <1>5, <2>1, <2>2, ClientMoves
<1>11. CASE Await(c)
  <2>1. /\ client[c].at = "await" /\ UNCHANGED <<startFiles, server>>
        /\ \/ Live /\ Moves(c, "listening")
           \/ ~Live /\ Moves(c, "gaveUp")
    BY <1>11 DEF Await, ClientAt
  <2>2. PICK phase \in {"listening", "gaveUp"} : Moves(c, phase) /\ (~Live => phase = "gaveUp")
    BY <2>1
  <2> DEFINE with == [client[c] EXCEPT !.at = phase]
  <2>3. with \in ClientRecord /\ with.at = phase /\ with.won = client[c].won
    BY <1>4, <2>2 DEF ClientRecord, ClientPhases
  <2>4. Client(c, with)
    BY <2>2 DEF Moves
  <2>5. ~Live /\ Starting # {} => Late
    <3> SUFFICES ASSUME ~Live, Starting # {}
                 PROVE  ClientAt(c, "await") /\ client'[c].at = "gaveUp"
      BY DEF Late
    <3> QED BY <1>2, <2>1, <2>2, <2>3, <2>4 DEF Client, ClientAt
  <2> HIDE DEF with
  <2> QED BY <1>3, <2>1, <2>2, <2>3, <2>4, <2>5, ClientMoves
<1>12. CASE KillClient(c) /\ kills' = kills + 1
  <2>1. Client(c, NoClient) /\ UNCHANGED <<startFiles, server>>
    BY <1>12 DEF KillClient
  <2>2. NoClient.at = "idle" /\ ~NoClient.won
    BY DEF NoClient
  <2>3. "trouble" \in past'
    BY <1>2, <1>3, <1>12
  <2> QED BY <1>2, <2>1, <2>2, <2>3, ClientMoves
<1> QED BY <1>6, <1>7, <1>8, <1>9, <1>10, <1>11, <1>12

\* The lock is taken, waited for, given back or let go of.
LEMMA LockKeeps ==
  ASSUME StartupInv, Noted, NEW c \in Clients, TakeLock(c) \/ StartFails(c) \/ Release(c)
  PROVE  StartupInv'
<1>1. StartupTypeOK /\ LockIsOnes
  BY DEF StartupInv
<1>2. /\ client \in [Clients -> ClientRecord] /\ spawning \in BOOLEAN /\ NoClient \in ClientRecord
      /\ NoServer \notin Servers
  BY <1>1, RecordsOfTypes, NoneAreRecords
<1>3. UNCHANGED <<socket, record, cluster, server>>
  BY DEF TakeLock, StartFails, Release
<1>4. client[c] \in ClientRecord
  BY <1>2
<1>5. /\ client[c].won => spawning /\ client[c].at \in {"start", "await", "listening", "gaveUp"}
      /\ \A d \in Clients \ {c} : client[d].won => spawning /\ ~client[c].won
      /\ client[c].at = "start" => client[c].won
  BY <1>1 DEF LockIsOnes, ClientAt
<1>6. CASE TakeLock(c)
  <2> DEFINE with == IF spawning THEN [client[c] EXCEPT !.at = "await"]
                     ELSE [client[c] EXCEPT !.at = "start", !.won = TRUE]
  <2>1. Client(c, with) /\ client[c].at = "spawn" /\ spawning' = TRUE
    BY <1>6 DEF TakeLock, ClientAt
  <2>2. with \in ClientRecord /\ with.at \in {"await", "start"}
        /\ (with.won <=> ~spawning) /\ (with.at = "start" <=> ~spawning)
    BY <1>2, <1>4, <1>5, <2>1 DEF ClientRecord, ClientPhases
  <2>3. client' = [client EXCEPT ![c] = client'[c]] /\ client'[c] = with
    BY <1>2, <2>1 DEF Client
  <2> HIDE DEF with
  <2>4. \A d \in Clients \ {c} : client[d].won => spawning
    BY <1>5
  <2> QED BY <1>3, <2>1, <2>2, <2>3, <2>4, ClientKeeps
<1>7. CASE StartFails(c)
  <2>1. Client(c, NoClient) /\ client[c].at = "start" /\ spawning' = FALSE
    BY <1>7 DEF StartFails, ClientAt
  <2>2. client' = [client EXCEPT ![c] = client'[c]] /\ client'[c] = NoClient
    BY <1>2, <2>1 DEF Client
  <2>3. NoClient.at = "idle" /\ ~NoClient.won
    BY DEF NoClient
  <2>4. \A d \in Clients \ {c} : ~client[d].won
    BY <1>5, <2>1
  <2> QED BY <1>2, <1>3, <2>1, <2>2, <2>3, <2>4, ClientKeeps
<1>8. CASE Release(c)
  <2> DEFINE with == IF ClientAt(c, "gaveUp") THEN NoClient
                     ELSE [client[c] EXCEPT !.at = "reconnect", !.won = FALSE, !.child = NoServer]
  <2>1. /\ Client(c, with) /\ client[c].at \in {"listening", "gaveUp"}
        /\ spawning' = (spawning /\ ~client[c].won)
    BY <1>8 DEF Release
  <2>2. with \in ClientRecord /\ with.at \in {"idle", "reconnect"} /\ ~with.won
    BY <1>2, <1>4 DEF ClientRecord, ClientPhases, NoClient
  <2>3. client' = [client EXCEPT ![c] = client'[c]] /\ client'[c] = with
    BY <1>2, <2>1 DEF Client
  <2> HIDE DEF with
  <2>4. \A d \in Clients \ {c} : client[d].won => spawning'
    BY <1>5, <2>1
  <2>5. spawning' \in BOOLEAN
    BY <1>2, <2>1
  <2> QED BY <1>3, <2>1, <2>2, <2>3, <2>4, <2>5, ClientKeeps
<1> QED BY <1>6, <1>7, <1>8

-----------------------------------------------------------------------------
(* A client's step and a server: it starts one, asks one to stop, or removes  *)
(* the path of one.                                                           *)

LEMMA StartKeeps ==
  ASSUME StartupInv, Noted, NEW c \in Clients, StartProcess(c)
  PROVE  StartupInv'
<1>1. StartupTypeOK /\ LockIsOnes /\ StartsAreAwaited /\ Alone /\ Reachable /\ ClusterIsRecorded
  BY DEF StartupInv
<1>2. /\ client \in [Clients -> ClientRecord] /\ server \in [Servers -> ServerRecord]
      /\ kills' \in Nat /\ past' \subseteq {"trouble", "crossing", "unrecorded"}
      /\ past \subseteq past' /\ CrossingIsNoted' /\ NoProcess \in ServerRecord
      /\ socket \in Servers \cup {NoSocket, Leftover} /\ spawning \in BOOLEAN
      /\ NoSocket \notin Servers /\ Leftover \notin Servers
  BY <1>1, RecordsOfTypes, PastKept, NoneAreRecords
<1>3. PICK s \in Servers :
        /\ Vacant(s)
        /\ Server(s, [NoProcess EXCEPT !.at = "opening", !.build = BuildOf[c],
                                       !.store = StoreOf[c]])
        /\ Client(c, [client[c] EXCEPT !.at = "await", !.child = s])
  BY DEF StartProcess
<1> DEFINE process == [NoProcess EXCEPT !.at = "opening", !.build = BuildOf[c],
                                        !.store = StoreOf[c]]
           with == [client[c] EXCEPT !.at = "await", !.child = s]
<1>4. /\ process \in ServerRecord /\ process.at = "opening"
      /\ \A d \in Clients : process.asked[d] = "no"
  BY DEF NoProcess, ServerRecord, ServerPhases
<1>5. with \in ClientRecord /\ with.at = "await" /\ with.child = s /\ with.won = client[c].won
  BY <1>2 DEF ClientRecord, ClientPhases
<1>6. /\ client' \in [Clients -> ClientRecord] /\ server' \in [Servers -> ServerRecord]
      /\ \A d \in Clients : client'[d] = IF d = c THEN with ELSE client[d]
      /\ \A t \in Servers : server'[t] = IF t = s THEN process ELSE server[t]
  BY <1>2, <1>3, <1>4, <1>5 DEF Client, Server
<1>7. server[s].at = "none" /\ client[c].at = "start" /\ client[c].won
  BY <1>1, <1>3 DEF Vacant, Running, ServerAt, StartProcess, LockIsOnes, ClientAt
<1>8. UNCHANGED <<socket, spawning, record, cluster>>
  BY DEF StartProcess, startFiles
<1> HIDE DEF process, with
<1>9. StartupTypeOK'
  BY <1>1, <1>2, <1>5, <1>6, <1>8 DEF StartupTypeOK, ClientRecord, ServerRecord, ClientAt
<1>10. /\ Live' <=> Live
       /\ Starting' = Starting \cup {s}
       /\ \A t \in Servers : Serves(t)' <=> Serves(t)
       /\ Asked(s)' = {} /\ \A t \in Servers \ {s} : Asked(t)' = Asked(t)
       /\ ~Serves(s)
       /\ Recording' = Recording /\ Settled' = Settled /\ (Up' <=> Up)
  <2>1. ~Serves(s) /\ \A t \in Servers : Serves(t)' <=> Serves(t)
    BY <1>4, <1>6, <1>7 DEF Serves, ServerAt
  <2>2. Asked(s)' = {} /\ \A t \in Servers \ {s} : Asked(t)' = Asked(t)
    BY <1>4, <1>6 DEF Asked
  <2>3. Recording' = Recording
    BY <1>4, <1>6, <1>7 DEF Recording, ServerAt
  <2>4. Settled' = Settled
    <3>1. \A t \in Servers \ {s} : t \in Settled' <=> t \in Settled
      BY <1>6, <2>1, <2>2 DEF Settled
    <3>2. s \notin Settled /\ s \notin Settled'
      BY <1>4, <1>6, <1>7, <2>1 DEF Settled
    <3>3. Settled \subseteq Servers /\ Settled' \subseteq Servers
      BY DEF Settled
    <3> QED BY <3>1, <3>2, <3>3
  <2>5. Starting' = Starting \cup {s}
    BY <1>4, <1>6, <1>7, <2>1 DEF Starting, Running, ServerAt
  <2> QED BY <1>8, <2>1, <2>2, <2>3, <2>4, <2>5 DEF Live, Up
<1>11. LockIsOnes'
  BY <1>1, <1>5, <1>6, <1>7, <1>8 DEF LockIsOnes, ClientAt
<1>12. StartsAreAwaited'
  <2> SUFFICES ASSUME "trouble" \notin past'
               PROVE  IF Live THEN \A t \in Servers : server'[t].at \notin {"checked", "cleared"}
                      ELSE \A t \in Starting \cup {s} : \E d \in Clients :
                        client'[d].won /\ client'[d].at = "await" /\ client'[d].child = t
    BY <1>10 DEF StartsAreAwaited, ClientAt
  <2>1. CASE Live
    BY <1>1, <1>2, <1>4, <1>6, <2>1 DEF StartsAreAwaited
  <2>2. CASE ~Live
    <3>1. Starting = {}
      BY <1>1, <1>2, <1>7, <2>2 DEF StartsAreAwaited, LockIsOnes, ClientAt
    <3>2. client'[c].won /\ client'[c].at = "await" /\ client'[c].child = s
      BY <1>5, <1>6, <1>7
    <3> QED BY <2>2, <3>1, <3>2
  <2> QED BY <2>1, <2>2
<1>13. Alone'
  <2> SUFFICES ASSUME "crossing" \notin past'
               PROVE /\ \A t \in Servers : server'[t].at \in {"checked", "cleared"} =>
                          \A u \in Servers : ~Serves(u)
                     /\ (\E t \in Servers : Asked(t)' # {})
                          \/ (\E d \in Clients : client'[d].at \in {"farewell", "gone"}) =>
                          \A t \in Servers : Serves(t) => Asked(t)' # {}
    BY <1>10 DEF Alone
  <2>1. "crossing" \notin past
    BY <1>2
  <2>2. \A t \in Servers : server'[t].at \in {"checked", "cleared"} => \A u \in Servers : ~Serves(u)
    BY <1>1, <1>4, <1>6, <2>1 DEF Alone
  <2>3. (\E t \in Servers : Asked(t)' # {}) => (\E t \in Servers : Asked(t) # {})
    BY <1>10
  <2>4. (\E d \in Clients : client'[d].at \in {"farewell", "gone"}) =>
          (\E d \in Clients : client[d].at \in {"farewell", "gone"})
    BY <1>5, <1>6
  <2>5. \A t \in Servers : Serves(t) => t # s /\ Asked(t)' = Asked(t)
    BY <1>10
  <2> QED BY <1>1, <2>1, <2>2, <2>3, <2>4, <2>5 DEF Alone
<1>14. Reachable'
  BY <1>1, <1>2, <1>8, <1>10 DEF Reachable
<1>15. ClusterIsRecorded'
  <2>1. past' \cap {"unrecorded", "crossing"} = {} => past \cap {"unrecorded", "crossing"} = {}
    BY <1>2
  <2>2. \A t \in Settled \cup Recording : t \in Servers /\ server'[t].store = server[t].store
    BY <1>6, <1>7, <1>10 DEF Settled, Recording, ServerAt
  <2> QED BY <1>1, <1>8, <1>10, <2>1, <2>2 DEF ClusterIsRecorded
<1> QED BY <1>2, <1>9, <1>11, <1>12, <1>13, <1>14, <1>15 DEF StartupInv

\* A server that serves is asked to stop.
LEMMA AskKeeps ==
  ASSUME StartupInv, Noted, NEW c \in Clients, NEW s \in Servers, Serves(s),
         client[c].at \in {"sent", "mismatched"},
         NEW with \in ClientRecord, Client(c, with), with.at = "farewell",
         with.won = client[c].won,
         Server(s, [server[s] EXCEPT !.asked[c] = "stopping"]), UNCHANGED startFiles
  PROVE  StartupInv'
<1>1. StartupTypeOK /\ LockIsOnes /\ StartsAreAwaited /\ Alone /\ Reachable /\ ClusterIsRecorded
  BY DEF StartupInv
<1>2. /\ client \in [Clients -> ClientRecord] /\ server \in [Servers -> ServerRecord]
      /\ kills' \in Nat /\ past' \subseteq {"trouble", "crossing", "unrecorded"}
      /\ past \subseteq past' /\ CrossingIsNoted'
  BY <1>1, RecordsOfTypes, PastKept
<1> DEFINE process == [server[s] EXCEPT !.asked[c] = "stopping"]
<1>3. /\ process \in ServerRecord /\ process.at = server[s].at
      /\ process.store = server[s].store /\ process.asked[c] = "stopping"
  BY <1>2 DEF ServerRecord
<1>4. /\ client' \in [Clients -> ClientRecord] /\ server' \in [Servers -> ServerRecord]
      /\ \A d \in Clients : client'[d] = IF d = c THEN with ELSE client[d]
      /\ \A t \in Servers : server'[t] = IF t = s THEN process ELSE server[t]
  BY <1>2, <1>3 DEF Client, Server
<1> HIDE DEF process
<1>5. UNCHANGED <<socket, spawning, record, cluster>>
  BY DEF startFiles
<1>6. \A t \in Servers : server'[t].at = server[t].at /\ server'[t].store = server[t].store
  BY <1>3, <1>4
<1>7. /\ Live' <=> Live
      /\ Starting' = Starting
      /\ \A t \in Servers : Serves(t)' <=> Serves(t)
      /\ Asked(s)' # {} /\ \A t \in Servers \ {s} : Asked(t)' = Asked(t)
      /\ Recording' = Recording /\ Settled' \subseteq Settled /\ (Up' <=> Up)
  <2>1. \A t \in Servers : Serves(t)' <=> Serves(t)
    BY <1>6 DEF Serves, ServerAt
  <2>2. Asked(s)' # {} /\ \A t \in Servers \ {s} : Asked(t)' = Asked(t)
    BY <1>3, <1>4 DEF Asked
  <2>3. Recording' = Recording /\ Starting' = Starting
    BY <1>6 DEF Recording, ServerAt, Starting, Running, Serves
  <2>4. Settled' \subseteq Settled
    BY <1>6, <2>1, <2>2 DEF Settled
  <2> QED BY <1>5, <2>1, <2>2, <2>3, <2>4 DEF Live, Up
<1>8. StartupTypeOK'
  BY <1>1, <1>2, <1>4, <1>5 DEF StartupTypeOK, ClientRecord, ServerRecord, ClientAt
<1>9. LockIsOnes'
  BY <1>1, <1>4, <1>5 DEF LockIsOnes, ClientAt
<1>10. StartsAreAwaited'
  <2> SUFFICES ASSUME "trouble" \notin past'
               PROVE  IF Live THEN \A t \in Servers : server'[t].at \notin {"checked", "cleared"}
                      ELSE \A t \in Starting : \E d \in Clients :
                        client'[d].won /\ client'[d].at = "await" /\ client'[d].child = t
    BY <1>7 DEF StartsAreAwaited, ClientAt
  <2>1. CASE Live
    BY <1>1, <1>2, <1>6, <2>1 DEF StartsAreAwaited
  <2>2. CASE ~Live
    <3>1. \A d \in Clients : client[d].at = "await" => client'[d] = client[d]
      BY <1>4
    <3> QED BY <1>1, <1>2, <2>2, <3>1 DEF StartsAreAwaited, ClientAt
  <2> QED BY <2>1, <2>2
<1>11. "crossing" \notin past =>
         /\ \A t \in Servers : server[t].at \notin {"checked", "cleared"}
         /\ \A t \in Servers : Serves(t) /\ t # s => Asked(t) # {}
  <2> SUFFICES ASSUME "crossing" \notin past
               PROVE  /\ \A t \in Servers : server[t].at \notin {"checked", "cleared"}
                      /\ \A t \in Servers : Serves(t) /\ t # s => Asked(t) # {}
    OBVIOUS
  <2>1. \A t \in Servers : server[t].at \notin {"checked", "cleared"}
    BY <1>1 DEF Alone
  <2>2. CASE Asked(s) # {}
    BY <1>1, <2>1, <2>2 DEF Alone
  <2>3. CASE Asked(s) = {}
    BY <1>1, <2>1, <2>3 DEF Reachable
  <2> QED BY <2>1, <2>2, <2>3
<1>12. Alone'
  BY <1>2, <1>6, <1>7, <1>11 DEF Alone
<1>13. Reachable'
  BY <1>1, <1>2, <1>5, <1>7 DEF Reachable
<1>14. ClusterIsRecorded'
  <2>1. past' \cap {"unrecorded", "crossing"} = {} => past \cap {"unrecorded", "crossing"} = {}
    BY <1>2
  <2>2. \A t \in Settled \cup Recording : t \in Servers
    BY DEF Settled, Recording
  <2> QED BY <1>1, <1>5, <1>6, <1>7, <2>1, <2>2 DEF ClusterIsRecorded
<1> QED BY <1>2, <1>8, <1>9, <1>10, <1>12, <1>13, <1>14 DEF StartupInv

LEMMA AnswerKeeps ==
  ASSUME StartupInv, Noted, NEW c \in Clients, Answer(c)
  PROVE  StartupInv'
<1> DEFINE s == client[c].to
<1>1. /\ StartupTypeOK /\ LockIsOnes /\ client \in [Clients -> ClientRecord]
      /\ NoServer \notin Servers /\ NoClient \in ClientRecord
  BY RecordsOfTypes, NoneAreRecords DEF StartupInv
<1>2. client[c].at = "sent" /\ s \in Servers /\ Serves(s) /\ UNCHANGED startFiles
  BY <1>1 DEF Answer, ClientAt, StartupTypeOK
<1>3. client[c].won => client[c].at \in {"start", "await", "listening", "gaveUp"}
  BY <1>1 DEF LockIsOnes
<1>4. client[c] \in ClientRecord
  BY <1>1
<1>5. CASE client[c].stops
  <2> DEFINE with == [client[c] EXCEPT !.at = "farewell"]
  <2>1. with \in ClientRecord /\ with.at = "farewell" /\ with.won = client[c].won
    BY <1>4 DEF ClientRecord, ClientPhases
  <2>2. Client(c, with) /\ Server(s, [server[s] EXCEPT !.asked[c] = "stopping"])
    BY <1>5 DEF Answer, Moves
  <2> HIDE DEF with, s
  <2> QED BY <1>2, <2>1, <2>2, AskKeeps
<1>6. CASE ~client[c].stops
  <2> DEFINE with == IF server[s].build # BuildOf[c] /\ ~client[c].again
                     THEN [client[c] EXCEPT !.at = "mismatched", !.to = NoServer]
                     ELSE NoClient
  <2>1. Client(c, with) /\ UNCHANGED server
    BY <1>6 DEF Answer
  <2>2. with \in ClientRecord /\ with.at \in {"mismatched", "idle"} /\ ~with.won
    BY <1>1, <1>2, <1>3, <1>4 DEF ClientRecord, ClientPhases, NoClient
  <2> HIDE DEF with, s
  <2> QED BY <1>2, <1>3, <2>1, <2>2, ClientMoves
<1> QED BY <1>5, <1>6

LEMMA FarewellKeeps ==
  ASSUME StartupInv, Noted, NEW c \in Clients, Farewell(c)
  PROVE  StartupInv'
<1>1. /\ StartupTypeOK /\ LockIsOnes /\ Reachable /\ client \in [Clients -> ClientRecord]
  BY RecordsOfTypes DEF StartupInv
<1>2. client[c].at = "mismatched" /\ UNCHANGED startFiles
  BY DEF Farewell, ClientAt
<1>3. client[c] \in ClientRecord
      /\ (client[c].won => client[c].at \in {"start", "await", "listening", "gaveUp"})
  BY <1>1 DEF LockIsOnes
<1>4. CASE Live
  <2> DEFINE with == [client[c] EXCEPT !.at = "farewell", !.to = socket]
  <2>1. Client(c, with) /\ Server(socket, [server[socket] EXCEPT !.asked[c] = "stopping"])
    BY <1>4 DEF Farewell
  <2>2. socket \in Servers /\ Serves(socket)
    BY <1>4 DEF Live
  <2>3. with \in ClientRecord /\ with.at = "farewell" /\ with.won = client[c].won
    BY <1>3, <2>2 DEF ClientRecord, ClientPhases
  <2> HIDE DEF with
  <2> QED BY <1>2, <2>1, <2>2, <2>3, AskKeeps
<1>5. CASE ~Live
  <2> DEFINE with == [client[c] EXCEPT !.at = "gone"]
  <2>1. Client(c, with) /\ UNCHANGED server
    BY <1>5 DEF Farewell, Moves
  <2>2. with \in ClientRecord /\ with.at = "gone" /\ ~with.won
    BY <1>2, <1>3 DEF ClientRecord, ClientPhases
  <2>3. "crossing" \notin past => \A t \in Servers : Serves(t) => Asked(t) # {}
    BY <1>1, <1>5 DEF Reachable, Live
  <2> HIDE DEF with
  <2> QED BY <1>2, <1>3, <2>1, <2>2, <2>3, ClientMoves
<1> QED BY <1>4, <1>5

LEMMA ClearKeeps ==
  ASSUME StartupInv, Noted, NEW c \in Clients, Clear(c)
  PROVE  StartupInv'
<1>1. StartupTypeOK /\ LockIsOnes /\ Alone /\ ClusterIsRecorded
  BY DEF StartupInv
<1>2. /\ client \in [Clients -> ClientRecord]
      /\ kills' \in Nat /\ past' \subseteq {"trouble", "crossing", "unrecorded"}
      /\ past \subseteq past' /\ CrossingIsNoted'
      /\ "trouble" \notin past' => Stopping = {}
  BY <1>1, RecordsOfTypes, PastKept
<1> DEFINE with == [client[c] EXCEPT !.at = "spawn", !.again = TRUE]
<1>3. /\ client[c].at = "gone" /\ Client(c, with) /\ socket' = NoSocket
      /\ UNCHANGED <<spawning, record, cluster, server>>
  BY DEF Clear, ClientAt
<1>4. with \in ClientRecord /\ with.at = "spawn" /\ with.won = client[c].won
  BY <1>2 DEF ClientRecord, ClientPhases
<1>5. /\ client' \in [Clients -> ClientRecord]
      /\ \A d \in Clients : client'[d] = IF d = c THEN with ELSE client[d]
  BY <1>2, <1>3, <1>4 DEF Client
<1> HIDE DEF with
<1>6. (\A s \in Servers : Asked(s)' = Asked(s)) /\ (\A s \in Servers : Serves(s)' <=> Serves(s))
      /\ Recording' = Recording /\ Settled' = Settled /\ (Up' <=> Up)
  BY <1>3 DEF Asked, Serves, ServerAt, Recording, Settled, Up
<1>7. StartupTypeOK'
  BY <1>1, <1>2, <1>3, <1>4, <1>5 DEF StartupTypeOK, ClientRecord, ClientAt
<1>8. LockIsOnes'
  BY <1>1, <1>3, <1>4, <1>5 DEF LockIsOnes, ClientAt
<1>9. StartsAreAwaited'
  BY <1>1, <1>2, <1>3, WhoStops DEF StartsAreAwaited
<1>10. "crossing" \notin past' =>
         "crossing" \notin past /\ \A t \in Servers : Serves(t) => Asked(t) # {}
  BY <1>1, <1>2, <1>3 DEF Alone
<1>11. Alone'
  BY <1>1, <1>3, <1>6, <1>10 DEF Alone
<1>12. Reachable'
  BY <1>6, <1>10 DEF Reachable
<1>13. ClusterIsRecorded'
  <2>1. past' \cap {"unrecorded", "crossing"} = {} => past \cap {"unrecorded", "crossing"} = {}
    BY <1>2
  <2> QED BY <1>1, <1>3, <1>6, <2>1 DEF ClusterIsRecorded
<1> QED BY <1>2, <1>7, <1>8, <1>9, <1>11, <1>12, <1>13 DEF StartupInv

-----------------------------------------------------------------------------
(* A server's steps.                                                          *)

LEMMA DyingKeeps ==
  ASSUME StartupInv, Noted, NEW s \in Servers, Dies(s),
         UNCHANGED <<spawning, record, cluster, client>>,
         "trouble" \notin past' => ~Serves(s),
         ServerAt(s, "recording") => past' \cap {"unrecorded", "crossing"} # {}
  PROVE  StartupInv'
<1>1. StartupTypeOK /\ LockIsOnes /\ StartsAreAwaited /\ Alone /\ Reachable /\ ClusterIsRecorded
  BY DEF StartupInv
<1>2. /\ server \in [Servers -> ServerRecord] /\ NoProcess \in ServerRecord
      /\ kills' \in Nat /\ past' \subseteq {"trouble", "crossing", "unrecorded"}
      /\ past \subseteq past' /\ CrossingIsNoted'
      /\ socket \in Servers \cup {NoSocket, Leftover} /\ Leftover \notin Servers
  BY <1>1, RecordsOfTypes, PastKept, NoneAreRecords
<1>3. /\ server' \in [Servers -> ServerRecord]
      /\ \A t \in Servers : server'[t] = IF t = s THEN NoProcess ELSE server[t]
      /\ socket' = IF socket = s THEN Leftover ELSE socket
  BY <1>2 DEF Dies, Server
<1>4. NoProcess.at = "none" /\ \A c \in Clients : NoProcess.asked[c] = "no"
  BY DEF NoProcess
<1>5. /\ \A t \in Servers : Serves(t)' <=> (t # s /\ Serves(t))
      /\ \A t \in Servers \ {s} : Asked(t)' = Asked(t)
      /\ Asked(s)' = {}
      /\ Starting' = Starting \ {s} /\ Recording' = Recording \ {s}
      /\ Settled' = Settled \ {s} /\ (Up' <=> Up)
  <2>1. \A t \in Servers : Serves(t)' <=> (t # s /\ Serves(t))
    BY <1>3, <1>4 DEF Serves, ServerAt
  <2>2. Asked(s)' = {} /\ \A t \in Servers \ {s} : Asked(t)' = Asked(t)
    BY <1>3, <1>4 DEF Asked
  <2>3. Starting' = Starting \ {s} /\ Recording' = Recording \ {s}
    BY <1>3, <1>4, <2>1 DEF Starting, Recording, Running, ServerAt
  <2>4. Settled' = Settled \ {s}
    BY <1>3, <1>4, <2>1, <2>2 DEF Settled
  <2> QED BY <2>1, <2>2, <2>3, <2>4 DEF Up
<1>6. Live' <=> (Live /\ socket # s)
  BY <1>2, <1>3, <1>5 DEF Live
<1>7. StartupTypeOK' /\ LockIsOnes'
  <2>1. StartupTypeOK'
    BY <1>1, <1>2, <1>3 DEF StartupTypeOK, ServerRecord, ClientAt
  <2> QED BY <1>1, <2>1 DEF LockIsOnes, ClientAt
<1>8. StartsAreAwaited'
  <2> SUFFICES ASSUME "trouble" \notin past'
               PROVE  IF Live THEN \A t \in Servers : server'[t].at \notin {"checked", "cleared"}
                      ELSE \A t \in Starting \ {s} : \E c \in Clients :
                        client[c].won /\ client[c].at = "await" /\ client[c].child = t
    <3>1. "trouble" \notin past' => (Live' <=> Live)
      BY <1>6 DEF Live
    <3> QED BY <1>5, <3>1 DEF StartsAreAwaited, ClientAt
  <2> QED BY <1>1, <1>2, <1>3, <1>4 DEF StartsAreAwaited, ClientAt
<1>9. Alone'
  BY <1>1, <1>2, <1>3, <1>4, <1>5 DEF Alone
<1>10. Reachable'
  BY <1>1, <1>2, <1>3, <1>5 DEF Reachable
<1>11. ClusterIsRecorded'
  <2> SUFFICES ASSUME past' \cap {"unrecorded", "crossing"} = {}
               PROVE  /\ \A t \in Settled \ {s} : Up /\ server'[t].store = cluster /\ record = cluster
                      /\ \A t \in Recording \ {s} : Up /\ server'[t].store = cluster
                      /\ Up => record = cluster \/ Recording \ {s} # {}
    BY <1>5 DEF ClusterIsRecorded
  <2>1. past \cap {"unrecorded", "crossing"} = {}
    BY <1>2
  <2>2. s \notin Recording
    BY DEF Recording
  <2>3. Settled \subseteq Servers /\ Recording \subseteq Servers
    BY DEF Settled, Recording
  <2> QED BY <1>1, <1>3, <2>1, <2>2, <2>3 DEF ClusterIsRecorded
<1> QED BY <1>2, <1>7, <1>8, <1>9, <1>10, <1>11 DEF StartupInv

\* What changes when a server that starts goes on.
LEMMA GoingOn ==
  ASSUME StartupInv, Noted, NEW s \in Starting, NEW phase \in ServerPhases \ {"none"},
         Becomes(s, phase), UNCHANGED <<spawning, client>>,
         socket' \in Servers \cup {NoSocket, Leftover}
  PROVE  /\ s \in Servers /\ s \notin {NoSocket, Leftover}
         /\ StartupTypeOK' /\ LockIsOnes' /\ CrossingIsNoted'
         /\ past \subseteq past' /\ ~Serves(s)
         /\ "trouble" \notin past' => Stopping = {}
         /\ server'[s].at = phase
         /\ \A t \in Servers \ {s} : server'[t].at = server[t].at
         /\ \A t \in Servers : server'[t].store = server[t].store
         /\ \A t \in Servers : Asked(t)' = Asked(t)
         /\ \A t \in Servers \ {s} : Serves(t)' <=> Serves(t)
         /\ Serves(s)' <=> phase = "serving"
<1>1. StartupTypeOK /\ LockIsOnes /\ s \in Servers /\ ~Serves(s)
  BY DEF StartupInv, Starting
<1>2. /\ server \in [Servers -> ServerRecord]
      /\ kills' \in Nat /\ past' \subseteq {"trouble", "crossing", "unrecorded"}
      /\ past \subseteq past' /\ CrossingIsNoted'
      /\ "trouble" \notin past' => Stopping = {}
      /\ s \notin {NoSocket, Leftover}
  BY <1>1, RecordsOfTypes, PastKept
<1> DEFINE process == [server[s] EXCEPT !.at = phase]
<1>3. /\ process \in ServerRecord /\ process.at = phase /\ process.store = server[s].store
      /\ process.asked = server[s].asked
  BY <1>1, <1>2 DEF ServerRecord
<1>4. /\ server' \in [Servers -> ServerRecord]
      /\ \A t \in Servers : server'[t] = IF t = s THEN process ELSE server[t]
  BY <1>1, <1>2, <1>3 DEF Becomes, Server
<1> HIDE DEF process
<1>5. StartupTypeOK'
  BY <1>1, <1>2, <1>4 DEF StartupTypeOK, ServerRecord, ClientAt
<1>6. LockIsOnes'
  BY <1>1 DEF LockIsOnes, ClientAt
<1>7. \A t \in Servers : Asked(t)' = Asked(t)
  BY <1>3, <1>4 DEF Asked
<1>8. (\A t \in Servers \ {s} : Serves(t)' <=> Serves(t)) /\ (Serves(s)' <=> phase = "serving")
  BY <1>1, <1>3, <1>4 DEF Serves, ServerAt
<1> QED BY <1>1, <1>2, <1>3, <1>4, <1>5, <1>6, <1>7, <1>8

\* Before its check: nobody sees it.
LEMMA OpeningKeeps ==
  ASSUME StartupInv, Noted, NEW s \in Starting, NEW phase \in {"starting", "recording", "opened"},
         Becomes(s, phase), UNCHANGED <<spawning, client, socket>>, ClusterIsRecorded'
  PROVE  StartupInv'
<1>1. /\ StartsAreAwaited /\ Alone /\ Reachable
      /\ socket \in Servers \cup {NoSocket, Leftover}
  BY RecordsOfTypes DEF StartupInv
<1>2. phase \in ServerPhases \ {"none"} /\ phase \notin {"checked", "cleared", "serving"}
  BY DEF ServerPhases
<1>3. /\ s \in Servers
      /\ StartupTypeOK' /\ LockIsOnes' /\ CrossingIsNoted'
      /\ past \subseteq past' /\ ~Serves(s)
      /\ server'[s].at = phase
      /\ \A t \in Servers \ {s} : server'[t].at = server[t].at
      /\ \A t \in Servers : Asked(t)' = Asked(t)
      /\ \A t \in Servers \ {s} : Serves(t)' <=> Serves(t)
      /\ ~Serves(s)'
  BY <1>1, <1>2, GoingOn
<1>4. (Live' <=> Live) /\ Starting' = Starting /\ \A t \in Servers : Serves(t)' <=> Serves(t)
  <2>1. \A t \in Servers : Serves(t)' <=> Serves(t)
    BY <1>3
  <2>2. s \in Starting /\ Starting' \subseteq Servers /\ Starting \subseteq Servers
    BY DEF Starting
  <2>3. s \in Starting'
    BY <1>2, <1>3 DEF Starting, Running, ServerAt
  <2>4. \A t \in Servers \ {s} : t \in Starting' <=> t \in Starting
    BY <1>3 DEF Starting, Running, ServerAt
  <2> QED BY <2>1, <2>2, <2>3, <2>4 DEF Live
<1>5. StartsAreAwaited'
  BY <1>1, <1>2, <1>3, <1>4 DEF StartsAreAwaited, ClientAt
<1>6. Alone'
  BY <1>1, <1>2, <1>3, <1>4 DEF Alone
<1>7. Reachable'
  BY <1>1, <1>3, <1>4 DEF Reachable
<1> QED BY <1>3, <1>5, <1>6, <1>7 DEF StartupInv

LEMMA InStarting ==
  ASSUME NEW s \in Servers, server[s].at \notin {"none", "serving"}
  PROVE  s \in Starting /\ ~Serves(s)
BY DEF Starting, Running, Serves, ServerAt

LEMMA OpenKeeps ==
  ASSUME StartupInv, Noted, NEW s \in Servers, OpenDatabase(s)
  PROVE  StartupInv'
<1>1. ServerAt(s, "opening") /\ UNCHANGED <<spawning, record, cluster, client>>
  BY DEF OpenDatabase
<1>2. s \in Starting /\ ~Serves(s) /\ ~ServerAt(s, "recording")
  BY <1>1, InStarting DEF ServerAt
<1>3. ClusterIsRecorded /\ StartupTypeOK /\ socket \in Servers \cup {NoSocket, Leftover}
  BY RecordsOfTypes DEF StartupInv
<1>4. CASE Dies(s)
  BY <1>1, <1>2, <1>4, DyingKeeps
<1>5. CASE \/ Up /\ record = server[s].store /\ Becomes(s, "opened") /\ UNCHANGED socket
           \/ (~Up \/ record = NoRecord) /\ Becomes(s, "starting") /\ UNCHANGED socket
  <2>1. PICK phase \in {"starting", "opened"} :
          /\ Becomes(s, phase) /\ UNCHANGED socket
          /\ phase = "opened" => Up /\ record = server[s].store
    BY <1>5
  <2>2. phase \in ServerPhases \ {"none"}
    BY DEF ServerPhases
  <2>3. /\ past \subseteq past' /\ server'[s].at = phase
        /\ \A t \in Servers \ {s} : server'[t].at = server[t].at
        /\ \A t \in Servers : server'[t].store = server[t].store
        /\ \A t \in Servers : Asked(t)' = Asked(t)
        /\ \A t \in Servers \ {s} : Serves(t)' <=> Serves(t)
        /\ ~Serves(s)'
    BY <1>1, <1>2, <1>3, <2>1, <2>2, GoingOn
  <2>4. Recording' = Recording /\ Settled' \subseteq Settled \cup {s}
        /\ (s \in Settled' => phase = "opened") /\ (Up' <=> Up)
    BY <1>1, <2>3 DEF Recording, Settled, ServerAt, Up
  <2>5. ClusterIsRecorded'
    <3> SUFFICES ASSUME past' \cap {"unrecorded", "crossing"} = {}
                 PROVE  /\ \A t \in Settled' : Up /\ server[t].store = cluster /\ record = cluster
                        /\ \A t \in Recording : Up /\ server[t].store = cluster
                        /\ Up => record = cluster \/ Recording # {}
      <4>1. Settled' \subseteq Servers /\ Recording \subseteq Servers
        BY DEF Settled, Recording
      <4> QED BY <1>1, <2>3, <2>4, <4>1 DEF ClusterIsRecorded
    <3>1. past \cap {"unrecorded", "crossing"} = {} /\ "crossing" \notin past
      BY <2>3
    <3>2. /\ \A t \in Settled : Up /\ server[t].store = cluster /\ record = cluster
          /\ \A t \in Recording : Up /\ server[t].store = cluster
          /\ Up => record = cluster \/ Recording # {}
      BY <1>3, <3>1 DEF ClusterIsRecorded
    <3>3. CASE s \in Settled'
      <4>1. Up /\ record = server[s].store
        BY <2>1, <2>4, <3>3
      <4>2. record = cluster
        <5>1. CASE Recording # {}
          <6>1. PICK t \in Recording : TRUE
            BY <5>1
          <6>2. t \in Starting /\ t # s
            BY <1>1 DEF Recording, Starting, Running, Serves, ServerAt
          <6>3. Live /\ Stopping = {}
            BY <1>2, <3>1, <6>2, Uncrossed
          <6>4. socket \in Settled
            <7>1. socket \in Servers /\ Serves(socket)
              BY <6>3 DEF Live
            <7>2. Asked(socket) = {}
              BY <6>3, <7>1 DEF Stopping
            <7> QED BY <7>1, <7>2 DEF Settled
          <6> QED BY <3>2, <6>4
        <5> QED BY <3>2, <4>1, <5>1
      <4> QED BY <2>4, <3>2, <4>1, <4>2
    <3> QED BY <2>4, <3>2, <3>3
  <2> QED BY <1>1, <1>2, <2>1, <2>5, OpeningKeeps
<1> QED BY <1>4, <1>5 DEF OpenDatabase

LEMMA StartClusterKeeps ==
  ASSUME StartupInv, Noted, NEW s \in Servers, StartCluster(s)
  PROVE  StartupInv'
<1>1. ServerAt(s, "starting") /\ UNCHANGED <<spawning, record, client>>
  BY DEF StartCluster
<1>2. s \in Starting /\ ~Serves(s) /\ ~ServerAt(s, "recording")
  BY <1>1, InStarting DEF ServerAt
<1>3. /\ ClusterIsRecorded /\ StartupTypeOK /\ socket \in Servers \cup {NoSocket, Leftover}
      /\ server[s] \in ServerRecord
  BY RecordsOfTypes DEF StartupInv
<1>4. CASE Up
  BY <1>1, <1>2, <1>4, DyingKeeps DEF StartCluster
<1>5. CASE ~Up
  <2>1. Becomes(s, "recording") /\ cluster' = server[s].store /\ UNCHANGED socket
    BY <1>5 DEF StartCluster
  <2>2. "recording" \in ServerPhases \ {"none"}
    BY DEF ServerPhases
  <2>3. /\ past \subseteq past' /\ server'[s].at = "recording"
        /\ \A t \in Servers \ {s} : server'[t].at = server[t].at
        /\ \A t \in Servers : server'[t].store = server[t].store
        /\ \A t \in Servers : Asked(t)' = Asked(t)
        /\ \A t \in Servers \ {s} : Serves(t)' <=> Serves(t)
        /\ ~Serves(s)'
    BY <1>1, <1>2, <1>3, <2>1, <2>2, GoingOn
  <2>4. Recording' = Recording \cup {s} /\ Settled' = Settled
    BY <1>1, <1>2, <2>3 DEF Recording, Settled, ServerAt
  <2>5. Up'
    BY <1>3, <2>1, StartupAssumption DEF ServerRecord, Up
  <2>6. ClusterIsRecorded'
    BY <1>3, <1>5, <2>1, <2>3, <2>4, <2>5 DEF ClusterIsRecorded
  <2> QED BY <1>1, <1>2, <2>1, <2>6, OpeningKeeps
<1> QED BY <1>4, <1>5

LEMMA RecordKeeps ==
  ASSUME StartupInv, Noted, NEW s \in Servers, RecordCluster(s)
  PROVE  StartupInv'
<1>1. /\ ServerAt(s, "recording") /\ Becomes(s, "opened") /\ record' = server[s].store
      /\ UNCHANGED <<socket, spawning, cluster, client>>
  BY DEF RecordCluster
<1>2. s \in Starting /\ s \in Recording
  BY <1>1, InStarting DEF ServerAt, Recording
<1>3. ClusterIsRecorded /\ StartupTypeOK /\ socket \in Servers \cup {NoSocket, Leftover}
  BY RecordsOfTypes DEF StartupInv
<1>4. "opened" \in ServerPhases \ {"none"}
  BY DEF ServerPhases
<1>5. /\ past \subseteq past' /\ server'[s].at = "opened"
      /\ \A t \in Servers \ {s} : server'[t].at = server[t].at
      /\ \A t \in Servers : server'[t].store = server[t].store
      /\ \A t \in Servers : Asked(t)' = Asked(t)
      /\ \A t \in Servers \ {s} : Serves(t)' <=> Serves(t)
      /\ ~Serves(s)'
  BY <1>1, <1>2, <1>3, <1>4, GoingOn
<1>6. /\ Recording' \subseteq Recording /\ Settled' = Settled \cup {s} /\ (Up' <=> Up)
      /\ Settled \subseteq Servers
  BY <1>1, <1>5 DEF Recording, Settled, ServerAt, Up
<1>7. ClusterIsRecorded'
  BY <1>1, <1>2, <1>3, <1>5, <1>6 DEF ClusterIsRecorded, Recording
<1> QED BY <1>1, <1>2, <1>7, OpeningKeeps

\* A server that goes on to its socket's path, without the cluster.
LEMMA PathKeeps ==
  ASSUME StartupInv, Noted, NEW s \in Servers, NEW phase \in {"checked", "cleared", "serving"},
         Becomes(s, phase), UNCHANGED <<spawning, record, cluster, client>>,
         server[s].at \in {"opened", "checked", "cleared"},
         socket' \in {socket, NoSocket, s},
         phase # "checked" => server[s].at \in {"checked", "cleared"},
         phase = "checked" => UNCHANGED socket,
         phase = "cleared" => socket' = NoSocket,
         phase = "serving" => socket = NoSocket /\ socket' = s,
         phase = "checked" => ~Live
  PROVE  StartupInv'
<1>1. /\ StartsAreAwaited /\ Alone /\ Reachable /\ ClusterIsRecorded /\ StartupTypeOK
      /\ LockIsOnes
      /\ socket \in Servers \cup {NoSocket, Leftover} /\ NoSocket \notin Servers
  BY RecordsOfTypes DEF StartupInv
<1>2. s \in Starting /\ ~Serves(s)
  BY InStarting
<1>3. phase \in ServerPhases \ {"none"} /\ socket' \in Servers \cup {NoSocket, Leftover}
  BY <1>1 DEF ServerPhases
<1>4. /\ StartupTypeOK' /\ LockIsOnes' /\ CrossingIsNoted'
      /\ past \subseteq past'
      /\ server'[s].at = phase
      /\ \A t \in Servers \ {s} : server'[t].at = server[t].at
      /\ \A t \in Servers : server'[t].store = server[t].store
      /\ \A t \in Servers : Asked(t)' = Asked(t)
      /\ \A t \in Servers \ {s} : Serves(t)' <=> Serves(t)
      /\ Serves(s)' <=> phase = "serving"
  BY <1>2, <1>3, GoingOn
<1>5. \A t \in Starting' : t \in Starting /\ t \in Servers
  BY <1>2, <1>4 DEF Starting, Running, ServerAt
\* Nobody serves.
<1>6. "crossing" \notin past => Starting = {s} \/ Live
  BY <1>2, Uncrossed
<1>7. "crossing" \notin past => ~Live /\ \A t \in Servers : ~Serves(t)
  <2> SUFFICES ASSUME "crossing" \notin past
               PROVE  ~Live /\ \A t \in Servers : ~Serves(t)
    OBVIOUS
  <2>1. CASE phase = "checked"
    <3>1. \A t \in Servers : Asked(t) = {}
      BY <1>2, Uncrossed DEF Stopping
    <3> QED BY <2>1, <3>1, Uncrossed
  <2>2. CASE phase # "checked"
    <3>1. \A t \in Servers : ~Serves(t)
      BY <1>1, <2>2 DEF Alone
    <3> QED BY <3>1 DEF Live
  <2> QED BY <2>1, <2>2
<1>8. "trouble" \notin past => ~Live
  <2>1. CASE phase = "checked"
    BY <2>1
  <2>2. CASE phase # "checked"
    BY <1>1, <2>2 DEF StartsAreAwaited
  <2> QED BY <2>1, <2>2
<1>9. StartsAreAwaited'
  <2> SUFFICES ASSUME "trouble" \notin past'
               PROVE  IF Live' THEN \A t \in Servers : server'[t].at \notin {"checked", "cleared"}
                      ELSE \A t \in Starting' : \E c \in Clients :
                        client[c].won /\ client[c].at = "await" /\ client[c].child = t
    BY DEF StartsAreAwaited, ClientAt
  <2>1. ~Live /\ \A t \in Starting : \E c \in Clients :
                        client[c].won /\ client[c].at = "await" /\ client[c].child = t
    BY <1>1, <1>4, <1>8 DEF StartsAreAwaited, ClientAt
  <2>2. \A t \in Starting : t = s
    BY <1>1, <1>2, <2>1 DEF LockIsOnes
  <2>3. CASE phase = "serving"
    <3>1. \A t \in Servers \ {s} : server[t].at \notin {"checked", "cleared"}
      BY <2>2, InStarting
    <3>2. Live'
      BY <1>4, <2>3 DEF Live
    <3>3. \A t \in Servers : server'[t].at \notin {"checked", "cleared"}
      BY <1>4, <2>3, <3>1
    <3> QED BY <3>2, <3>3
  <2>4. CASE phase # "serving"
    <3>1. ~Live'
      BY <1>1, <1>4, <2>1, <2>4 DEF Live
    <3> QED BY <1>5, <2>1, <3>1
  <2> QED BY <2>3, <2>4
<1>10. Alone'
  <2> SUFFICES ASSUME "crossing" \notin past'
               PROVE /\ \A t \in Servers : server'[t].at \in {"checked", "cleared"} =>
                          \A u \in Servers : ~Serves(u)'
                     /\ \A t \in Servers : Asked(t) = {}
                     /\ \A c \in Clients : client[c].at \notin {"farewell", "gone"}
    BY <1>4 DEF Alone
  <2>1. "crossing" \notin past
    BY <1>4
  <2>2. Stopping = {}
    BY <1>2, <2>1, Uncrossed
  <2>3. \A t \in Servers : server'[t].at \in {"checked", "cleared"} =>
          \A u \in Servers : ~Serves(u)'
    <3>1. CASE phase = "serving"
      <4>1. \A t \in Servers \ {s} : server[t].at \notin {"checked", "cleared"}
        BY <1>6, <1>7, <2>1, InStarting
      <4> QED BY <1>4, <3>1, <4>1
    <3>2. CASE phase # "serving"
      BY <1>4, <1>7, <2>1, <3>2
    <3> QED BY <3>1, <3>2
  <2> QED BY <2>2, <2>3 DEF Stopping, Replacing
<1>11. Reachable'
  <2> SUFFICES ASSUME "crossing" \notin past', NEW t \in Servers, Serves(t)'
               PROVE  socket' = t
    BY DEF Reachable
  <2> QED BY <1>4, <1>7
<1>12. Recording' = Recording /\ Settled' \subseteq Settled /\ Settled \subseteq Servers
       /\ Recording \subseteq Servers /\ (Up' <=> Up)
  <2>1. Recording' = Recording
    BY <1>4 DEF Recording, ServerAt
  <2>2. s \in Settled
    BY DEF Settled
  <2>3. \A t \in Servers \ {s} : t \in Settled' => t \in Settled
    BY <1>4 DEF Settled
  <2>4. Settled \subseteq Servers /\ Recording \subseteq Servers /\ Settled' \subseteq Servers
    BY DEF Settled, Recording
  <2> QED BY <2>1, <2>2, <2>3, <2>4 DEF Up
<1>13. ClusterIsRecorded'
  <2>1. past' \cap {"unrecorded", "crossing"} = {} => past \cap {"unrecorded", "crossing"} = {}
    BY <1>4
  <2> QED BY <1>1, <1>4, <1>12, <2>1 DEF ClusterIsRecorded
<1> QED BY <1>4, <1>9, <1>10, <1>11, <1>13 DEF StartupInv

LEMMA SocketKeeps ==
  ASSUME StartupInv, Noted, NEW s \in Servers, Check(s) \/ ClearPath(s) \/ Bind(s)
  PROVE  StartupInv'
<1>1. UNCHANGED <<spawning, record, cluster, client>> /\ server[s].at \in {"opened", "checked", "cleared"}
  BY DEF Check, ClearPath, Bind, ServerAt
<1>2. ~Serves(s) /\ ~ServerAt(s, "recording")
  BY <1>1, InStarting DEF ServerAt
<1>3. CASE Dies(s)
  BY <1>1, <1>2, <1>3, DyingKeeps
<1>4. CASE Check(s) /\ ~Live
  <2>1. Becomes(s, "checked") /\ UNCHANGED socket
    BY <1>4 DEF Check
  <2> QED BY <1>1, <1>4, <2>1, PathKeeps
<1>5. CASE ClearPath(s)
  <2>1. Becomes(s, "cleared") /\ socket' = NoSocket /\ server[s].at = "checked"
    BY <1>5 DEF ClearPath, ServerAt
  <2> QED BY <1>1, <2>1, PathKeeps
<1>6. CASE Bind(s) /\ socket = NoSocket
  <2>1. Becomes(s, "serving") /\ socket' = s /\ server[s].at = "cleared"
    BY <1>6 DEF Bind, ServerAt
  <2> QED BY <1>1, <1>6, <2>1, PathKeeps
<1> QED BY <1>3, <1>4, <1>5, <1>6 DEF Check, Bind

\* What a stop that was asked for does before the server exits.
LEMMA StoppingKeeps ==
  ASSUME StartupInv, Noted, NEW s \in Servers, NEW c \in Clients,
         StopCluster(s, c) \/ RemovePath(s, c)
  PROVE  StartupInv'
<1>1. /\ StartsAreAwaited /\ Alone /\ Reachable /\ ClusterIsRecorded /\ StartupTypeOK
      /\ LockIsOnes
  BY DEF StartupInv
<1>2. /\ server \in [Servers -> ServerRecord]
      /\ socket \in Servers \cup {NoSocket, Leftover} /\ NoSocket \notin Servers
      /\ kills' \in Nat /\ past' \subseteq {"trouble", "crossing", "unrecorded"}
      /\ past \subseteq past' /\ CrossingIsNoted'
      /\ "trouble" \notin past' => Stopping = {}
  BY <1>1, RecordsOfTypes, PastKept
<1>3. PICK answer \in {"answered", "removed"} :
        Server(s, [server[s] EXCEPT !.asked[c] = answer])
  BY DEF StopCluster, RemovePath
<1>4. /\ server[s].asked[c] # "no" /\ UNCHANGED <<spawning, record, client>>
      /\ socket' \in {socket, NoSocket}
      /\ cluster' \in {cluster, NoRecord} /\ (record = NoRecord => cluster' = cluster)
  BY DEF StopCluster, RemovePath
<1> DEFINE process == [server[s] EXCEPT !.asked[c] = answer]
<1>5. /\ process \in ServerRecord /\ process.at = server[s].at /\ process.store = server[s].store
      /\ \A d \in Clients : process.asked[d] = "no" <=> server[s].asked[d] = "no"
  BY <1>2, <1>4 DEF ServerRecord
<1>6. /\ server' \in [Servers -> ServerRecord]
      /\ \A t \in Servers : server'[t] = IF t = s THEN process ELSE server[t]
  BY <1>2, <1>3, <1>5 DEF Server
<1> HIDE DEF process
<1>7. \A t \in Servers : /\ server'[t].at = server[t].at /\ server'[t].store = server[t].store
                         /\ Asked(t)' = Asked(t) /\ (Serves(t)' <=> Serves(t))
  BY <1>5, <1>6 DEF Asked, Serves, ServerAt
<1>8. Stopping # {} /\ Asked(s) # {}
  BY <1>1, <1>4, WhoStops
<1>9. "crossing" \notin past => Starting = {} /\ \A t \in Servers : Serves(t) => Asked(t) # {}
  BY <1>1, <1>8, Uncrossed DEF Alone
<1>10. StartupTypeOK' /\ LockIsOnes' /\ StartsAreAwaited'
  <2>1. StartupTypeOK'
    BY <1>1, <1>2, <1>4, <1>6 DEF StartupTypeOK, ServerRecord, ClientAt
  <2>2. LockIsOnes'
    BY <1>1, <1>4 DEF LockIsOnes, ClientAt
  <2> QED BY <1>2, <1>8, <2>1, <2>2 DEF StartsAreAwaited
<1>11. Alone'
  BY <1>1, <1>2, <1>4, <1>7 DEF Alone
<1>12. Reachable'
  BY <1>2, <1>7, <1>9 DEF Reachable
<1>13. ClusterIsRecorded'
  <2> SUFFICES ASSUME past' \cap {"unrecorded", "crossing"} = {}
               PROVE  /\ Settled' = {} /\ Recording' = {}
                      /\ Up' => record = cluster'
    BY <1>4 DEF ClusterIsRecorded
  <2>1. past \cap {"unrecorded", "crossing"} = {} /\ "crossing" \notin past
    BY <1>2
  <2>2. Recording = {} /\ Settled = {}
    BY <1>9, <2>1 DEF Recording, Settled, Starting, Running, Serves, ServerAt
  <2>3. Recording' = {} /\ Settled' = {}
    BY <1>7, <2>2 DEF Recording, Settled, ServerAt
  <2>4. Up => record = cluster
    BY <1>1, <2>1, <2>2 DEF ClusterIsRecorded
  <2> QED BY <1>4, <2>3, <2>4 DEF Up
<1> QED BY <1>2, <1>10, <1>11, <1>12, <1>13 DEF StartupInv

LEMMA ExitKeeps ==
  ASSUME StartupInv, Noted, NEW s \in Servers,
         \/ \E c \in Clients : Exit(s, c)
         \/ KillServer(s) /\ kills' = kills + 1
  PROVE  StartupInv'
<1>1. StartupTypeOK
  BY DEF StartupInv
<1>2. /\ server \in [Servers -> ServerRecord] /\ kills \in Nat
      /\ past \subseteq past'
      /\ "trouble" \notin past' => kills' = kills /\ Stopping = {}
      /\ "unrecorded" \notin past' => ~(kills' > kills /\ Deadly)
  BY <1>1, RecordsOfTypes, PastKept
<1>3. Dies(s) /\ UNCHANGED <<spawning, record, cluster, client>>
  BY DEF Exit, KillServer
<1>4. CASE \E c \in Clients : Exit(s, c)
  <2>1. PICK c \in Clients : server[s].asked[c] = "removed"
    BY <1>4 DEF Exit
  <2>2. Stopping # {}
    BY <1>1, <2>1, WhoStops
  <2>3. ServerAt(s, "recording") => "crossing" \in past
    BY <2>2, Uncrossed, InStarting DEF ServerAt
  <2> QED BY <1>2, <1>3, <2>2, <2>3, DyingKeeps
<1>5. CASE kills' = kills + 1
  <2>1. "trouble" \in past' /\ kills' > kills
    BY <1>2, <1>5
  <2>2. server'[s].at = "none"
    BY <1>2, <1>3 DEF Dies, Server, NoProcess
  <2>3. ServerAt(s, "recording") => "unrecorded" \in past'
    BY <1>2, <2>1, <2>2 DEF Deadly
  <2> QED BY <1>3, <2>1, <2>3, DyingKeeps
<1> QED BY <1>4, <1>5

-----------------------------------------------------------------------------

LEMMA StartInitially == StartInit => StartupInv
<1> SUFFICES ASSUME StartInit
             PROVE  StartupInv
  OBVIOUS
<1>1. NoClient \in ClientRecord /\ NoProcess \in ServerRecord
  BY NoneAreRecords
<1>2. /\ \A c \in Clients : client[c] = NoClient
      /\ \A s \in Servers : server[s] = NoProcess
      /\ socket = NoSocket /\ spawning = FALSE /\ record = NoRecord /\ cluster = NoRecord
      /\ past = {} /\ kills = 0
  BY DEF StartInit
<1>3. NoClient.at = "idle" /\ ~NoClient.won /\ NoProcess.at = "none"
      /\ \A c \in Clients : NoProcess.asked[c] = "no"
  BY DEF NoClient, NoProcess
<1>4. StartupTypeOK
  <2>1. client \in [Clients -> ClientRecord] /\ server \in [Servers -> ServerRecord]
    BY <1>1 DEF StartInit
  <2>2. \A c \in Clients : ~ClientAt(c, "sent")
    BY <1>2, <1>3 DEF ClientAt
  <2> QED BY <1>2, <2>1, <2>2 DEF StartupTypeOK, ClientRecord, ServerRecord
<1>5. Starting = {} /\ Stopping = {} /\ ~Live /\ Recording = {} /\ Settled = {} /\ ~Up
      /\ \A s \in Servers : ~Serves(s) /\ Asked(s) = {}
  <2>1. \A s \in Servers : ~Serves(s) /\ Asked(s) = {} /\ ~Running(s)
    BY <1>2, <1>3 DEF Serves, ServerAt, Asked, Running
  <2>2. Replacing = {}
    BY <1>2, <1>3 DEF Replacing
  <2>3. Recording = {} /\ Settled = {}
    BY <1>2, <1>3 DEF Recording, Settled, Serves, ServerAt
  <2>4. ~Live
    BY <2>1 DEF Live
  <2> QED BY <1>2, <2>1, <2>2, <2>3, <2>4 DEF Starting, Stopping, Up
<1>6. ~Crossing
  BY <1>5, FS_EmptySet DEF Crossing
<1>7. LockIsOnes
  BY <1>2, <1>3 DEF LockIsOnes, ClientAt
<1>8. Alone
  BY <1>2, <1>3, <1>5 DEF Alone
<1> QED BY <1>4, <1>5, <1>6, <1>7, <1>8
        DEF StartupInv, StartsAreAwaited, CrossingIsNoted, Reachable, ClusterIsRecorded

LEMMA StartKept == StartupInv /\ [StartNext]_startVars => StartupInv'
<1> SUFFICES ASSUME StartupInv, [StartNext]_startVars
             PROVE  StartupInv'
  OBVIOUS
<1>1. CASE UNCHANGED startVars
  BY <1>1 DEF startVars, StartupInv, StartupTypeOK, LockIsOnes, StartsAreAwaited, CrossingIsNoted,
     Crossing, Alone, Reachable, ClusterIsRecorded, Live, Starting, Running, Serves, Asked,
     Replacing, Stopping, Settled, Recording, Up, ServerAt, ClientAt
<1>2. CASE StartNext
  <2>1. Noted
    BY <1>2 DEF StartNext, Noted
  <2>2. CASE \E c \in Clients : Begin(c)
    BY <2>1, <2>2, ClientAlone
  <2>3. CASE \E c \in Clients : ClientSteps(c) \/ Answer(c)
    <3>1. PICK c \in Clients : ClientSteps(c) \/ Answer(c)
      BY <2>3
    <3>2. CASE Connect(c) \/ Await(c) \/ Reconnect(c) \/ Unanswered(c) \/ FarewellOver(c)
      BY <2>1, <3>2, ClientAlone
    <3>3. CASE TakeLock(c) \/ StartFails(c) \/ Release(c)
      BY <2>1, <3>3, LockKeeps
    <3>4. CASE StartProcess(c) \/ Answer(c) \/ Farewell(c) \/ Clear(c)
      BY <2>1, <3>4, StartKeeps, AnswerKeeps, FarewellKeeps, ClearKeeps
    <3> QED BY <3>1, <3>2, <3>3, <3>4 DEF ClientSteps
  <2>4. CASE \E s \in Servers : ServerSteps(s)
    BY <2>1, <2>4, OpenKeeps, StartClusterKeeps, RecordKeeps, SocketKeeps, StoppingKeeps, ExitKeeps
       DEF ServerSteps
  <2>5. CASE Kills /\ kills' = kills + 1
    BY <2>1, <2>5, ClientAlone, ExitKeeps DEF Kills
  <2> QED BY <1>2, <2>2, <2>3, <2>4, <2>5 DEF StartNext, Works
<1> QED BY <1>1, <1>2

\* Whatever clients ask for, wait for, stop or die of, the lock, the path, the record and
\* the cluster agree as far as StartupInv says (client.rs spawn, server.rs run, database.rs
\* reusable).
THEOREM StartsAreConsistent == StartSpec => []StartupInv
<1>1. StartInit => StartupInv
  BY StartInitially
<1>2. StartupInv /\ [StartNext]_startVars => StartupInv'
  BY StartKept
<1> QED BY <1>1, <1>2, PTL DEF StartSpec

\* Without trouble one server starts at a time: the lock has everyone else wait for it, or
\* find it listening (client.rs, spawn).
THEOREM LockMakesOneStart == StartSpec => []OneStarts
<1>1. StartupInv => OneStarts
  <2> SUFFICES ASSUME StartupInv, "trouble" \notin past, ~Live
               PROVE  Cardinality(Starting) <= 1
    BY DEF OneStarts
  <2>1. StartsAreAwaited /\ LockIsOnes
    BY DEF StartupInv
  <2>2. \A s, t \in Starting : s = t
    BY <2>1 DEF StartsAreAwaited, LockIsOnes
  <2>3. Starting = {} \/ \E s : Starting = {s}
    BY <2>2
  <2>4. Cardinality({}) = 0 /\ \A s : Cardinality({s}) = 1
    BY FS_EmptySet, FS_Singleton
  <2> QED BY <2>3, <2>4
<1> QED BY <1>1, StartsAreConsistent, PTL

\* Until two starts or ends cross, a server that serves and is not being stopped is the one
\* the socket reaches (server.rs, run).
THEOREM ServersAreReached == StartSpec => []Reachable
<1>1. StartupInv => Reachable
  BY DEF StartupInv
<1> QED BY <1>1, StartsAreConsistent, PTL

\* A server serves from a cluster with the settings it was started with, unless starts
\* crossed or one died between starting its cluster and recording it (database.rs).
THEOREM ClustersAreAsSet == StartSpec => []SettingsAreHonoured
<1>1. StartupInv => SettingsAreHonoured
  <2> SUFFICES ASSUME StartupInv, NEW s \in Servers, Serves(s), Asked(s) = {},
                      server[s].store # cluster
               PROVE  past \cap {"unrecorded", "crossing"} # {}
    BY DEF SettingsAreHonoured
  <2>1. s \in Settled /\ ClusterIsRecorded
    BY DEF Settled, StartupInv
  <2> QED BY <2>1 DEF ClusterIsRecorded
<1> QED BY <1>1, StartsAreConsistent, PTL

-----------------------------------------------------------------------------
(***************************************************************************)
(* However many loads, commits and files there are, a load reads one       *)
(* commit and no entry outlives its blob: HubInv is inductive.             *)
(***************************************************************************)

Record ==
  [at : LoadPhases, revision : Revisions, pinned : Commits \cup {NoCommit},
   file : Files \cup {NoCommit}, answer : Commits \cup {NoCommit},
   commit : Revisions \cup {NoCommit}, source : Commits \cup {NoCommit},
   made : BOOLEAN, got : SUBSET Commits, astray : BOOLEAN]

\* What is so of a load's record, with these refs, entries and blobs, besides its type.
IsRight(l, r) ==
  /\ ~r.astray => r.got \subseteq {r.pinned}
  /\ r.at \notin {"closed", "open", "peeking"} => held = l
  /\ r.at \in {"removing", "unlinked"} => owned
  /\ r.answer # NoCommit => r.revision = Main
  /\ r.at \in {"downloading", "linking", "naming", "fetched"} =>
       r.commit = IF r.pinned = NoCommit THEN Main ELSE r.pinned
  /\ r.at \in {"linking", "naming", "fetched"} =>
       r.source \in Commits /\ (r.commit \in Commits => r.source = r.commit)
  /\ r.at # "closed" /\ r.at # "open" => r.file \in Files
  /\ r.at = "linking" => Content[r.source][r.file] \in blobs
  /\ r.at = "unlinked" =>
       /\ r.source \in Commits
       /\ \A entry \in entries : SaidBy(entry) # Content[r.source][r.file]

\* The invariant, of the cache and of each load.
LEMMA InvOfEach ==
  HubInv <=>
    /\ HubTypeOK /\ NothingDangles /\ CommitsNameThemselves
    /\ \A l \in Loads : IsRight(l, load[l])
BY DEF HubInv, OneCommit, CallsHoldTheLock, FetchedIsPinned, BlobsAreWaitedFor, IsRight

LEMMA NoCommitIsNone == /\ NoCommit \notin Commits /\ NoCommit # Main /\ Main \notin Commits
                        /\ Broken \notin Commits /\ Broken # NoCommit /\ Nobody \notin Loads
                        /\ Commits \subseteq Revisions /\ Main \in Revisions
BY HubAssumption DEF Revisions

LEMMA PinIsRight ==
  ASSUME HubTypeOK, NEW l \in Loads
  PROVE  /\ PinnedBy(l) \in Commits \cup {NoCommit}
         /\ load[l].pinned # NoCommit => PinnedBy(l) = load[l].pinned
         /\ PinnedBy(l) = NoCommit => load[l].revision = Main
BY NoCommitIsNone DEF HubTypeOK, PinnedBy, Pin, Revisions

\* A step of one load, after which it has the lock, somebody else has it who had it, or
\* nobody has: the others are as right as they were.
LEMMA StepKeeps ==
  ASSUME HubInv, NEW l \in Loads,
         load' = [load EXCEPT ![l] = load'[l]], load'[l] \in Record,
         refs' \in [Revisions -> Commits \cup {NoCommit, Broken}],
         CommitsNameThemselves',
         entries' \subseteq Commits \X Files, NothingDangles',
         UNCHANGED <<upstream, owned>>,
         held' \in {held, l, Nobody},
         held # l => (held = Nobody \/ held' = held) /\ UNCHANGED <<entries, blobs>>,
         IsRight(l, load[l])'
  PROVE  HubInv'
<1>1. HubTypeOK'
  BY NoCommitIsNone DEF HubInv, HubTypeOK, Record
<1>2. ASSUME NEW m \in Loads
      PROVE  IsRight(m, load[m])'
  <2>1. CASE m = l
    BY <2>1
  <2>2. CASE m # l
    <3>1. load'[m] = load[m]
      BY <2>2 DEF HubInv, HubTypeOK
    <3>2. IsRight(m, load[m])
      BY InvOfEach
    <3>3. load[m].at \notin {"closed", "open", "peeking"} => held = m
      BY <3>2 DEF IsRight
    <3>4. CASE load[m].at \in {"closed", "open", "peeking"}
      BY <3>1, <3>2, <3>4 DEF IsRight
    <3>5. CASE held = m /\ UNCHANGED <<entries, blobs, held>>
      BY <3>1, <3>2, <3>5 DEF IsRight, SaidBy
    <3> QED
      BY <2>2, <3>3, <3>4, <3>5, NoCommitIsNone
  <2> QED
    BY <2>1, <2>2
<1> QED
  BY <1>1, <1>2
  DEF HubInv, OneCommit, CallsHoldTheLock, FetchedIsPinned, BlobsAreWaitedFor, IsRight

\* What is known of a load before its step.
LEMMA Before ==
  ASSUME HubInv, NEW l \in Loads
  PROVE  /\ load \in [Loads -> Record] /\ load[l] \in Record /\ IsRight(l, load[l])
         /\ refs \in [Revisions -> Commits \cup {NoCommit, Broken}]
         /\ CommitsNameThemselves /\ NothingDangles /\ entries \subseteq Commits \X Files
         /\ upstream \in Commits /\ held \in Loads \cup {Nobody}
BY InvOfEach DEF HubTypeOK, Record

LEMMA ClosedIsRight ==
  /\ Closed \in Record
  /\ Closed.at = "closed" /\ Closed.got = {} /\ Closed.answer = NoCommit /\ ~Closed.astray
<1>1. Closed \in Record
  BY NoCommitIsNone, {} \in SUBSET Commits DEF Record, Closed, LoadPhases
<1>2. Closed.at = "closed"
  BY DEF Closed
<1>3. Closed.got = {}
  BY DEF Closed
<1>4. Closed.answer = NoCommit /\ ~Closed.astray
  BY DEF Closed
<1> QED
  BY <1>1, <1>2, <1>3, <1>4

LEMMA OpenAtKeeps ==
  ASSUME HubInv, NEW l \in Loads, NEW revision \in Revisions, OpenAt(l, revision)
  PROVE  HubInv'
<1> DEFINE r == [Closed EXCEPT !.at = "open", !.revision = revision,
                               !.pinned = Pin(revision, NoCommit)]
<1>1. Pin(revision, NoCommit) \in Commits \cup {NoCommit}
  BY Before DEF Pin
<1>2. r \in Record
  BY <1>1, ClosedIsRight DEF Record, LoadPhases
<1>3. load' = [load EXCEPT ![l] = r] /\ load'[l] = r
  BY Before DEF OpenAt, Load
<1>4. IsRight(l, load[l])'
  <2>1. load'[l].at = "open" /\ load'[l].got = {} /\ load'[l].answer = NoCommit
    <3>1. r.at = "open" /\ r.got = Closed.got /\ r.answer = Closed.answer
      BY ClosedIsRight DEF Record
    <3> QED
      BY <1>3, <3>1, ClosedIsRight
  <2> QED
    BY <2>1 DEF IsRight
<1> HIDE DEF r
<1> QED
  BY <1>2, <1>3, <1>4, Before, StepKeeps
  DEF OpenAt, CommitsNameThemselves, NothingDangles, SaidBy

\* What a call is left with when it is over: a pinned commit, and what it was given.
Rested(r) == [r EXCEPT !.at = "open", !.file = NoCommit, !.answer = NoCommit,
                       !.commit = NoCommit, !.source = NoCommit, !.made = FALSE]

LEMMA RestedIs ==
  ASSUME NEW r \in Record
  PROVE  /\ Rested(r) \in Record /\ Rested(r).at = "open" /\ Rested(r).answer = NoCommit
         /\ Rested(r).got = r.got /\ Rested(r).astray = r.astray /\ Rested(r).pinned = r.pinned
BY DEF Rested, Record, LoadPhases

LEMMA OverKeeps ==
  ASSUME HubInv, NEW l \in Loads, NEW r \in Record, Over(l, r),
         ~r.astray => r.got \subseteq {r.pinned},
         refs' \in [Revisions -> Commits \cup {NoCommit, Broken}],
         CommitsNameThemselves',
         entries' \subseteq Commits \X Files, NothingDangles',
         UNCHANGED <<upstream, owned>>,
         held # l => UNCHANGED <<entries, blobs>>
  PROVE  HubInv'
<1>1. load' = [load EXCEPT ![l] = Rested(r)] /\ LetGo(l)
  BY DEF Over, Load, Rested
<1>2. load'[l] = Rested(r)
  BY <1>1, Before
<1>3. IsRight(l, load[l])'
  BY <1>2, RestedIs DEF IsRight
<1>4. held' \in {held, l, Nobody} /\ (held # l => held' = held)
  BY <1>1 DEF LetGo
<1> QED
  BY <1>1, <1>2, <1>3, <1>4, RestedIs, StepKeeps

LEMMA GetKeeps ==
  ASSUME HubInv, NEW l \in Loads, NEW file \in Files, Get(l, file)
  PROVE  HubInv'
<1>1. PICK readOnly \in BOOLEAN :
        /\ ~readOnly => held = Nobody
        /\ held' = IF readOnly THEN held ELSE l
        /\ Load(l, [load[l] EXCEPT !.at = IF readOnly THEN "peeking" ELSE "looking",
                                   !.file = file, !.pinned = PinnedBy(l)])
  BY DEF Get
<1> DEFINE r == [load[l] EXCEPT !.at = IF readOnly THEN "peeking" ELSE "looking",
                                !.file = file, !.pinned = PinnedBy(l)]
<1>2. /\ PinnedBy(l) \in Commits \cup {NoCommit}
      /\ load[l].pinned # NoCommit => PinnedBy(l) = load[l].pinned
  BY PinIsRight DEF HubInv
<1>3. r \in Record
  <2>1. load[l] \in Record
    BY Before
  <2> QED
    BY <1>2, <2>1 DEF Record, LoadPhases
<1>4. load' = [load EXCEPT ![l] = r] /\ load'[l] = r
  BY <1>1, Before DEF Load
<1>5. IsRight(l, load[l])'
  BY <1>1, <1>2, <1>4, Before, NoCommitIsNone DEF IsRight, Record, Get
<1> HIDE DEF r
<1> QED
  BY <1>1, <1>3, <1>4, <1>5, Before, StepKeeps
  DEF Get, CommitsNameThemselves, NothingDangles, SaidBy

LEMMA LooksKeeps ==
  ASSUME HubInv, NEW l \in Loads, Looks(l)
  PROVE  HubInv'
<1> DEFINE commit == CachedAt(load[l].revision, load[l].pinned)
           given == [load[l] EXCEPT !.got = @ \cup {commit},
                                    !.astray = @ \/ load[l].pinned = NoCommit]
           r == [load[l] EXCEPT !.at = "asking"]
<1>1. /\ UNCHANGED <<refs, entries, blobs, upstream, owned>>
      /\ CommitsNameThemselves' /\ NothingDangles'
  BY Before DEF Looks, CommitsNameThemselves, NothingDangles, SaidBy
<1>2. load[l] \in Record /\ load \in [Loads -> Record]
  BY Before
<1>3. CASE IsCached(commit, load[l].file)
  <2>1. given \in Record
    BY <1>2, <1>3 DEF IsCached, Record
  <2>2. ~given.astray => given.got \subseteq {given.pinned}
    BY <1>2, Before DEF IsRight, Record, CachedAt
  <2>3. Over(l, given)
    BY <1>3 DEF Looks
  <2> HIDE DEF given
  <2> QED
    BY <1>1, <1>2, <2>1, <2>2, <2>3, Before, OverKeeps
<1>4. CASE ~IsCached(commit, load[l].file) /\ LoadAt(l, "peeking")
  <2>1. Over(l, load[l])
    BY <1>4 DEF Looks
  <2>2. ~load[l].astray => load[l].got \subseteq {load[l].pinned}
    BY Before DEF IsRight
  <2> QED
    BY <1>1, <1>2, <2>1, <2>2, Before, OverKeeps
<1>5. CASE ~IsCached(commit, load[l].file) /\ ~LoadAt(l, "peeking")
  <2>1. r \in Record
    BY <1>2 DEF Record, LoadPhases
  <2>2. load' = [load EXCEPT ![l] = r] /\ load'[l] = r /\ held' = held
    BY <1>2, <1>5 DEF Looks, Load
  <2>3. load[l].at = "looking"
    BY <1>5 DEF Looks, LoadAt
  <2>4. IsRight(l, load[l])'
    BY <1>1, <1>2, <2>2, <2>3, Before DEF IsRight, Record
  <2> HIDE DEF r
  <2> QED
    BY <1>1, <2>1, <2>2, <2>4, Before, StepKeeps
<1> QED
  BY <1>3, <1>4, <1>5

LEMMA AsksKeeps ==
  ASSUME HubInv, NEW l \in Loads, Asks(l)
  PROVE  HubInv'
<1>1. PICK answer \in {NoCommit} \cup (IF load[l].revision = Main THEN {upstream} ELSE {}) :
        Load(l, [load[l] EXCEPT !.at = "recording", !.answer = answer])
  BY DEF Asks
<1> DEFINE r == [load[l] EXCEPT !.at = "recording", !.answer = answer]
<1>2. load[l] \in Record /\ load \in [Loads -> Record] /\ upstream \in Commits
  BY Before
<1>3. r \in Record
  BY <1>2 DEF Record, LoadPhases
<1>4. load' = [load EXCEPT ![l] = r] /\ load'[l] = r
  BY <1>1, <1>2 DEF Load
<1>5. IsRight(l, load[l])'
  BY <1>2, <1>4, Before DEF Asks, LoadAt, IsRight, Record
<1> HIDE DEF r
<1> QED
  BY <1>3, <1>4, <1>5, Before, StepKeeps
  DEF Asks, CommitsNameThemselves, NothingDangles, SaidBy

LEMMA RecordsKeeps ==
  ASSUME HubInv, NEW l \in Loads, Records(l)
  PROVE  HubInv'
<1> DEFINE r == [load[l] EXCEPT !.at = "fetching"]
<1>1. load[l] \in Record /\ load \in [Loads -> Record] /\ LoadAt(l, "recording")
  BY Before DEF Records
<1>2. r \in Record
  BY <1>1 DEF Record, LoadPhases
<1>3. load' = [load EXCEPT ![l] = r] /\ load'[l] = r
  BY <1>1 DEF Records, Load
<1>4. IsRight(l, load[l])'
  BY <1>1, <1>3, Before DEF Records, LoadAt, IsRight, Record
<1>5. /\ refs' \in [Revisions -> Commits \cup {NoCommit, Broken}]
      /\ CommitsNameThemselves'
  <2>1. CASE UNCHANGED refs
    BY <2>1, Before DEF CommitsNameThemselves
  <2>2. CASE load[l].answer # NoCommit /\ refs' = [refs EXCEPT ![load[l].revision] = load[l].answer]
    <3>1. load[l].revision = Main /\ load[l].answer \in Commits
      BY <1>1, <2>2, Before DEF IsRight, Record
    <3> QED
      BY <2>2, <3>1, Before, NoCommitIsNone DEF CommitsNameThemselves
  <2> QED
    BY <2>1, <2>2 DEF Records
<1> HIDE DEF r
<1> QED
  BY <1>2, <1>3, <1>4, <1>5, Before, StepKeeps DEF Records, NothingDangles, SaidBy

LEMMA FetchesKeeps ==
  ASSUME HubInv, NEW l \in Loads, Fetches(l)
  PROVE  HubInv'
<1> DEFINE pinned == PinnedBy(l)
           commit == IF pinned = NoCommit THEN load[l].revision ELSE pinned
           r == [load[l] EXCEPT !.at = "downloading", !.pinned = pinned, !.commit = commit,
                                !.made = commit # load[l].revision /\ refs[commit] = NoCommit]
<1>1. /\ pinned \in Commits \cup {NoCommit}
      /\ load[l].pinned # NoCommit => pinned = load[l].pinned
      /\ pinned = NoCommit => load[l].revision = Main
  BY PinIsRight DEF HubInv
<1>2. load[l] \in Record /\ load \in [Loads -> Record] /\ load[l].at = "fetching"
  BY Before DEF Fetches, LoadAt
<1>3. commit \in Commits \cup {Main} /\ commit = IF pinned = NoCommit THEN Main ELSE pinned
  BY <1>1
<1>4. load' = [load EXCEPT ![l] = r] /\ load'[l] = r
  BY <1>2 DEF Fetches, Load
<1> HIDE DEF pinned, commit
<1>5. r \in Record
  BY <1>1, <1>2, <1>3, NoCommitIsNone DEF Record, LoadPhases
<1>6. IsRight(l, load[l])'
  BY <1>1, <1>2, <1>3, <1>4, Before, NoCommitIsNone DEF Fetches, IsRight, Record
<1> HIDE DEF r
<1> QED
  BY <1>4, <1>5, <1>6, Before, StepKeeps
  DEF Fetches, CommitsNameThemselves, NothingDangles, SaidBy

LEMMA DownloadsKeeps ==
  ASSUME HubInv, NEW l \in Loads, Downloads(l)
  PROVE  HubInv'
<1> DEFINE commit == load[l].commit
           file == load[l].file
           source == IF commit = Main THEN upstream ELSE commit
           found == [load[l] EXCEPT !.at = "fetched", !.source = refs[commit]]
           r == [load[l] EXCEPT !.at = "linking", !.source = source]
<1>1. /\ load[l] \in Record /\ load \in [Loads -> Record] /\ load[l].at = "downloading"
      /\ held = l /\ file \in Files
      /\ commit = IF load[l].pinned = NoCommit THEN Main ELSE load[l].pinned
  BY Before DEF Downloads, LoadAt, IsRight
<1>2. commit \in Commits \cup {Main}
  BY <1>1 DEF Record
<1>3. /\ UNCHANGED <<refs, entries, upstream, held, owned>> /\ blobs \subseteq blobs'
      /\ CommitsNameThemselves' /\ NothingDangles'
  BY Before DEF Downloads, CommitsNameThemselves, NothingDangles, SaidBy
<1>4. CASE IsCached(refs[commit], file)
  <2>1. refs[commit] \in Commits /\ (commit \in Commits => refs[commit] = commit)
    BY <1>4, Before, NoCommitIsNone DEF IsCached, CommitsNameThemselves
  <2>2. found \in Record
    BY <1>1, <2>1 DEF Record, LoadPhases
  <2>3. load' = [load EXCEPT ![l] = found] /\ load'[l] = found
    BY <1>1, <1>4 DEF Downloads, Load
  <2>4. IsRight(l, load[l])'
    BY <1>1, <1>3, <2>1, <2>3, Before DEF IsRight, Record
  <2> HIDE DEF found
  <2> QED
    BY <1>1, <1>3, <2>2, <2>3, <2>4, Before, StepKeeps
<1>5. CASE ~IsCached(refs[commit], file)
  <2>1. source \in Commits /\ (commit \in Commits => source = commit)
    BY <1>2, Before, NoCommitIsNone
  <2>2. r \in Record
    BY <1>1, <2>1 DEF Record, LoadPhases
  <2>3. /\ load' = [load EXCEPT ![l] = r] /\ load'[l] = r
        /\ Content[source][file] \in blobs'
    BY <1>1, <1>5 DEF Downloads, Load
  <2> HIDE DEF source
  <2>4. IsRight(l, load[l])'
    BY <1>1, <1>3, <2>1, <2>3, Before DEF IsRight, Record
  <2> HIDE DEF r
  <2> QED
    BY <1>1, <1>3, <2>2, <2>3, <2>4, Before, StepKeeps
<1> QED
  BY <1>4, <1>5

LEMMA LinksKeeps ==
  ASSUME HubInv, NEW l \in Loads, Links(l)
  PROVE  HubInv'
<1> DEFINE r == [load[l] EXCEPT !.at = "naming"]
<1>1. /\ load[l] \in Record /\ load \in [Loads -> Record] /\ load[l].at = "linking"
      /\ held = l /\ load[l].file \in Files /\ load[l].source \in Commits
      /\ Content[load[l].source][load[l].file] \in blobs
  BY Before DEF Links, LoadAt, IsRight
<1>2. r \in Record
  BY <1>1 DEF Record, LoadPhases
<1>3. load' = [load EXCEPT ![l] = r] /\ load'[l] = r
  BY <1>1 DEF Links, Load
<1>4. IsRight(l, load[l])'
  BY <1>1, <1>3, Before DEF Links, IsRight, Record
<1>5. entries' \subseteq Commits \X Files /\ NothingDangles'
  BY <1>1, Before DEF Links, NothingDangles, SaidBy
<1> HIDE DEF r
<1> QED
  BY <1>1, <1>2, <1>3, <1>4, <1>5, Before, StepKeeps DEF Links, CommitsNameThemselves

LEMMA NamesKeeps ==
  ASSUME HubInv, NEW l \in Loads, Names(l)
  PROVE  HubInv'
<1> DEFINE r == [load[l] EXCEPT !.at = "fetched"]
<1>1. /\ load[l] \in Record /\ load \in [Loads -> Record] /\ load[l].at = "naming"
      /\ held = l /\ load[l].source \in Commits
      /\ load[l].commit \in Commits => load[l].source = load[l].commit
  BY Before DEF Names, LoadAt, IsRight
<1>2. r \in Record
  BY <1>1 DEF Record, LoadPhases
<1>3. load' = [load EXCEPT ![l] = r] /\ load'[l] = r
  BY <1>1 DEF Names, Load
<1>4. IsRight(l, load[l])'
  BY <1>1, <1>3, Before DEF Names, IsRight, Record
<1>5. /\ refs' \in [Revisions -> Commits \cup {NoCommit, Broken}]
      /\ CommitsNameThemselves'
  BY <1>1, Before, NoCommitIsNone DEF Names, CommitsNameThemselves
<1> HIDE DEF r
<1> QED
  BY <1>1, <1>2, <1>3, <1>4, <1>5, Before, StepKeeps DEF Names, NothingDangles, SaidBy

LEMMA UnmadeKeeps ==
  ASSUME HubInv, NEW l \in Loads, Unmade(l),
         load[l].at \in {"downloading", "linking", "naming", "fetched"}
  PROVE  refs' \in [Revisions -> Commits \cup {NoCommit, Broken}] /\ CommitsNameThemselves'
<1>1. CASE load[l].made
  <2>1. refs' = [refs EXCEPT ![load[l].commit] = NoCommit]
    BY <1>1 DEF Unmade
  <2>2. refs \in [Revisions -> Commits \cup {NoCommit, Broken}] /\ Commits \subseteq Revisions
    BY Before, NoCommitIsNone
  <2>3. \A c \in Commits : refs[c] \in {c, NoCommit, Broken}
    BY Before DEF CommitsNameThemselves
  <2>4. \A c \in Revisions : refs'[c] = refs[c] \/ refs'[c] = NoCommit
    BY <2>1, <2>2
  <2>5. CommitsNameThemselves'
    BY <2>2, <2>3, <2>4 DEF CommitsNameThemselves
  <2> QED
    BY <2>1, <2>2, <2>5
<1>2. CASE ~load[l].made
  BY <1>2, Before DEF Unmade, CommitsNameThemselves
<1> QED
  BY <1>1, <1>2

LEMMA GetEndsKeeps ==
  ASSUME HubInv, NEW l \in Loads, GetEnds(l)
  PROVE  HubInv'
<1> DEFINE given == [load[l] EXCEPT !.pinned = PinFetched(l), !.got = @ \cup {load[l].source}]
<1>1. /\ load[l] \in Record /\ load \in [Loads -> Record] /\ load[l].at = "fetched"
      /\ load[l].source \in Commits
      /\ load[l].commit \in Commits => load[l].source = load[l].commit
      /\ load[l].commit = IF load[l].pinned = NoCommit THEN Main ELSE load[l].pinned
      /\ ~load[l].astray => load[l].got \subseteq {load[l].pinned}
  BY Before DEF GetEnds, LoadAt, IsRight
<1>2. PinFetched(l) \in Commits /\ (load[l].pinned # NoCommit => PinFetched(l) = load[l].pinned)
  BY <1>1 DEF PinFetched, Record
<1>3. PinFetched(l) = load[l].source
  BY <1>1 DEF PinFetched, Record
<1>4. given \in Record
  BY <1>1, <1>2 DEF Record
<1>5. ~given.astray => given.got \subseteq {given.pinned}
  <2>1. load[l].pinned = NoCommit /\ ~load[l].astray => load[l].got = {}
    BY <1>1, NoCommitIsNone DEF Record
  <2>2. /\ given.astray = load[l].astray /\ given.pinned = PinFetched(l)
        /\ given.got = load[l].got \cup {load[l].source}
    BY <1>1 DEF Record
  <2> QED
    BY <1>1, <1>2, <1>3, <2>1, <2>2
<1>6. Over(l, given) /\ Unmade(l) /\ UNCHANGED <<entries, blobs, upstream, owned>>
  BY DEF GetEnds
<1> HIDE DEF given
<1> QED
  BY <1>1, <1>4, <1>5, <1>6, Before, UnmadeKeeps, OverKeeps
  DEF NothingDangles, SaidBy

LEMMA FetchFailsKeeps ==
  ASSUME HubInv, NEW l \in Loads, FetchFails(l)
  PROVE  HubInv'
<1>1. /\ load[l] \in Record /\ load \in [Loads -> Record]
      /\ ~load[l].astray => load[l].got \subseteq {load[l].pinned}
  BY Before DEF IsRight
<1>2. /\ load[l].at \in {"downloading", "linking", "naming"}
      /\ Over(l, load[l]) /\ Unmade(l) /\ UNCHANGED <<entries, blobs, upstream, owned>>
  BY DEF FetchFails
<1> QED
  BY <1>1, <1>2, Before, UnmadeKeeps, OverKeeps DEF NothingDangles, SaidBy

LEMMA RemoveKeeps ==
  ASSUME HubInv, NEW l \in Loads, NEW file \in Files, Remove(l, file)
  PROVE  HubInv'
<1> DEFINE r == [load[l] EXCEPT !.at = "removing", !.file = file, !.pinned = PinnedBy(l)]
<1>1. /\ PinnedBy(l) \in Commits \cup {NoCommit}
      /\ load[l].pinned # NoCommit => PinnedBy(l) = load[l].pinned
  BY PinIsRight DEF HubInv
<1>2. /\ load[l] \in Record /\ load \in [Loads -> Record] /\ load[l].at = "open"
      /\ owned /\ held = Nobody /\ held' = l
      /\ UNCHANGED <<refs, entries, blobs, upstream, owned>>
  BY Before DEF Remove, LoadAt
<1>3. r \in Record
  BY <1>1, <1>2 DEF Record, LoadPhases
<1>4. load' = [load EXCEPT ![l] = r] /\ load'[l] = r
  BY <1>2 DEF Remove, Load
<1>5. IsRight(l, load[l])'
  BY <1>1, <1>2, <1>4, Before, NoCommitIsNone DEF IsRight, Record
<1> HIDE DEF r
<1> QED
  BY <1>2, <1>3, <1>4, <1>5, Before, StepKeeps
  DEF CommitsNameThemselves, NothingDangles, SaidBy

LEMMA RemovesEntryKeeps ==
  ASSUME HubInv, NEW l \in Loads, RemovesEntry(l)
  PROVE  HubInv'
<1> DEFINE commit == CachedAt(load[l].revision, load[l].pinned)
           entry == <<commit, load[l].file>>
           r == [load[l] EXCEPT !.at = "unlinked", !.source = commit]
<1>1. /\ load[l] \in Record /\ load \in [Loads -> Record] /\ load[l].at = "removing"
      /\ held = l /\ owned /\ load[l].file \in Files
      /\ ~load[l].astray => load[l].got \subseteq {load[l].pinned}
      /\ UNCHANGED <<refs, blobs, upstream, owned>> /\ CommitsNameThemselves'
  BY Before DEF RemovesEntry, LoadAt, IsRight, CommitsNameThemselves
<1>2. CASE IsCached(commit, load[l].file) /\ MayRemove(load[l].revision, entry)
  <2>1. /\ entries' = entries \ {entry} /\ load' = [load EXCEPT ![l] = r] /\ load'[l] = r
        /\ held' = held
    BY <1>1, <1>2 DEF RemovesEntry, Load
  <2>2. commit \in Commits /\ \A other \in entries' : SaidBy(other) # SaidBy(entry)
    BY <1>2, <2>1 DEF IsCached, MayRemove, ReferencedElsewhere
  <2>3. SaidBy(entry) = Content[commit][load[l].file]
    BY DEF SaidBy
  <2>4. entries' \subseteq Commits \X Files /\ NothingDangles'
    BY <1>1, <2>1, Before DEF NothingDangles, SaidBy
  <2> HIDE DEF entry, commit
  <2>5. r \in Record
    BY <1>1, <2>2 DEF Record, LoadPhases
  <2>6. /\ r.at = "unlinked" /\ r.source = commit /\ r.file = load[l].file
        /\ r.answer = load[l].answer /\ r.revision = load[l].revision
        /\ r.astray = load[l].astray /\ r.got = load[l].got /\ r.pinned = load[l].pinned
    BY <1>1 DEF Record
  <2> HIDE DEF r
  <2>7. IsRight(l, load[l])'
    BY <1>1, <2>1, <2>2, <2>3, <2>6, Before DEF IsRight, SaidBy
  <2> QED
    BY <1>1, <2>1, <2>4, <2>5, <2>7, Before, StepKeeps
<1>3. CASE ~(IsCached(commit, load[l].file) /\ MayRemove(load[l].revision, entry))
  <2>1. Over(l, load[l]) /\ UNCHANGED entries
    BY <1>3 DEF RemovesEntry
  <2> QED
    BY <1>1, <2>1, Before, OverKeeps DEF NothingDangles, SaidBy
<1> QED
  BY <1>2, <1>3

LEMMA RemovesBlobKeeps ==
  ASSUME HubInv, NEW l \in Loads, RemovesBlob(l)
  PROVE  HubInv'
<1>1. /\ load[l] \in Record /\ load \in [Loads -> Record] /\ load[l].at = "unlinked"
      /\ held = l /\ (~load[l].astray => load[l].got \subseteq {load[l].pinned})
      /\ UNCHANGED <<refs, entries, upstream, owned>> /\ CommitsNameThemselves'
      /\ Over(l, load[l])
  BY Before DEF RemovesBlob, LoadAt, IsRight, CommitsNameThemselves
<1>2. \A entry \in entries : SaidBy(entry) # Content[load[l].source][load[l].file]
  BY <1>1, Before DEF IsRight
<1>3. NothingDangles'
  BY <1>1, <1>2, Before DEF RemovesBlob, NothingDangles, SaidBy
<1> QED
  BY <1>1, <1>3, Before, OverKeeps

LEMMA EndsKeeps ==
  ASSUME HubInv, NEW l \in Loads, Ends(l)
  PROVE  HubInv'
<1>1. /\ load \in [Loads -> Record] /\ LetGo(l) /\ load[l] \in Record
      /\ UNCHANGED <<entries, blobs, upstream, owned>>
  BY Before DEF Ends
<1>2. load' = [load EXCEPT ![l] = Closed] /\ load'[l] = Closed
  BY <1>1 DEF Ends, Load
<1>3. IsRight(l, load[l])'
  BY <1>2, ClosedIsRight DEF IsRight
<1>4. refs' \in [Revisions -> Commits \cup {NoCommit, Broken}] /\ CommitsNameThemselves'
  <2>1. CASE UNCHANGED refs
    BY <2>1, Before DEF CommitsNameThemselves
  <2>2. CASE refs' = [refs EXCEPT ![load[l].commit] = Broken]
    <3>1. \A c \in Revisions : refs'[c] = refs[c] \/ refs'[c] = Broken
      BY <2>2, Before
    <3>2. CommitsNameThemselves'
      BY <3>1, Before, NoCommitIsNone DEF CommitsNameThemselves
    <3> QED
      BY <2>2, <3>2, Before
  <2> QED
    BY <2>1, <2>2 DEF Ends
<1>5. held' \in {held, l, Nobody} /\ (held # l => held' = held)
  BY <1>1 DEF LetGo
<1> QED
  BY <1>1, <1>2, <1>3, <1>4, <1>5, ClosedIsRight, Before, StepKeeps DEF NothingDangles, SaidBy

LEMMA MainMovesKeeps ==
  ASSUME HubInv, MainMoves
  PROVE  HubInv'
<1>1. upstream' \in Commits /\ UNCHANGED <<refs, entries, blobs, held, owned, load>>
  BY DEF MainMoves
<1> QED
  BY <1>1 DEF HubInv, HubTypeOK, OneCommit, NothingDangles, CallsHoldTheLock,
              CommitsNameThemselves, FetchedIsPinned, BlobsAreWaitedFor, SaidBy

\* Another tool adds an entry only where no entry is being removed.
LEMMA OthersFetchKeeps ==
  ASSUME HubInv, NEW file \in Files, OthersFetch(file)
  PROVE  HubInv'
<1>1. /\ ~owned /\ UNCHANGED <<upstream, held, owned, load>> /\ upstream \in Commits
      /\ blobs' = blobs \cup {Content[upstream][file]}
      /\ entries' = entries \cup {<<upstream, file>>}
      /\ refs' = [refs EXCEPT ![Main] = upstream]
  BY DEF OthersFetch, HubInv, HubTypeOK
<1>2. HubTypeOK'
  <2>1. refs' \in [Revisions -> Commits \cup {NoCommit, Broken}]
    BY <1>1 DEF HubInv, HubTypeOK
  <2>2. entries' \subseteq Commits \X Files
    BY <1>1 DEF HubInv, HubTypeOK
  <2> QED
    BY <1>1, <2>1, <2>2 DEF HubInv, HubTypeOK
<1>3. NothingDangles'
  BY <1>1 DEF HubInv, NothingDangles, SaidBy
<1>4. CommitsNameThemselves'
  BY <1>1, NoCommitIsNone DEF HubInv, HubTypeOK, CommitsNameThemselves
<1>5. ASSUME NEW l \in Loads
      PROVE  IsRight(l, load[l])'
  <2>1. IsRight(l, load[l]) /\ load[l].at # "unlinked" /\ load'[l] = load[l]
    BY <1>1, Before DEF IsRight
  <2> QED
    BY <1>1, <2>1 DEF IsRight
<1> QED
  BY <1>2, <1>3, <1>4, <1>5
  DEF HubInv, OneCommit, CallsHoldTheLock, FetchedIsPinned, BlobsAreWaitedFor, IsRight

-----------------------------------------------------------------------------

LEMMA HubInvStarts ==
  ASSUME HubInit
  PROVE  HubInv
<1>1. HubTypeOK
  BY ClosedIsRight DEF HubInit, HubTypeOK, Record
<1>2. NothingDangles /\ CommitsNameThemselves
  BY NoCommitIsNone DEF HubInit, NothingDangles, CommitsNameThemselves
<1>3. \A l \in Loads : IsRight(l, load[l])
  BY ClosedIsRight DEF HubInit, IsRight
<1> QED
  BY <1>1, <1>2, <1>3, InvOfEach

LEMMA HubInvKept == HubInv /\ [HubNext]_hubVars => HubInv'
<1> SUFFICES ASSUME HubInv, [HubNext]_hubVars
             PROVE  HubInv'
  OBVIOUS
<1>1. ASSUME NEW l \in Loads, NEW r \in Revisions, OpenAt(l, r)
      PROVE  HubInv'
  BY <1>1, OpenAtKeeps
<1>2. ASSUME NEW l \in Loads, Gets(l)
      PROVE  HubInv'
  BY <1>2, GetKeeps, LooksKeeps, AsksKeeps, RecordsKeeps, FetchesKeeps, DownloadsKeeps,
     LinksKeeps, NamesKeeps, GetEndsKeeps, FetchFailsKeeps DEF Gets
<1>3. ASSUME NEW l \in Loads, Removes(l)
      PROVE  HubInv'
  BY <1>3, RemoveKeeps, RemovesEntryKeeps, RemovesBlobKeeps DEF Removes
<1>4. ASSUME NEW l \in Loads, Ends(l)
      PROVE  HubInv'
  BY <1>4, EndsKeeps
<1>5. CASE MainMoves
  BY <1>5, MainMovesKeeps
<1>6. ASSUME NEW file \in Files, OthersFetch(file)
      PROVE  HubInv'
  BY <1>6, OthersFetchKeeps
<1>7. CASE UNCHANGED hubVars
  BY <1>7 DEF hubVars, HubInv, HubTypeOK, OneCommit, NothingDangles, CallsHoldTheLock,
              CommitsNameThemselves, FetchedIsPinned, BlobsAreWaitedFor, SaidBy
<1> QED
  BY <1>1, <1>2, <1>3, <1>4, <1>5, <1>6, <1>7 DEF HubNext

\* However many processes load from one directory, of however many commits: whoever
\* changes it has the lock (snapshot_lock, crates/index/src/hub.rs), and the others are
\* left as right as they were.
THEOREM HubIsConsistent == HubSpec => []HubInv
<1> QED
  BY HubInvStarts, HubInvKept, PTL DEF HubSpec

\* Every file a load is given is of the commit it has pinned, unless it found one in the
\* cache by a ref it did not pin (crates/index/src/hub.rs:11-18, 256-260).
THEOREM LoadsAreOfOneCommit == HubSpec => []OneCommit
<1>1. HubInv => OneCommit
  BY DEF HubInv
<1> QED
  BY <1>1, HubIsConsistent, PTL

\* remove_cached takes a blob only when no entry of any snapshot links to it any more, and
\* a fetch links only to one that is there (crates/index/src/hub.rs:337-351, 371-373).
THEOREM NothingIsLeftDangling == HubSpec => []NothingDangles
<1>1. HubInv => NothingDangles
  BY DEF HubInv
<1> QED
  BY <1>1, HubIsConsistent, PTL

=============================================================================
