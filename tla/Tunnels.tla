------------------------------ MODULE Tunnels ------------------------------
(***************************************************************************)
(* Requests through SSH tunnels, and the trust file they share: each opens  *)
(* a socket of its own to the jump host, and the key that the host presents *)
(* is checked against known_hosts and learned on first use, under a file    *)
(* lock shared by all requests, generations and processes.                  *)
(* Source: internal/sshtunnel/client.go and trust.go.                       *)
(*                                                                         *)
(* The system and the machine may fail at any point: a file operation, a    *)
(* process, or the power, which leaves on disk any directory entry written  *)
(* since the last sync of the directory.                                    *)
(***************************************************************************)
CONSTANTS
    Requests,      \* requests at a time
    Processes,     \* overlapping processes on one data volume
    Process,       \* the process of a request
    Hosts,         \* jump hosts
    Keys,          \* host keys
    Presents,      \* the keys that answer under a host's address
    Revoked,       \* keys marked @revoked in the trust file
    Certificates,  \* keys that are certificates
    Entered,       \* lines that the operator put into the file
    NULL

ASSUME TunnelsAssumption ==
    /\ Process \in [Requests -> Processes]
    /\ Presents \in [Hosts -> SUBSET Keys]
    /\ Entered \subseteq Hosts \X Keys
    /\ NULL \notin Requests

VARIABLES
    file,      \* the lines of known_hosts, pairs of host and key
    disk,      \* the contents it may have after a power failure
    lock,      \* the request that holds known_hosts.lock
    request,   \* what a request does
    accepted,  \* lines on which acceptNew said yes
    doubtful   \* lines whose rename was not followed by its sync

tunnelVars == <<file, disk, lock, request, accepted, doubtful>>

Line == Hosts \X Keys
PC == {"idle", "lock", "read", "write", "rename", "sync", "connect", "open"}
Locked == {"read", "write", "rename", "sync"}

(* over: its context is done, because it was cancelled, ran out of time or  *)
(* its response was consumed. open: its socket to the jump host is open.    *)
(* data: what it is about to write.                                         *)
Request ==
    [pc : PC, host : Hosts \cup {NULL}, key : Keys \cup {NULL},
     over : BOOLEAN, open : BOOLEAN, data : SUBSET Line]
Idle == [pc |-> "idle", host |-> NULL, key |-> NULL, over |-> FALSE, open |-> FALSE, data |-> {}]

LineOf(r) == <<request[r].host, request[r].key>>
At(r, pc) == request[r].pc = pc
Goto(r, pc) == request' = [request EXCEPT ![r].pc = pc]

TunnelsInit ==
    /\ file = Entered /\ disk = {Entered}
    /\ lock = NULL
    /\ request = [r \in Requests |-> Idle]
    /\ accepted = {} /\ doubtful = {}

-----------------------------------------------------------------------------
(* The socket. *)

(* dial: the socket opens and the handshake presents a key.                 *)
Dial(r, h, k) ==
    /\ At(r, "idle")
    /\ k \in Presents[h]
    /\ request' = [request EXCEPT ![r] = [Idle EXCEPT !.pc = "lock", !.host = h, !.key = k,
                                                      !.open = TRUE]]
    /\ UNCHANGED <<file, disk, lock, accepted, doubtful>>

(* A caller gives up, a timeout fires, or the response is consumed.         *)
Over(r) ==
    /\ ~At(r, "idle") /\ ~request[r].over
    /\ request' = [request EXCEPT ![r].over = TRUE]
    /\ UNCHANGED <<file, disk, lock, accepted, doubtful>>

(* context.AfterFunc closes the socket under the dial that still runs.      *)
CloseRaw(r) ==
    /\ request[r].over /\ request[r].open
    /\ request' = [request EXCEPT ![r].open = FALSE]
    /\ UNCHANGED <<file, disk, lock, accepted, doubtful>>

(* dial returns an error, or the connection is closed: deferred calls close *)
(* the socket and give the lock back.                                       *)
Ends(r) ==
    /\ request' = [request EXCEPT ![r] = Idle]
    /\ lock' = IF lock = r THEN NULL ELSE lock

(* The rest of the handshake and the forwarding channel. Whatever state the *)
(* context is in, they succeed only over an open socket.                    *)
Connect(r) ==
    /\ At(r, "connect") /\ request[r].open
    /\ Goto(r, "open")
    /\ UNCHANGED <<file, disk, lock, accepted, doubtful>>

(* The jump host refuses the login or the channel.                          *)
ConnectRefused(r) ==
    /\ At(r, "connect")
    /\ Ends(r)
    /\ UNCHANGED <<file, disk, accepted, doubtful>>

(* A read from a closed socket fails, and a request that is over closes its *)
(* connection.                                                              *)
ConnectionLost(r) ==
    /\ At(r, "connect") /\ ~request[r].open
    /\ Ends(r)
    /\ UNCHANGED <<file, disk, accepted, doubtful>>
Close(r) ==
    /\ At(r, "open") /\ request[r].over
    /\ Ends(r)
    /\ UNCHANGED <<file, disk, accepted, doubtful>>

-----------------------------------------------------------------------------
(* acceptNew. *)

(* Every 10 ms a request looks at its context and tries to lock.            *)
Lock(r) ==
    /\ At(r, "lock") /\ ~request[r].over
    /\ lock = NULL
    /\ lock' = r
    /\ Goto(r, "read")
    /\ UNCHANGED <<file, disk, accepted, doubtful>>
LockGivenUp(r) ==
    /\ At(r, "lock") /\ request[r].over
    /\ Ends(r)
    /\ UNCHANGED <<file, disk, accepted, doubtful>>

(* The callback of knownhosts. External.                                    *)
Verdict(h, k) ==
    IF k \in Revoked THEN "refused"
    ELSE IF <<h, k>> \in file THEN "accepted"
    ELSE IF \E other \in Keys : <<h, other>> \in file THEN "refused"
    ELSE "unknown"

Accept(r) ==
    /\ lock' = IF lock = r THEN NULL ELSE lock
    /\ Goto(r, "connect")
    /\ accepted' = accepted \cup {LineOf(r)}

ReadKnown(r) ==
    /\ At(r, "read")
    /\ Verdict(request[r].host, request[r].key) = "accepted"
    /\ Accept(r)
    /\ UNCHANGED <<file, disk, doubtful>>
ReadRefused(r) ==
    /\ At(r, "read")
    /\ LET v == Verdict(request[r].host, request[r].key) IN
       v = "refused" \/ (v = "unknown" /\ request[r].key \in Certificates)
    /\ Ends(r)
    /\ UNCHANGED <<file, disk, accepted, doubtful>>
(* Mutant: a changed key is learned beside the one that is known.           *)
ReadChanged(r) ==
    /\ At(r, "read")
    /\ Verdict(request[r].host, request[r].key) # "accepted"
    /\ request[r].key \notin Certificates
    /\ request' = [request EXCEPT ![r].pc = "write", ![r].data = file \cup {LineOf(r)}]
    /\ UNCHANGED <<file, disk, lock, accepted, doubtful>>
ReadUnknown(r) ==
    /\ At(r, "read")
    /\ Verdict(request[r].host, request[r].key) = "unknown"
    /\ request[r].key \notin Certificates
    /\ request' = [request EXCEPT ![r].pc = "write", ![r].data = file \cup {LineOf(r)}]
    /\ UNCHANGED <<file, disk, lock, accepted, doubtful>>

(* The new contents, written to a temporary file and synced.                *)
WriteTemp(r) ==
    /\ At(r, "write")
    /\ Goto(r, "rename")
    /\ UNCHANGED <<file, disk, lock, accepted, doubtful>>

Rename(r) ==
    /\ At(r, "rename") /\ ~request[r].over
    /\ file' = request[r].data
    /\ disk' = disk \cup {request[r].data}
    /\ request' = [request EXCEPT ![r].pc = "sync", ![r].data = {}]
    /\ UNCHANGED <<lock, accepted, doubtful>>
RenameGivenUp(r) ==
    /\ At(r, "rename") /\ request[r].over
    /\ Ends(r)
    /\ UNCHANGED <<file, disk, accepted, doubtful>>

(* Mutant: the key is accepted before the directory is synced.              *)
SyncLater(r) ==
    /\ At(r, "sync")
    /\ Accept(r)
    /\ UNCHANGED <<file, disk, doubtful>>
SyncDir(r) ==
    /\ At(r, "sync")
    /\ disk' = {file}
    /\ doubtful' = doubtful \ file
    /\ Accept(r)
    /\ UNCHANGED file

-----------------------------------------------------------------------------
(* Failures. *)

Unsynced(R) == {LineOf(r) : r \in {r \in R : At(r, "sync")}}

(* Reading, writing, renaming or syncing fails.                             *)
FileFails(r) ==
    /\ request[r].pc \in Locked
    /\ Ends(r)
    /\ doubtful' = doubtful \cup Unsynced({r})
    /\ UNCHANGED <<file, disk, accepted>>

(* A process is killed: its sockets and its lock go with it.                *)
Kill(p) ==
    LET R == {r \in Requests : Process[r] = p} IN
    /\ \E r \in R : ~At(r, "idle")
    /\ request' = [r \in Requests |-> IF r \in R THEN Idle ELSE request[r]]
    /\ lock' = IF lock \in R THEN NULL ELSE lock
    /\ doubtful' = doubtful \cup Unsynced(R)
    /\ UNCHANGED <<file, disk, accepted>>

PowerFails ==
    /\ disk # {file} \/ \E r \in Requests : ~At(r, "idle")
    /\ \E c \in disk : file' = c /\ disk' = {c}
    /\ request' = [r \in Requests |-> Idle]
    /\ lock' = NULL
    /\ doubtful' = doubtful \cup Unsynced(Requests)
    /\ UNCHANGED accepted

-----------------------------------------------------------------------------
(* What a request does after it dialled.                                    *)
Proceeds(r) ==
    \/ CloseRaw(r)
    \/ ConnectionLost(r) \/ Close(r)
    \/ Lock(r) \/ LockGivenUp(r)
    \/ ReadKnown(r) \/ ReadRefused(r) \/ ReadUnknown(r)
    \/ WriteTemp(r) \/ Rename(r) \/ RenameGivenUp(r) \/ SyncDir(r)

TunnelStep ==
    \/ \E r \in Requests :
          \/ Over(r) \/ Connect(r) \/ ConnectRefused(r) \/ FileFails(r)
          \/ Proceeds(r)
    \/ \E p \in Processes : Kill(p)
    \/ PowerFails

TunnelsNext == TunnelStep \/ \E r \in Requests, h \in Hosts, k \in Keys : Dial(r, h, k)

TunnelsSpec == TunnelsInit /\ [][TunnelsNext]_tunnelVars

-----------------------------------------------------------------------------
TunnelsTypeOK ==
    /\ file \in SUBSET Line /\ disk \in SUBSET (SUBSET Line)
    /\ lock \in Requests \cup {NULL}
    /\ request \in [Requests -> Request]
    /\ accepted \in SUBSET Line /\ doubtful \in SUBSET Line

(* A key that was accepted is in the trust file and stays there through     *)
(* cancelled requests, failed writes, killed processes and power failures,  *)
(* unless its rename was never followed by a sync of the directory.         *)
AcceptedIsRecorded ==
    \A l \in accepted \ doubtful : l \in file /\ \A c \in disk : l \in c

(* Two keys are never accepted for one host, whichever requests race to be  *)
(* first, unless the operator entered them or the first was lost as above.  *)
FirstKeyIsKept ==
    \A h \in Hosts, k1, k2 \in Keys :
        /\ <<h, k1>> \in accepted \ doubtful /\ <<h, k2>> \in accepted \ doubtful
        /\ ~ {<<h, k1>>, <<h, k2>>} \subseteq Entered
        => k1 = k2
=============================================================================
