--------------------------- MODULE TunnelsProofs ---------------------------
(***************************************************************************)
(* Proofs about the trust file, for any number of requests, processes,      *)
(* hosts and keys, and any number of failures.                              *)
(***************************************************************************)
EXTENDS Tunnels, TLAPS

(* The requests inside the lock are its holder.                             *)
LockHeld == \A r \in Requests : request[r].pc \in Locked => lock = r

(* A request that is not idle knows its host and the key it presented.      *)
Dialled == \A r \in Requests : request[r].pc # "idle" => LineOf(r) \in Line

(* What is about to be written is the file and a line for a host without one. *)
Writing ==
    \A r \in Requests : request[r].pc \in {"write", "rename"} =>
        /\ request[r].data = file \cup {LineOf(r)}
        /\ \A k \in Keys : <<request[r].host, k>> \notin file

(* The file holds what the operator entered and one key for any other host. *)
OneKey ==
    \A h \in Hosts, k1, k2 \in Keys :
        /\ <<h, k1>> \in file /\ <<h, k2>> \in file
        /\ ~ {<<h, k1>>, <<h, k2>>} \subseteq Entered
        => k1 = k2

(* What may be on disk lacks of the file only lines whose sync failed, and  *)
(* the line of a request that has yet to sync.                              *)
OnDisk ==
    \A c \in disk :
        /\ c \subseteq file
        /\ \A l \in file : l \in c \/ l \in doubtful \/ l \in Unsynced(Requests)

(* The line that a request has yet to sync is in the file.                  *)
SyncNew == \A r \in Requests : At(r, "sync") => LineOf(r) \in file

IInv ==
    /\ TunnelsTypeOK /\ LockHeld /\ Dialled /\ Writing /\ SyncNew /\ OneKey
    /\ OnDisk /\ AcceptedIsRecorded

-----------------------------------------------------------------------------
(* Lemmas on the frames of the actions. *)

(* A step that leaves the file and its history alone, and takes no request  *)
(* to or from a place inside the lock.                                      *)
LEMMA QuietStep ==
    ASSUME IInv, request' \in [Requests -> Request], lock' \in Requests \cup {NULL},
           UNCHANGED <<file, disk, accepted, doubtful>>,
           \A q \in Requests : request'[q].pc \in Locked =>
               /\ lock' = q
               /\ request'[q].pc = request[q].pc
               /\ request'[q].data = request[q].data,
           \A q \in Requests : request'[q].pc # "idle" =>
               request'[q].host \in Hosts /\ request'[q].key \in Keys,
           \A q \in Requests : request'[q].pc \in Locked =>
               request'[q].host = request[q].host /\ request'[q].key = request[q].key,
           \A q \in Requests : At(q, "sync") =>
               /\ request'[q].pc = "sync"
               /\ request'[q].host = request[q].host /\ request'[q].key = request[q].key
    PROVE  IInv'
<1>1. TunnelsTypeOK'
  BY DEF IInv, TunnelsTypeOK
<1>2. LockHeld'
  BY DEF LockHeld
<1>3. Dialled'
  BY DEF Dialled, LineOf, Line
<1>4. Writing'
  BY DEF IInv, Writing, LineOf, Locked
<1>5. SyncNew'
  BY DEF IInv, SyncNew, LineOf, At, Locked
<1>6. OneKey'
  BY DEF IInv, OneKey
<1>7. OnDisk'
  <2>1. Unsynced(Requests) \subseteq Unsynced(Requests)'
    BY DEF Unsynced, At, LineOf
  <2>. QED  BY <2>1 DEF IInv, OnDisk
<1>8. AcceptedIsRecorded'
  BY DEF IInv, AcceptedIsRecorded
<1>. QED  BY <1>1, <1>2, <1>3, <1>4, <1>5, <1>6, <1>7, <1>8 DEF IInv

-----------------------------------------------------------------------------
(* A record of one request is replaced or changed.                          *)
LEMMA ReplaceRequest ==
    ASSUME TunnelsTypeOK, NEW r \in Requests, NEW x \in Request,
           request' = [request EXCEPT ![r] = x]
    PROVE  /\ request' \in [Requests -> Request]
           /\ request'[r] = x
           /\ \A q \in Requests \ {r} : request'[q] = request[q]
BY DEF TunnelsTypeOK

LEMMA IdleType == Idle \in Request /\ Idle.pc = "idle"
BY DEF Idle, Request, PC

(* A request moves on.                                                      *)
LEMMA GotoStep ==
    ASSUME TunnelsTypeOK, NEW r \in Requests, NEW pc \in PC, Goto(r, pc)
    PROVE  /\ request' \in [Requests -> Request]
           /\ request'[r] = [request[r] EXCEPT !.pc = pc]
           /\ \A q \in Requests \ {r} : request'[q] = request[q]
BY DEF TunnelsTypeOK, Goto, Request

(* A request that ends outside the sync leaves the invariant alone.         *)
LEMMA EndsStep ==
    ASSUME IInv, NEW r \in Requests, ~At(r, "sync"), Ends(r),
           UNCHANGED <<file, disk, accepted, doubtful>>
    PROVE  IInv'
<1>1. /\ request' \in [Requests -> Request]
      /\ request'[r] = Idle
      /\ \A q \in Requests \ {r} : request'[q] = request[q]
  BY ReplaceRequest, IdleType DEF Ends, IInv
<1>2. lock' \in Requests \cup {NULL}
  BY DEF Ends, IInv, TunnelsTypeOK
<1>3. \A q \in Requests : request'[q].pc \in Locked =>
          /\ lock' = q
          /\ request'[q].pc = request[q].pc
          /\ request'[q].data = request[q].data
          /\ request'[q].host = request[q].host /\ request'[q].key = request[q].key
  BY <1>1, IdleType DEF Ends, IInv, LockHeld, Locked
<1>4. \A q \in Requests : request'[q].pc # "idle" =>
          request'[q].host \in Hosts /\ request'[q].key \in Keys
  BY <1>1, IdleType DEF IInv, Dialled, LineOf, Line
<1>5. \A q \in Requests : At(q, "sync") =>
          /\ request'[q].pc = "sync"
          /\ request'[q].host = request[q].host /\ request'[q].key = request[q].key
  BY <1>1 DEF At
<1>. QED  BY <1>1, <1>2, <1>3, <1>4, <1>5, QuietStep

(* So does one that moves between two places outside the sync.              *)
LEMMA QuietMove ==
    ASSUME IInv, NEW r \in Requests, NEW x \in Request,
           request' = [request EXCEPT ![r] = x],
           x.pc \notin Locked, ~At(r, "sync"),
           x.host \in Hosts, x.key \in Keys,
           lock' = lock \/ lock' = IF lock = r THEN NULL ELSE lock,
           UNCHANGED <<file, disk, accepted, doubtful>>
    PROVE  IInv'
<1>1. /\ request' \in [Requests -> Request]
      /\ request'[r] = x
      /\ \A q \in Requests \ {r} : request'[q] = request[q]
  BY ReplaceRequest DEF IInv
<1>2. lock' \in Requests \cup {NULL}
  BY DEF IInv, TunnelsTypeOK
<1>3. \A q \in Requests : request'[q].pc \in Locked =>
          /\ lock' = q
          /\ request'[q].pc = request[q].pc
          /\ request'[q].data = request[q].data
          /\ request'[q].host = request[q].host /\ request'[q].key = request[q].key
  BY <1>1 DEF IInv, LockHeld
<1>4. \A q \in Requests : request'[q].pc # "idle" =>
          request'[q].host \in Hosts /\ request'[q].key \in Keys
  BY <1>1 DEF IInv, Dialled, LineOf, Line
<1>5. \A q \in Requests : At(q, "sync") =>
          /\ request'[q].pc = "sync"
          /\ request'[q].host = request[q].host /\ request'[q].key = request[q].key
  BY <1>1 DEF At
<1>. QED  BY <1>1, <1>2, <1>3, <1>4, <1>5, QuietStep

(* A change of the flags of a request.                                      *)
LEMMA FlagStep ==
    ASSUME IInv, NEW r \in Requests, NEW x \in Request,
           request' = [request EXCEPT ![r] = x],
           x.pc = request[r].pc, x.host = request[r].host, x.key = request[r].key,
           x.data = request[r].data,
           UNCHANGED <<file, disk, lock, accepted, doubtful>>
    PROVE  IInv'
<1>1. /\ request' \in [Requests -> Request]
      /\ request'[r] = x
      /\ \A q \in Requests \ {r} : request'[q] = request[q]
  BY ReplaceRequest DEF IInv
<1>2. \A q \in Requests : /\ request'[q].pc = request[q].pc /\ request'[q].host = request[q].host
                          /\ request'[q].key = request[q].key /\ request'[q].data = request[q].data
  BY <1>1
<1>3. lock' \in Requests \cup {NULL}
  BY DEF IInv, TunnelsTypeOK
<1>4. \A q \in Requests : request'[q].pc \in Locked => lock' = q
  BY <1>2 DEF IInv, LockHeld
<1>5. \A q \in Requests : request'[q].pc # "idle" =>
          request'[q].host \in Hosts /\ request'[q].key \in Keys
  BY <1>2 DEF IInv, Dialled, LineOf, Line
<1>. QED  BY <1>1, <1>2, <1>3, <1>4, <1>5, QuietStep DEF At

-----------------------------------------------------------------------------
(* The steps inside the lock. *)

LEMMA InitStep == TunnelsInit => IInv
<1> SUFFICES ASSUME TunnelsInit PROVE IInv
  OBVIOUS
<1>1. \A r \in Requests : request[r] = Idle
  BY DEF TunnelsInit
<1>2. TunnelsTypeOK
  BY IdleType, TunnelsAssumption DEF TunnelsInit, TunnelsTypeOK, Line
<1>3. LockHeld /\ Dialled /\ Writing /\ SyncNew
  BY <1>1, IdleType DEF LockHeld, Dialled, Writing, SyncNew, At, Locked
<1>4. OneKey /\ OnDisk /\ AcceptedIsRecorded
  BY DEF TunnelsInit, OneKey, OnDisk, AcceptedIsRecorded
<1>. QED  BY <1>2, <1>3, <1>4 DEF IInv

LEMMA LockStep ==
    ASSUME IInv, NEW r \in Requests, Lock(r)
    PROVE  IInv'
<1>1. /\ request' \in [Requests -> Request]
      /\ request'[r] = [request[r] EXCEPT !.pc = "read"]
      /\ \A q \in Requests \ {r} : request'[q] = request[q]
  BY GotoStep DEF Lock, IInv, PC
<1>2. \A q \in Requests : request[q].pc \notin Locked
  BY TunnelsAssumption DEF Lock, IInv, LockHeld
<1>3. /\ request'[r].pc = "read" /\ request'[r].host = request[r].host
      /\ request'[r].key = request[r].key
  BY <1>1 DEF IInv, TunnelsTypeOK, Request
<1>4. TunnelsTypeOK'
  BY <1>1 DEF Lock, IInv, TunnelsTypeOK
<1>5. LockHeld'
  BY <1>1, <1>2 DEF Lock, LockHeld
<1>6. Dialled'
  BY <1>1, <1>3 DEF Lock, IInv, Dialled, LineOf, At
<1>7. Writing' /\ SyncNew'
  BY <1>1, <1>2, <1>3 DEF Writing, SyncNew, At, Locked
<1>8. OneKey' /\ AcceptedIsRecorded'
  BY DEF Lock, IInv, OneKey, AcceptedIsRecorded
<1>9. OnDisk'
  <2>1. Unsynced(Requests) = {}
    BY <1>2 DEF Unsynced, At, Locked
  <2>. QED  BY <2>1 DEF Lock, IInv, OnDisk
<1>. QED  BY <1>4, <1>5, <1>6, <1>7, <1>8, <1>9 DEF IInv

(* No other request has yet to sync while one holds the lock.               *)
LEMMA SyncIsHolder ==
    ASSUME IInv, NEW r \in Requests, request[r].pc \in Locked
    PROVE  /\ \A q \in Requests \ {r} : request[q].pc \notin Locked
           /\ ~At(r, "sync") => Unsynced(Requests) = {}
           /\ At(r, "sync") => Unsynced(Requests) = {LineOf(r)}
<1>1. \A q \in Requests \ {r} : request[q].pc \notin Locked
  BY DEF IInv, LockHeld
<1>2. \A q \in Requests \ {r} : ~At(q, "sync")
  BY <1>1 DEF At, Locked
<1>. QED  BY <1>1, <1>2 DEF Unsynced

(* acceptNew says yes: to a line of the file, which is on disk or doubtful, *)
(* or to the line that was synced.                                          *)
LEMMA AcceptStep ==
    ASSUME IInv, NEW r \in Requests, request[r].pc \in Locked,
           Accept(r), UNCHANGED file, disk' \in SUBSET (SUBSET Line),
           doubtful' \in SUBSET Line,
           LineOf(r) \in file,
           \A c \in disk' : c \subseteq file /\ \A l \in file : l \in c \/ l \in doubtful',
           \A l \in doubtful : l \in doubtful' \/ l \in file
    PROVE  IInv'
<1>1. /\ request' \in [Requests -> Request]
      /\ request'[r] = [request[r] EXCEPT !.pc = "connect"]
      /\ \A q \in Requests \ {r} : request'[q] = request[q]
  BY GotoStep DEF Accept, IInv, PC
<1>2. /\ request'[r].pc = "connect" /\ request'[r].host = request[r].host
      /\ request'[r].key = request[r].key
  BY <1>1 DEF IInv, TunnelsTypeOK, Request
<1>3. \A q \in Requests : request'[q].pc \notin Locked
  BY <1>1, <1>2, SyncIsHolder DEF Locked
<1>4. LineOf(r) \in Line
  BY DEF IInv, Dialled, Locked
<1>5. TunnelsTypeOK'
  BY <1>1, <1>4 DEF Accept, IInv, TunnelsTypeOK
<1>6. LockHeld' /\ Writing' /\ SyncNew'
  BY <1>3 DEF LockHeld, Writing, SyncNew, At, Locked
<1>7. Dialled'
  BY <1>1, <1>2, <1>4 DEF IInv, Dialled, LineOf
<1>8. OneKey' /\ OnDisk'
  BY DEF IInv, OneKey, OnDisk
<1>9. AcceptedIsRecorded'
  <2> SUFFICES ASSUME NEW l \in accepted', l \notin doubtful' PROVE l \in file
    BY DEF AcceptedIsRecorded
  <2>1. CASE l \in accepted
    BY <2>1 DEF IInv, AcceptedIsRecorded
  <2>2. CASE l = LineOf(r)
    BY <2>2
  <2>. QED  BY <2>1, <2>2 DEF Accept
<1>. QED  BY <1>5, <1>6, <1>7, <1>8, <1>9 DEF IInv

LEMMA ReadKnownStep ==
    ASSUME IInv, NEW r \in Requests, ReadKnown(r)
    PROVE  IInv'
<1>1. request[r].pc \in Locked /\ ~At(r, "sync")
  BY DEF ReadKnown, At, Locked
<1>2. LineOf(r) \in file
  BY DEF ReadKnown, Verdict, LineOf
<1>3. \A c \in disk : c \subseteq file /\ \A l \in file : l \in c \/ l \in doubtful
  BY <1>1, SyncIsHolder DEF IInv, OnDisk
<1>. QED  BY <1>1, <1>2, <1>3, AcceptStep DEF ReadKnown, IInv, TunnelsTypeOK

LEMMA SyncDirStep ==
    ASSUME IInv, NEW r \in Requests, SyncDir(r)
    PROVE  IInv'
<1>1. request[r].pc \in Locked /\ LineOf(r) \in file
  BY DEF SyncDir, IInv, SyncNew, At, Locked
<1>2. /\ \A c \in disk' : c \subseteq file /\ \A l \in file : l \in c \/ l \in doubtful'
      /\ \A l \in doubtful : l \in doubtful' \/ l \in file
      /\ disk' \in SUBSET (SUBSET Line) /\ doubtful' \in SUBSET Line
  BY DEF SyncDir, IInv, TunnelsTypeOK
<1>. QED  BY <1>1, <1>2, AcceptStep DEF SyncDir

(* The holder prepares the new contents.                                    *)
LEMMA PrepareStep ==
    ASSUME IInv, NEW r \in Requests, NEW x \in Request,
           request[r].pc \in {"read", "write"},
           request' = [request EXCEPT ![r] = x],
           x.pc \in {"write", "rename"},
           x.host = request[r].host, x.key = request[r].key,
           x.data = file \cup {LineOf(r)},
           \A k \in Keys : <<request[r].host, k>> \notin file,
           UNCHANGED <<file, disk, lock, accepted, doubtful>>
    PROVE  IInv'
<1>1. /\ request' \in [Requests -> Request]
      /\ request'[r] = x
      /\ \A q \in Requests \ {r} : request'[q] = request[q]
  BY ReplaceRequest DEF IInv
<1>2. request[r].pc \in Locked /\ ~At(r, "sync")
  BY DEF Locked, At
<1>3. LineOf(r)' = LineOf(r)
  BY <1>1 DEF LineOf
<1>4. TunnelsTypeOK'
  BY <1>1 DEF IInv, TunnelsTypeOK
<1>5. LockHeld'
  BY <1>1, <1>2 DEF IInv, LockHeld
<1>6. Dialled'
  BY <1>1, <1>2, <1>3 DEF IInv, Dialled, LineOf, Locked
<1>7. Writing'
  BY <1>1, <1>3 DEF IInv, Writing, LineOf
<1>8. SyncNew'
  BY <1>1, <1>2, SyncIsHolder DEF SyncNew, At, Locked
<1>9. OneKey' /\ AcceptedIsRecorded'
  BY DEF IInv, OneKey, AcceptedIsRecorded
<1>10. OnDisk'
  BY <1>2, SyncIsHolder DEF IInv, OnDisk
<1>. QED  BY <1>4, <1>5, <1>6, <1>7, <1>8, <1>9, <1>10 DEF IInv

LEMMA ReadUnknownStep ==
    ASSUME IInv, NEW r \in Requests, ReadUnknown(r)
    PROVE  IInv'
<1> DEFINE x == [request[r] EXCEPT !.pc = "write", !.data = file \cup {LineOf(r)}]
<1>1. LineOf(r) \in Line
  BY DEF ReadUnknown, IInv, Dialled, At
<1>2. /\ x \in Request /\ x.pc = "write" /\ x.data = file \cup {LineOf(r)}
      /\ x.host = request[r].host /\ x.key = request[r].key
  BY <1>1 DEF IInv, TunnelsTypeOK, Request, PC
<1>3. request' = [request EXCEPT ![r] = x]
  BY DEF ReadUnknown, IInv, TunnelsTypeOK
<1>4. \A k \in Keys : <<request[r].host, k>> \notin file
  BY DEF ReadUnknown, Verdict
<1>. HIDE DEF x
<1>. QED  BY <1>2, <1>3, <1>4, PrepareStep DEF ReadUnknown, At

LEMMA WriteTempStep ==
    ASSUME IInv, NEW r \in Requests, WriteTemp(r)
    PROVE  IInv'
<1> DEFINE x == [request[r] EXCEPT !.pc = "rename"]
<1>1. /\ x \in Request /\ x.pc = "rename" /\ x.data = request[r].data
      /\ x.host = request[r].host /\ x.key = request[r].key
  BY DEF IInv, TunnelsTypeOK, Request, PC
<1>2. request' = [request EXCEPT ![r] = x]
  BY DEF WriteTemp, Goto, IInv, TunnelsTypeOK
<1>3. /\ request[r].data = file \cup {LineOf(r)}
      /\ \A k \in Keys : <<request[r].host, k>> \notin file
  BY DEF WriteTemp, At, IInv, Writing
<1>. HIDE DEF x
<1>. QED  BY <1>1, <1>2, <1>3, PrepareStep DEF WriteTemp, At

LEMMA RenameStep ==
    ASSUME IInv, NEW r \in Requests, Rename(r)
    PROVE  IInv'
<1>1. /\ request[r].pc = "rename" /\ request[r].pc \in Locked /\ ~At(r, "sync")
      /\ LineOf(r) \in Line
  BY DEF Rename, At, Locked, IInv, Dialled
<1>2. /\ request[r].data = file \cup {LineOf(r)}
      /\ \A k \in Keys : <<request[r].host, k>> \notin file
  BY <1>1 DEF IInv, Writing
<1>3. /\ request' \in [Requests -> Request]
      /\ request'[r].pc = "sync"
      /\ request'[r].host = request[r].host /\ request'[r].key = request[r].key
      /\ \A q \in Requests \ {r} : request'[q] = request[q]
  <2> DEFINE x == [request[r] EXCEPT !.pc = "sync", !.data = {}]
  <2>1. /\ x \in Request /\ x.pc = "sync"
        /\ x.host = request[r].host /\ x.key = request[r].key
    <3>1. request[r] \in Request /\ "sync" \in PC /\ {} \in SUBSET Line
      BY DEF IInv, TunnelsTypeOK, PC
    <3>. QED  BY <3>1 DEF Request
  <2>2. request' = [request EXCEPT ![r] = x]
    BY DEF Rename, IInv, TunnelsTypeOK
  <2>. HIDE DEF x
  <2>. QED  BY <2>1, <2>2, ReplaceRequest DEF IInv
<1>4. /\ file' = file \cup {LineOf(r)} /\ disk' = disk \cup {file'}
      /\ LineOf(r)' = LineOf(r)
  BY <1>2, <1>3 DEF Rename, LineOf
<1>5. \A q \in Requests \ {r} : request[q].pc \notin Locked
  BY <1>1, SyncIsHolder
<1>6. TunnelsTypeOK'
  BY <1>1, <1>3, <1>4 DEF Rename, IInv, TunnelsTypeOK
<1>7. LockHeld'
  BY <1>1, <1>3, <1>5 DEF Rename, IInv, LockHeld
<1>8. Dialled'
  BY <1>1, <1>3, <1>4 DEF IInv, Dialled, LineOf
<1>9. Writing'
  BY <1>3, <1>5 DEF Writing, Locked
<1>10. SyncNew'
  BY <1>3, <1>4, <1>5 DEF SyncNew, At, Locked
<1>11. OneKey'
  <2> SUFFICES ASSUME NEW h \in Hosts, NEW k1 \in Keys, NEW k2 \in Keys,
                      <<h, k1>> \in file', <<h, k2>> \in file',
                      ~ {<<h, k1>>, <<h, k2>>} \subseteq Entered
               PROVE  k1 = k2
    BY DEF OneKey
  <2>1. CASE h = request[r].host
    BY <2>1, <1>2, <1>4 DEF LineOf
  <2>2. CASE h # request[r].host
    BY <2>2, <1>4 DEF LineOf, IInv, OneKey
  <2>. QED  BY <2>1, <2>2
<1>12. OnDisk'
  <2>1. LineOf(r) \in Unsynced(Requests)'
    BY <1>3, <1>4 DEF Unsynced, At
  <2>2. \A c \in disk : c \subseteq file /\ \A l \in file : l \in c \/ l \in doubtful
    BY <1>1, SyncIsHolder DEF IInv, OnDisk
  <2>3. doubtful' = doubtful
    BY DEF Rename
  <2>. QED  BY <2>1, <2>2, <2>3, <1>4 DEF OnDisk
<1>13. AcceptedIsRecorded'
  BY <1>4 DEF Rename, IInv, AcceptedIsRecorded
<1>. QED  BY <1>6, <1>7, <1>8, <1>9, <1>10, <1>11, <1>12, <1>13 DEF IInv

-----------------------------------------------------------------------------
(* Failures. *)

(* Requests are lost; what they had yet to sync becomes doubtful.           *)
LEMMA LossStep ==
    ASSUME IInv, NEW R \in SUBSET Requests,
           request' = [r \in Requests |-> IF r \in R THEN Idle ELSE request[r]],
           lock' = IF lock \in R THEN NULL ELSE lock,
           doubtful' = doubtful \cup Unsynced(R),
           UNCHANGED <<file, disk, accepted>>
    PROVE  IInv'
<1>1. /\ request' \in [Requests -> Request]
      /\ \A r \in R : request'[r] = Idle
      /\ \A r \in Requests \ R : request'[r] = request[r]
  BY IdleType DEF IInv, TunnelsTypeOK
<1>2. Unsynced(R) \subseteq Line
  BY DEF Unsynced, At, IInv, Dialled
<1>3. TunnelsTypeOK'
  BY <1>1, <1>2 DEF IInv, TunnelsTypeOK
<1>4. \A r \in Requests : request'[r].pc # "idle" => r \notin R /\ request'[r] = request[r]
  BY <1>1, IdleType
<1>5. LockHeld'
  BY <1>4 DEF IInv, LockHeld, Locked
<1>6. Dialled'
  BY <1>4 DEF IInv, Dialled, LineOf
<1>7. Writing'
  BY <1>4 DEF IInv, Writing, LineOf
<1>8. SyncNew'
  BY <1>4 DEF IInv, SyncNew, At, LineOf
<1>9. OneKey'
  BY DEF IInv, OneKey
<1>10. OnDisk'
  <2>1. \A l \in Unsynced(Requests) : l \in Unsynced(R) \/ l \in Unsynced(Requests)'
    BY <1>1 DEF Unsynced, At, LineOf
  <2>. QED  BY <2>1 DEF IInv, OnDisk
<1>11. AcceptedIsRecorded'
  BY DEF IInv, AcceptedIsRecorded
<1>. QED  BY <1>3, <1>5, <1>6, <1>7, <1>8, <1>9, <1>10, <1>11 DEF IInv

LEMMA FileFailsStep ==
    ASSUME IInv, NEW r \in Requests, FileFails(r)
    PROVE  IInv'
<1>1. request' = [q \in Requests |-> IF q \in {r} THEN Idle ELSE request[q]]
  BY DEF FileFails, Ends, IInv, TunnelsTypeOK
<1>2. lock' = IF lock \in {r} THEN NULL ELSE lock
  BY DEF FileFails, Ends
<1>. QED  BY <1>1, <1>2, LossStep DEF FileFails

LEMMA KillStep ==
    ASSUME IInv, NEW p \in Processes, Kill(p)
    PROVE  IInv'
BY LossStep DEF Kill

LEMMA PowerFailsStep ==
    ASSUME IInv, PowerFails
    PROVE  IInv'
<1>1. PICK c \in disk : file' = c /\ disk' = {c}
  BY DEF PowerFails
<1>2. request' \in [Requests -> Request] /\ \A r \in Requests : request'[r].pc = "idle"
  BY IdleType DEF PowerFails
<1>3. Unsynced(Requests) \subseteq Line
  BY DEF Unsynced, At, IInv, Dialled
<1>4. c \subseteq file
  BY DEF IInv, OnDisk
<1>5. TunnelsTypeOK'
  BY <1>1, <1>2, <1>3 DEF PowerFails, IInv, TunnelsTypeOK
<1>6. LockHeld' /\ Dialled' /\ Writing' /\ SyncNew'
  BY <1>2 DEF LockHeld, Dialled, Writing, SyncNew, At, Locked
<1>7. OneKey'
  BY <1>1, <1>4 DEF IInv, OneKey
<1>8. OnDisk'
  BY <1>1 DEF OnDisk
<1>9. AcceptedIsRecorded'
  BY <1>1 DEF PowerFails, IInv, AcceptedIsRecorded
<1>. QED  BY <1>5, <1>6, <1>7, <1>8, <1>9 DEF IInv

-----------------------------------------------------------------------------
(* The steps outside the lock. *)

LEMMA DialStep ==
    ASSUME IInv, NEW r \in Requests, NEW h \in Hosts, NEW k \in Keys, Dial(r, h, k)
    PROVE  IInv'
<1> DEFINE x == [Idle EXCEPT !.pc = "lock", !.host = h, !.key = k, !.open = TRUE]
<1>1. x \in Request /\ x.pc \notin Locked /\ x.host \in Hosts /\ x.key \in Keys
  BY DEF Idle, Request, PC, Locked
<1>2. ~At(r, "sync")
  BY DEF Dial, At
<1>3. request' = [request EXCEPT ![r] = x]
  BY DEF Dial
<1>. HIDE DEF x
<1>. QED  BY <1>1, <1>2, <1>3, QuietMove DEF Dial

LEMMA FlagSteps ==
    ASSUME IInv, NEW r \in Requests, Over(r) \/ CloseRaw(r)
    PROVE  IInv'
<1>1. CASE Over(r)
  <2> DEFINE x == [request[r] EXCEPT !.over = TRUE]
  <2>1. /\ x \in Request /\ x.pc = request[r].pc /\ x.host = request[r].host
        /\ x.key = request[r].key /\ x.data = request[r].data
    BY DEF IInv, TunnelsTypeOK, Request
  <2>2. request' = [request EXCEPT ![r] = x]
    BY <1>1 DEF Over, IInv, TunnelsTypeOK
  <2>. HIDE DEF x
  <2>. QED  BY <1>1, <2>1, <2>2, FlagStep DEF Over
<1>2. CASE CloseRaw(r)
  <2> DEFINE x == [request[r] EXCEPT !.open = FALSE]
  <2>1. /\ x \in Request /\ x.pc = request[r].pc /\ x.host = request[r].host
        /\ x.key = request[r].key /\ x.data = request[r].data
    BY DEF IInv, TunnelsTypeOK, Request
  <2>2. request' = [request EXCEPT ![r] = x]
    BY <1>2 DEF CloseRaw, IInv, TunnelsTypeOK
  <2>. HIDE DEF x
  <2>. QED  BY <1>2, <2>1, <2>2, FlagStep DEF CloseRaw
<1>. QED  BY <1>1, <1>2

LEMMA ConnectStep ==
    ASSUME IInv, NEW r \in Requests, Connect(r)
    PROVE  IInv'
<1> DEFINE x == [request[r] EXCEPT !.pc = "open"]
<1>1. x \in Request /\ x.pc \notin Locked /\ x.host = request[r].host /\ x.key = request[r].key
  BY DEF IInv, TunnelsTypeOK, Request, PC, Locked
<1>2. request[r].host \in Hosts /\ request[r].key \in Keys /\ ~At(r, "sync")
  BY DEF Connect, At, IInv, Dialled, LineOf, Line
<1>3. request' = [request EXCEPT ![r] = x]
  BY DEF Connect, Goto, IInv, TunnelsTypeOK
<1>. HIDE DEF x
<1>. QED  BY <1>1, <1>2, <1>3, QuietMove DEF Connect

LEMMA EndingSteps ==
    ASSUME IInv, NEW r \in Requests,
           \/ ConnectRefused(r) \/ ConnectionLost(r) \/ Close(r)
           \/ LockGivenUp(r) \/ ReadRefused(r) \/ RenameGivenUp(r)
    PROVE  IInv'
<1>1. ~At(r, "sync")
  BY DEF ConnectRefused, ConnectionLost, Close, LockGivenUp, ReadRefused, RenameGivenUp, At
<1>2. Ends(r) /\ UNCHANGED <<file, disk, accepted, doubtful>>
  BY DEF ConnectRefused, ConnectionLost, Close, LockGivenUp, ReadRefused, RenameGivenUp
<1>. QED  BY <1>1, <1>2, EndsStep

-----------------------------------------------------------------------------
(* The invariant is preserved by every step of every request, process and   *)
(* failure.                                                                 *)
THEOREM Preserved == IInv /\ [TunnelsNext]_tunnelVars => IInv'
<1> SUFFICES ASSUME IInv, [TunnelsNext]_tunnelVars PROVE IInv'
  OBVIOUS
<1>1. CASE UNCHANGED tunnelVars
  BY <1>1 DEF tunnelVars, IInv, TunnelsTypeOK, LockHeld, Dialled, Writing, SyncNew, OneKey,
     OnDisk, AcceptedIsRecorded, At, LineOf, Unsynced
<1>2. ASSUME NEW r \in Requests, NEW h \in Hosts, NEW k \in Keys, Dial(r, h, k) PROVE IInv'
  BY <1>2, DialStep
<1>3. ASSUME NEW r \in Requests,
             Over(r) \/ Connect(r) \/ ConnectRefused(r) \/ FileFails(r)
      PROVE  IInv'
  BY <1>3, FlagSteps, ConnectStep, EndingSteps, FileFailsStep
<1>4. ASSUME NEW r \in Requests, Proceeds(r) PROVE IInv'
  BY <1>4, FlagSteps, EndingSteps, LockStep, ReadKnownStep, ReadUnknownStep, WriteTempStep,
     RenameStep, SyncDirStep DEF Proceeds
<1>5. ASSUME NEW p \in Processes, Kill(p) PROVE IInv'
  BY <1>5, KillStep
<1>6. CASE PowerFails
  BY <1>6, PowerFailsStep
<1>. QED  BY <1>1, <1>2, <1>3, <1>4, <1>5, <1>6 DEF TunnelsNext, TunnelStep

(* The inductive invariant holds.                                           *)
THEOREM Invariance == TunnelsSpec => []IInv
BY InitStep, Preserved, PTL DEF TunnelsSpec

(* A key that acceptNew has accepted stays in the trust file, through any   *)
(* number of races, cancelled requests, killed processes and power          *)
(* failures, unless the sync that should follow its rename never happened.  *)
THEOREM TrustIsDurable == TunnelsSpec => []AcceptedIsRecorded
<1>1. IInv => AcceptedIsRecorded
  BY DEF IInv
<1>. QED  BY <1>1, Invariance, PTL

(* A host has one accepted key, apart from what the operator entered,       *)
(* however many requests of however many processes meet it first.           *)
THEOREM TrustIsUnique == TunnelsSpec => []FirstKeyIsKept
<1>1. IInv => FirstKeyIsKept
  <2> SUFFICES ASSUME IInv, NEW h \in Hosts, NEW k1 \in Keys, NEW k2 \in Keys,
                      <<h, k1>> \in accepted \ doubtful, <<h, k2>> \in accepted \ doubtful,
                      ~ {<<h, k1>>, <<h, k2>>} \subseteq Entered
               PROVE  k1 = k2
    BY DEF FirstKeyIsKept
  <2>1. <<h, k1>> \in file /\ <<h, k2>> \in file
    BY DEF IInv, AcceptedIsRecorded
  <2>. QED  BY <2>1 DEF IInv, OneKey
<1>. QED  BY <1>1, Invariance, PTL

(* Only one request at a time reads, extends and replaces the trust file,   *)
(* across requests, generations and processes.                              *)
THEOREM TrustIsExclusive == TunnelsSpec => []LockHeld
<1>1. IInv => LockHeld
  BY DEF IInv
<1>. QED  BY <1>1, Invariance, PTL
=============================================================================
