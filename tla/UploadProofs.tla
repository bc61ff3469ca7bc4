---------------------------- MODULE UploadProofs ----------------------------
(***************************************************************************)
(* An accepted upload that no other upload overlapped is stored exactly.   *)
(* The invariant behind it: such an upload is the only writer of its       *)
(* inode, which holds what was read after the size, from the first byte    *)
(* that the size field did not cost up to the last one taken.              *)
(***************************************************************************)
EXTENDS ServerProofs

(* What c has put on the disk so far. *)
Stored(c) ==
  IF info[c].size_read
  THEN Sent(c, sock[c].taken - SizeBytes - info[c].local_file_pos + 1,
               sock[c].taken - SizeBytes)
  ELSE <<>>

(* An upload that has a file, and has had it for itself. *)
Sole(c) == Uploading(c) /\ c \notin shared /\ info[c].local_file # -1

SoleWriter ==
  \A c, d \in Conns :
    Sole(c) /\ Uploading(d) /\ info[d].local_file = info[c].local_file => d = c

SoleStored == \A c \in Conns : Sole(c) => data[info[c].local_file] = Stored(c)

Exact == SoleWriter /\ SoleStored

-----------------------------------------------------------------------------
(* The m bytes behind the first a ones. *)
LEMMA SentRun ==
  ASSUME NEW c \in Conns, NEW a \in Nat, NEW m \in Nat
  PROVE  /\ Sent(c, a + 1, a + m) = [p \in 1..m |-> <<c, a + p>>]
         /\ Sent(c, a + 1, a + m) \in Seq(Byte)
         /\ Len(Sent(c, a + 1, a + m)) = m
<1>1. (a + m) - (a + 1) + 1 = m  OBVIOUS
<1>2. \A p \in 1..m : (a + 1) + p - 1 = a + p  OBVIOUS
<1>3. Sent(c, a + 1, a + m) = [p \in 1..m |-> <<c, a + p>>]
  BY <1>1, <1>2 DEF Sent
<1>4. a + 1 \in Nat \ {0} /\ a + m \in Int /\ a + 1 <= (a + m) + 1  OBVIOUS
<1>5. /\ Sent(c, a + 1, a + m) \in Seq(Byte)
      /\ Len(Sent(c, a + 1, a + m)) = (a + m) - (a + 1) + 1
  BY <1>4, SentType
<1> QED  BY <1>1, <1>3, <1>5

LEMMA SentNothing ==
  ASSUME NEW c \in Conns, NEW j \in Nat PROVE Sent(c, j + 1, j) = <<>>
<1>1. /\ j + 1 \in Nat \ {0} /\ j \in Int /\ j + 1 <= j + 1
      /\ j - (j + 1) + 1 = 0
  OBVIOUS
<1>2. Sent(c, j + 1, j) \in Seq(Byte) /\ Len(Sent(c, j + 1, j)) = j - (j + 1) + 1
  BY <1>1, SentType
<1> QED  BY <1>1, <1>2, EmptySeq

(* Bytes written behind the ones before them make one longer run. *)
LEMMA WriteSent ==
  ASSUME NEW c \in Conns, NEW lost \in Nat, NEW pos \in Nat, NEW k \in Nat
  PROVE  WriteAt(Sent(c, lost + 1, lost + pos), pos,
                 Sent(c, lost + pos + 1, lost + pos + k))
           = Sent(c, lost + 1, lost + pos + k)
<1> DEFINE old == Sent(c, lost + 1, lost + pos)
           new == Sent(c, lost + pos + 1, lost + pos + k)
           all == Sent(c, lost + 1, lost + pos + k)
<1>1. /\ old \in Seq(Byte) /\ Len(old) = pos
      /\ \A p \in 1..pos : old[p] = <<c, lost + p>>
      /\ old = [p \in 1..pos |-> <<c, lost + p>>]
  BY SentRun
<1>2. /\ new \in Seq(Byte) /\ Len(new) = k
      /\ \A p \in 1..k : new[p] = <<c, lost + pos + p>>
  <2> DEFINE base == lost + pos
  <2>1. base \in Nat  OBVIOUS
  <2>2. new = Sent(c, base + 1, base + k)  OBVIOUS
  <2> HIDE DEF base, new
  <2>3. /\ new = [p \in 1..k |-> <<c, base + p>>]
        /\ new \in Seq(Byte) /\ Len(new) = k
    BY <2>1, <2>2, SentRun
  <2> QED  BY <2>3 DEF base
<1>3. all = [p \in 1..(pos + k) |-> <<c, lost + p>>]
  <2>1. lost + pos + k = lost + (pos + k) /\ pos + k \in Nat  OBVIOUS
  <2> QED  BY <2>1, SentRun
<1> HIDE DEF old, new, all
<1>4. CASE k = 0
  <2>1. new = <<>>  BY <1>2, <1>4, EmptySeq
  <2>2. WriteAt(old, pos, new) = old  BY <2>1 DEF WriteAt
  <2>3. pos + k = pos  BY <1>4
  <2>4. all = old  BY <1>1, <1>3, <2>3
  <2> QED  BY <2>2, <2>4 DEF old, new, all
<1>5. CASE k > 0
  <2>1. new # <<>>  BY <1>2, <1>5
  <2>2. WriteAt(old, pos, new) =
          [p \in 1..(pos + k) |->
             IF pos < p /\ p <= pos + k THEN new[p - pos]
             ELSE IF p <= pos THEN old[p] ELSE Hole]
    BY <1>1, <1>2, <1>5, <2>1 DEF WriteAt
  <2>3. ASSUME NEW p \in 1..(pos + k)
        PROVE  (IF pos < p /\ p <= pos + k THEN new[p - pos]
                ELSE IF p <= pos THEN old[p] ELSE Hole) = <<c, lost + p>>
    <3>1. CASE pos < p
      <4>1. p - pos \in 1..k /\ lost + pos + (p - pos) = lost + p  BY <3>1
      <4> QED  BY <1>2, <3>1, <4>1
    <3>2. CASE ~(pos < p)
      <4>1. p \in 1..pos  BY <3>2
      <4> QED  BY <1>1, <3>2, <4>1
    <3> QED  BY <3>1, <3>2
  <2> QED  BY <1>3, <2>2, <2>3 DEF old, new, all
<1> QED  BY <1>4, <1>5

-----------------------------------------------------------------------------
(* What a call for one connection leaves alone.                            *)

LEMMA EventOthers ==
  ASSUME Core, NEW c \in Conns, Event(c)
  PROVE  \A d \in Conns \ {c} : info'[d] = info[d] /\ sock'[d] = sock[d]
<1>1. DOMAIN info = Conns /\ DOMAIN sock = Conns  BY DEF Core, Connections
<1>2. ASSUME NEW st, NEW s, Finish(c, st, s)
      PROVE  \A d \in Conns \ {c} : info'[d] = info[d] /\ sock'[d] = sock[d]
  BY <1>1, <1>2 DEF Finish
<1>3. CASE ParseVerb(c)  BY <1>1, <1>2, <1>3 DEF ParseVerb
<1>4. CASE ReadFileName(c)  BY <1>1, <1>2, <1>4 DEF ReadFileName
<1>5. CASE Get(c)
  BY <1>2, <1>5 DEF Get, GetLocal, GetRedirect, GetMissing
<1>6. CASE PutRedirect(c)  BY <1>2, <1>6 DEF PutRedirect
<1>7. CASE PutOpen(c)  BY <1>1, <1>7 DEF PutOpen
<1>8. CASE ReadSize(c)  BY <1>1, <1>8 DEF ReadSize
<1>9. CASE ReadData(c)
  <2>1. CASE Goes(c)  BY <1>1, <2>1 DEF Goes
  <2> QED  BY <1>2, <1>9, <2>1, ReadDataCases
<1>10. CASE Delete(c)  BY <1>2, <1>10 DEF Delete, DeleteFile, DeleteMissing
<1>11. CASE ListFiles(c)  BY <1>2, <1>11 DEF ListFiles
<1>12. CASE AddServer(c)  BY <1>2, <1>12 DEF AddServer
<1> QED
  BY <1>3, <1>4, <1>5, <1>6, <1>7, <1>8, <1>9, <1>10, <1>11, <1>12
  DEF Event, Put

(* Calls that are not about the body of an upload. *)
Quiet(c) == \/ ParseVerb(c) \/ ReadFileName(c) \/ Get(c) \/ PutRedirect(c)
            \/ Delete(c) \/ ListFiles(c) \/ AddServer(c)

LEMMA QuietFacts ==
  ASSUME Core, NEW c \in Conns, Quiet(c)
  PROVE  ~Uploading(c) /\ ~Uploading(c)' /\ UNCHANGED <<data, shared>>
<1> DEFINE Idle(i) == i.state = "HANDLING_VERB" => i.local_file = 0
<1>1. info \in [Conns -> ClientInfo]  BY DEF Core, Connections
<1>2. ASSUME NEW st, NEW s, Finish(c, st, s) PROVE info'[c].state = "REMOVED"
  BY <1>1, <1>2 DEF Finish, Client
<1>3. UNCHANGED <<data, shared>>
  BY DEF Quiet, ParseVerb, ReadFileName, Get, GetLocal, GetRedirect, GetMissing,
         PutRedirect, Delete, DeleteFile, DeleteMissing, ListFiles, AddServer, store
<1>4. ~Uploading(c)
  BY DEF Quiet, ParseVerb, ReadFileName, Get, GetLocal, GetRedirect, GetMissing,
         PutRedirect, Delete, DeleteFile, DeleteMissing, ListFiles, AddServer,
         Uploading, Handling
<1>5. ASSUME ParseVerb(c) PROVE Idle(info'[c])
  <2>1. info[c].local_file = 0
    <3>1. ConnTyped(info[c], req[c])  BY DEF Core, Connections
    <3> QED  BY <1>5, <3>1 DEF ParseVerb, ConnTyped
  <2>2. ASSUME NEW v, NEW st,
               info' = [info EXCEPT ![c].action = v, ![c].state = st]
        PROVE  info'[c].local_file = 0
    BY <1>1, <2>1, <2>2 DEF ClientInfo
  <2> HIDE DEF Idle
  <2>3. \/ info'[c].state = "REMOVED"
        \/ \E v, st : info' = [info EXCEPT ![c].action = v, ![c].state = st]
    BY <1>2, <1>5 DEF ParseVerb
  <2> QED  BY <2>2, <2>3 DEF Idle
<1>6. ASSUME ReadFileName(c) PROVE Idle(info'[c])
  <2>1. info[c].local_file = 0
    <3>1. ConnTyped(info[c], req[c])  BY DEF Core, Connections
    <3> QED  BY <1>6, <3>1 DEF ReadFileName, ConnTyped
  <2>2. ASSUME NEW h, NEW st,
               info' = [info EXCEPT ![c].header = h, ![c].state = st]
        PROVE  info'[c].local_file = 0
    BY <1>1, <2>1, <2>2 DEF ClientInfo
  <2> HIDE DEF Idle
  <2>3. \/ info'[c].state = "REMOVED"
        \/ \E h, st : info' = [info EXCEPT ![c].header = h, ![c].state = st]
    BY <1>2, <1>6 DEF ReadFileName
  <2> QED  BY <2>2, <2>3 DEF Idle
<1>7. ASSUME Get(c) PROVE info'[c].state = "REMOVED"
  BY <1>2, <1>7 DEF Get, GetLocal, GetRedirect, GetMissing
<1>8. ASSUME PutRedirect(c) \/ Delete(c) PROVE info'[c].state = "REMOVED"
  BY <1>2, <1>8 DEF PutRedirect, Delete, DeleteFile, DeleteMissing
<1>9. ASSUME ListFiles(c) \/ AddServer(c) PROVE info'[c].state = "REMOVED"
  BY <1>2, <1>9 DEF ListFiles, AddServer
<1>10. Idle(info'[c])
  BY <1>5, <1>6, <1>7, <1>8, <1>9 DEF Quiet
<1>11. ~Uploading(c)'  BY <1>10 DEF Uploading, Handling
<1> QED  BY <1>3, <1>4, <1>11

-----------------------------------------------------------------------------
(* Exact is inductive.                                                     *)

(* What Exact says of a connection that a step does not touch. *)
Untouched(d) ==
  Uploading(d)' => /\ Uploading(d)
                   /\ info'[d] = info[d]
                   /\ sock'[d] = sock[d]

LEMMA ExactFrame ==
  ASSUME Exact, UNCHANGED data, shared \subseteq shared',
         \A d \in Conns : Untouched(d)
  PROVE  Exact'
<1>1. ASSUME NEW d \in Conns, Sole(d)'
      PROVE  Sole(d) /\ info'[d] = info[d] /\ Stored(d)' = Stored(d)
  <2>1. Uploading(d)' /\ d \notin shared' /\ info'[d].local_file # -1
    BY <1>1 DEF Sole
  <2>2. Uploading(d) /\ info'[d] = info[d] /\ sock'[d] = sock[d]
    BY <2>1 DEF Untouched
  <2> QED  BY <2>1, <2>2 DEF Sole, Stored
<1>2. SoleWriter'
  BY <1>1 DEF SoleWriter, Exact, Untouched
<1>3. SoleStored'
  BY <1>1 DEF SoleStored, Exact
<1> QED  BY <1>2, <1>3 DEF Exact

LEMMA ExactPutOpen ==
  ASSUME Core, Exact, NEW c \in Conns, PutOpen(c) PROVE Exact'
<1> DEFINE inode == OpenInode(info[c].header, c)
<1>1. info \in [Conns -> ClientInfo] /\ sock \in [Conns -> SockType]
      /\ data \in [Inodes -> Seq(Byte)]
  BY DEF Core, Connections, Tables
<1>2. /\ info[c].state = "HANDLING_VERB" /\ info[c].action = "PUT"
      /\ info[c].local_file = 0 /\ ~Uploading(c) /\ ~info[c].size_read
  BY DEF PutOpen, Handling, Uploading, Core, UploadProgress
<1>3. inode \in Inodes /\ inode # 0 /\ inode # -1
  <2>1. ConnTyped(info[c], req[c])  BY DEF Core, Connections
  <2>2. info[c].header \in Names  BY <1>2, <2>1 DEF ConnTyped
  <2> QED  BY <2>2, OpenInodeType, ValuesAssumption DEF Core, Tables
<1>4. \A d \in Conns \ {c} : info'[d] = info[d] /\ sock'[d] = sock[d]
  BY <1>1 DEF PutOpen
<1>5. \A d \in Conns \ {c} : Uploading(d)' <=> Uploading(d)
  BY <1>4 DEF Uploading, Handling
<1> HIDE DEF inode
<1>6. CASE /\ info' = [info EXCEPT ![c].local_file = inode, ![c].header = None]
           /\ data' = [data EXCEPT ![inode] = Truncate(@)]
           /\ shared' = IF Writers(inode) = {} THEN shared
                        ELSE shared \cup Writers(inode) \cup {c}
  <2>1. /\ info' = [info EXCEPT ![c].local_file = inode, ![c].header = None]
        /\ data' = [data EXCEPT ![inode] = Truncate(@)]
        /\ shared' = IF Writers(inode) = {} THEN shared
                     ELSE shared \cup Writers(inode) \cup {c}
    BY <1>6
  <2>2. info'[c].local_file = inode /\ ~info'[c].size_read
    BY <1>1, <1>2, <2>1 DEF ClientInfo
  <2>3. ASSUME NEW d \in Conns \ {c}, Uploading(d), info[d].local_file = inode
        PROVE  d \in Writers(inode)
    BY <2>3 DEF Writers, Uploading
  <2>4. ASSUME NEW e \in Conns \ {c}, Sole(e)'
        PROVE  Sole(e) /\ info[e].local_file # inode
    BY <1>4, <1>5, <2>1, <2>3, <2>4 DEF Sole
  <2>5. ASSUME Sole(c)', NEW d \in Conns \ {c}, Uploading(d)'
        PROVE  info'[d].local_file # inode
    BY <1>4, <1>5, <2>1, <2>3, <2>5 DEF Sole
  <2>6. SoleWriter'
    <3> SUFFICES ASSUME NEW e \in Conns, NEW d \in Conns, Sole(e)', Uploading(d)',
                        info'[d].local_file = info'[e].local_file
                 PROVE  d = e
      BY DEF SoleWriter
    <3>1. CASE e = c  BY <2>2, <2>5, <3>1
    <3>2. CASE e # c /\ d = c  BY <1>4, <2>2, <2>4, <3>2
    <3>3. CASE e # c /\ d # c
      BY <1>4, <1>5, <2>4, <3>3 DEF Exact, SoleWriter
    <3> QED  BY <3>1, <3>2, <3>3
  <2>7. SoleStored'
    <3> SUFFICES ASSUME NEW e \in Conns, Sole(e)'
                 PROVE  data'[info'[e].local_file] = Stored(e)'
      BY DEF SoleStored
    <3>1. CASE e = c
      BY <1>1, <1>3, <2>1, <2>2, <3>1 DEF Stored, Truncate
    <3>2. CASE e # c
      <4>1. Sole(e) /\ info[e].local_file # inode  BY <2>4, <3>2
      <4>2. info[e].local_file \in Inodes
        BY <1>1, <4>1 DEF Sole, Uploading, ClientInfo
      <4>3. data'[info[e].local_file] = data[info[e].local_file]
        BY <1>1, <2>1, <4>1, <4>2
      <4>4. Stored(e)' = Stored(e)  BY <1>4, <3>2 DEF Stored
      <4> QED  BY <1>4, <3>2, <4>1, <4>3, <4>4 DEF Exact, SoleStored
    <3> QED  BY <3>1, <3>2
  <2> QED  BY <2>6, <2>7 DEF Exact
<1>7. CASE /\ info' = [info EXCEPT ![c].local_file = -1, ![c].header = None]
           /\ UNCHANGED <<data, shared>>
  <2>1. /\ info' = [info EXCEPT ![c].local_file = -1, ![c].header = None]
        /\ UNCHANGED <<data, shared>>
    BY <1>7
  <2>2. info'[c].local_file = -1  BY <1>1, <2>1 DEF ClientInfo
  <2>3. ASSUME NEW e \in Conns, Sole(e)'
        PROVE  /\ e # c /\ Sole(e) /\ info'[e] = info[e]
               /\ Stored(e)' = Stored(e)
    <3>1. e # c  BY <2>2, <2>3 DEF Sole
    <3>2. Sole(e)  BY <1>5, <1>4, <2>1, <2>3, <3>1 DEF Sole
    <3>3. info'[e] = info[e] /\ sock'[e] = sock[e]  BY <1>4, <3>1
    <3> QED  BY <3>1, <3>2, <3>3 DEF Stored
  <2>4. SoleWriter'
    <3> SUFFICES ASSUME NEW e \in Conns, NEW d \in Conns, Sole(e)', Uploading(d)',
                        info'[d].local_file = info'[e].local_file
                 PROVE  d = e
      BY DEF SoleWriter
    <3>1. d # c  BY <2>2 DEF Sole
    <3> QED  BY <1>4, <1>5, <2>3, <3>1 DEF Exact, SoleWriter
  <2>5. SoleStored'  BY <2>1, <2>3 DEF SoleStored, Exact
  <2> QED  BY <2>4, <2>5 DEF Exact
<1> QED  BY <1>6, <1>7 DEF PutOpen, inode

LEMMA ExactReadSize ==
  ASSUME Core, Exact, NEW c \in Conns, ReadSize(c) PROVE Exact'
<1>1. info \in [Conns -> ClientInfo]  BY DEF Core, Connections
<1>2. /\ Uploading(c) /\ ~info[c].size_read
      /\ info' = [info EXCEPT ![c].buffer_position = @ + SizeTaken(c)]
      /\ UNCHANGED <<data, shared>>
  BY DEF ReadSize, SizeComplete, store
<1>3. /\ info'[c].local_file = info[c].local_file
      /\ info'[c].state = info[c].state
      /\ info'[c].action = info[c].action
      /\ ~info'[c].size_read
  BY <1>1, <1>2 DEF ClientInfo
<1>4. \A d \in Conns \ {c} : info'[d] = info[d] /\ sock'[d] = sock[d]
  BY DEF ReadSize, Core, Connections
<1>5. ASSUME NEW d \in Conns
      PROVE  /\ Uploading(d)' <=> Uploading(d)
             /\ info'[d].local_file = info[d].local_file
             /\ Stored(d)' = Stored(d)
  <2>1. CASE d = c  BY <1>2, <1>3, <2>1 DEF Uploading, Handling, Stored
  <2>2. CASE d # c  BY <1>4, <2>2 DEF Uploading, Handling, Stored
  <2> QED  BY <2>1, <2>2
<1>6. \A d \in Conns : Sole(d)' <=> Sole(d)  BY <1>2, <1>5 DEF Sole
<1>7. SoleWriter'  BY <1>5, <1>6 DEF SoleWriter, Exact
<1>8. SoleStored'  BY <1>2, <1>5, <1>6 DEF SoleStored, Exact
<1> QED  BY <1>7, <1>8 DEF Exact

(* What a call leaves in the file of a sole upload: all bytes from the     *)
(* first one that the size field did not cost.                             *)
LEMMA ChunkStored ==
  ASSUME Core, Exact, NEW c \in Conns, ReadData(c), Sole(c)
  PROVE  data'[info[c].local_file] =
           Sent(c, Start(c) - SizeBytes - info[c].local_file_pos + 1,
                Start(c) - SizeBytes + Chunk(c))
<1> DEFINE pos == info[c].local_file_pos
           lost == Start(c) - SizeBytes - pos
           k == Chunk(c)
           i == info[c].local_file
<1>1. /\ Uploading(c) /\ SizeComplete(c)
      /\ data' = IF i = -1 THEN data
                 ELSE [data EXCEPT ![i] = WriteAt(@, pos, Bytes(c))]
  BY ReadDataCases
<1>2. /\ info[c] \in ClientInfo /\ sock[c] \in SockType
      /\ sock[c].taken <= sock[c].body /\ Registered(c)
  BY <1>1 DEF Core, Connections, UploadProgress, Uploading, Handling, Registered
<1>3. /\ pos \in Nat /\ Start(c) \in Nat /\ SizeBytes \in Nat
      /\ lost \in Nat
  BY <1>1, <1>2, StartFacts, BoundsAssumption DEF Core, ClientInfo
<1>4. k \in Nat  BY <1>2, ChunkFacts DEF Core
<1>5. i \in Inodes /\ i # -1
  BY <1>2 DEF Sole, Uploading, ClientInfo
<1>6. data[i] = Sent(c, lost + 1, lost + pos)
  <2>1. data[i] = Stored(c)  BY DEF Exact, SoleStored
  <2>2. CASE info[c].size_read
    <3>1. Start(c) = sock[c].taken
      <4>1. SizeTaken(c) = 0  BY <1>2, <2>2, SizeTakenRange DEF Core
      <4>2. sock[c].taken \in Nat  BY <1>2 DEF SockType
      <4> QED  BY <4>1, <4>2 DEF Start
    <3>2. lost + pos = Start(c) - SizeBytes  BY <1>3
    <3> QED  BY <2>1, <2>2, <3>1, <3>2 DEF Stored
  <2>3. CASE ~info[c].size_read
    <3>1. pos = 0  BY <1>1, <2>3 DEF Core, UploadProgress
    <3>2. lost + pos = lost  BY <1>3, <3>1
    <3>3. Sent(c, lost + 1, lost) = <<>>  BY <1>3, SentNothing
    <3> QED  BY <2>1, <2>3, <3>2, <3>3 DEF Stored
  <2> QED  BY <2>2, <2>3
<1>7. Bytes(c) = Sent(c, lost + pos + 1, lost + pos + k)
  <2>1. lost + pos = Start(c) - SizeBytes  BY <1>3
  <2> QED  BY <2>1 DEF Bytes
<1>8. data'[i] = WriteAt(data[i], pos, Bytes(c))
  BY <1>1, <1>5 DEF Core, Tables
<1>9. lost + pos + k = Start(c) - SizeBytes + k  BY <1>3, <1>4
<1> HIDE DEF pos, lost, k, i
<1>10. data'[i] = Sent(c, lost + 1, lost + pos + k)
  <2>1. WriteAt(Sent(c, lost + 1, lost + pos), pos,
                Sent(c, lost + pos + 1, lost + pos + k))
          = Sent(c, lost + 1, lost + pos + k)
    <3>1. c \in Conns /\ lost \in Nat /\ pos \in Nat /\ k \in Nat
      BY <1>3, <1>4
    <3> QED  BY ONLY <3>1, WriteSent
  <2> QED  BY <1>6, <1>7, <1>8, <2>1
<1>11. data'[i] = Sent(c, lost + 1, Start(c) - SizeBytes + k)
  BY <1>9, <1>10
<1> QED  BY <1>11 DEF pos, lost, k, i

LEMMA ExactReadData ==
  ASSUME Core, Exact, NEW c \in Conns, ReadData(c) PROVE Exact'
<1>1. info \in [Conns -> ClientInfo] /\ sock \in [Conns -> SockType]
      /\ data \in [Inodes -> Seq(Byte)]
  BY DEF Core, Connections, Tables
<1>2. /\ Uploading(c) /\ SizeComplete(c)
      /\ data' = IF info[c].local_file = -1 THEN data
                 ELSE [data EXCEPT ![info[c].local_file] =
                         WriteAt(@, info[c].local_file_pos, Bytes(c))]
      /\ \/ Finish(c, "DONE", After(c))
         \/ Finish(c, "INCORRECT_DATA_AMOUNT", After(c))
         \/ Goes(c)
      /\ UNCHANGED shared
  BY ReadDataCases
<1>3. \A d \in Conns \ {c} : info'[d] = info[d] /\ sock'[d] = sock[d]
  BY <1>1, <1>2 DEF Finish, Goes
<1>4. Uploading(c)' => /\ Goes(c)
                       /\ info'[c].local_file = info[c].local_file
                       /\ info'[c].local_file_pos = info[c].local_file_pos + Chunk(c)
                       /\ info'[c].size_read
                       /\ sock'[c] = After(c)
  <2>1. ASSUME NEW st, Finish(c, st, After(c)) PROVE ~Uploading(c)'
    <3>1. info'[c].state = "REMOVED"  BY <1>1, <2>1 DEF Finish, Client
    <3> QED  BY <3>1 DEF Uploading, Handling
  <2>2. ASSUME Goes(c)
        PROVE  /\ info'[c].local_file = info[c].local_file
               /\ info'[c].local_file_pos = info[c].local_file_pos + Chunk(c)
               /\ info'[c].size_read
               /\ sock'[c] = After(c)
    <3>1. /\ sock' = [sock EXCEPT ![c] = After(c)]
          /\ info' = [info EXCEPT ![c].local_file_pos = @ + Chunk(c),
                                  ![c].buffer_position = 0,
                                  ![c].file_size = req[c].size,
                                  ![c].size_read = TRUE]
      BY <2>2 DEF Goes
    <3> QED  BY <1>1, <3>1 DEF ClientInfo
  <2> QED  BY <1>2, <2>1, <2>2
<1>5. ASSUME NEW d \in Conns, Sole(d)'
      PROVE  Sole(d) /\ info'[d].local_file = info[d].local_file
  <2>1. CASE d = c  BY <1>2, <1>4, <1>5, <2>1 DEF Sole
  <2>2. CASE d # c
    BY <1>2, <1>3, <1>5, <2>2 DEF Sole, Uploading, Handling
  <2> QED  BY <2>1, <2>2
<1>6. ASSUME NEW d \in Conns, Uploading(d)'
      PROVE  Uploading(d) /\ info'[d].local_file = info[d].local_file
  <2>1. CASE d = c  BY <1>2, <1>4, <1>6, <2>1
  <2>2. CASE d # c  BY <1>3, <1>6, <2>2 DEF Uploading, Handling
  <2> QED  BY <2>1, <2>2
<1>7. SoleWriter'  BY <1>5, <1>6 DEF SoleWriter, Exact
<1>8. SoleStored'
  <2> SUFFICES ASSUME NEW d \in Conns, Sole(d)'
               PROVE  data'[info'[d].local_file] = Stored(d)'
    BY DEF SoleStored
  <2>1. Sole(d) /\ info'[d].local_file = info[d].local_file  BY <1>5
  <2>2. CASE d = c
    <3>1. Uploading(c)'  BY <2>2 DEF Sole
    <3>2. data'[info[c].local_file] =
            Sent(c, Start(c) - SizeBytes - info[c].local_file_pos + 1,
                 Start(c) - SizeBytes + Chunk(c))
      BY <2>1, <2>2, ChunkStored
    <3>3. /\ Start(c) \in Nat /\ Chunk(c) \in Nat
          /\ After(c).taken = Start(c) + Chunk(c)
          /\ info[c].local_file_pos \in Nat /\ SizeBytes \in Nat
      <4>1. /\ sock[c].taken <= sock[c].body /\ Registered(c)
        BY <1>2 DEF Core, UploadProgress, Uploading, Handling, Registered
      <4> QED  BY <1>1, <4>1, ChunkFacts, BoundsAssumption DEF Core, ClientInfo
    <3>4. /\ After(c).taken - SizeBytes = Start(c) - SizeBytes + Chunk(c)
          /\ After(c).taken - SizeBytes - (info[c].local_file_pos + Chunk(c)) + 1
               = Start(c) - SizeBytes - info[c].local_file_pos + 1
      BY <3>3
    <3>5. Stored(c)' = Sent(c, After(c).taken - SizeBytes
                                 - (info[c].local_file_pos + Chunk(c)) + 1,
                            After(c).taken - SizeBytes)
      BY <1>4, <3>1 DEF Stored, Sent
    <3> QED  BY <2>1, <2>2, <3>2, <3>4, <3>5
  <2>3. CASE d # c
    <3>1. info[d].local_file # info[c].local_file
      BY <1>2, <2>1, <2>3 DEF Exact, SoleWriter
    <3>2. info[d].local_file \in Inodes
      BY <1>1, <2>1 DEF Sole, Uploading, ClientInfo
    <3>3. data'[info[d].local_file] = data[info[d].local_file]
      BY <1>1, <1>2, <3>1, <3>2
    <3>4. Stored(d)' = Stored(d)  BY <1>3, <2>3 DEF Stored
    <3> QED  BY <2>1, <3>3, <3>4 DEF Exact, SoleStored
  <2> QED  BY <2>2, <2>3
<1> QED  BY <1>7, <1>8 DEF Exact

LEMMA ExactInit == Init => Exact
BY DEF Init, Exact, SoleWriter, SoleStored, Sole, Uploading, Handling, Client

LEMMA ExactEvent ==
  ASSUME Core, Exact, NEW c \in Conns, Event(c) PROVE Exact'
<1>1. CASE Quiet(c)
  <2>1. ~Uploading(c)' /\ UNCHANGED <<data, shared>>  BY <1>1, QuietFacts
  <2>2. \A d \in Conns : Untouched(d)
    BY <2>1, EventOthers DEF Untouched, Uploading, Handling
  <2> QED  BY <2>1, <2>2, ExactFrame
<1>2. CASE PutOpen(c)  BY <1>2, ExactPutOpen
<1>3. CASE ReadSize(c)  BY <1>3, ExactReadSize
<1>4. CASE ReadData(c)  BY <1>4, ExactReadData
<1> QED  BY <1>1, <1>2, <1>3, <1>4 DEF Event, Put, Quiet

LEMMA ExactStep == Core /\ Exact /\ [Next]_vars => Exact'
<1> SUFFICES ASSUME Core, Exact, [Next]_vars PROVE Exact'  OBVIOUS
<1>1. info \in [Conns -> ClientInfo] /\ sock \in [Conns -> SockType]
  BY DEF Core, Connections
<1>2. ASSUME NEW c \in Conns, Peer(c) PROVE Exact'
  <2>1. /\ UNCHANGED <<info, data, shared>>
        /\ \A d \in Conns : sock'[d].taken = sock[d].taken
    <3>1. UNCHANGED <<info, data, shared>>  BY <1>2 DEF Peer, store
    <3>2. CASE SendHead(c)  BY <1>1, <3>1, <3>2 DEF SendHead, SockType
    <3>3. CASE SendBody(c)  BY <1>1, <3>1, <3>3 DEF SendBody, SockType
    <3>4. CASE PeerEnds(c)
      <4>1. PICK f : sock' = [sock EXCEPT ![c].fin = f]  BY <3>4 DEF PeerEnds
      <4> QED  BY <1>1, <3>1, <4>1 DEF SockType
    <3> QED  BY <1>2, <3>1, <3>2, <3>3, <3>4 DEF Peer
  <2>2. \A d \in Conns : /\ Stored(d)' = Stored(d)
                         /\ Sole(d)' <=> Sole(d)
                         /\ Uploading(d)' <=> Uploading(d)
    BY <2>1 DEF Stored, Sole, Uploading, Handling
  <2> QED  BY <2>1, <2>2 DEF Exact, SoleWriter, SoleStored
<1>3. ASSUME NEW c \in Conns, NEW r \in Requests, Accept(c, r) PROVE Exact'
  <2>1. UNCHANGED <<sock, data, shared>>  BY <1>3 DEF Accept, store
  <2>2. info' = [info EXCEPT ![c] = Client("READING_VERB")]  BY <1>3 DEF Accept
  <2>3. ~Uploading(c)'
    BY <1>1, <2>2 DEF Uploading, Handling, Client
  <2>4. \A d \in Conns \ {c} : info'[d] = info[d]  BY <1>1, <2>2
  <2>5. \A d \in Conns : Untouched(d)
    BY <2>1, <2>3, <2>4 DEF Untouched, Uploading, Handling
  <2> QED  BY <2>1, <2>5, ExactFrame
<1>4. ASSUME Lose PROVE Exact'
  <2>1. UNCHANGED <<data, shared>>  BY <1>4 DEF Lose
  <2>2. \A d \in Conns : ~Uploading(d)'
    BY <1>4 DEF Lose, Uploading, Handling, Registered, Client
  <2>3. \A d \in Conns : Untouched(d)  BY <2>2 DEF Untouched
  <2> QED  BY <2>1, <2>3, ExactFrame
<1>5. ASSUME UNCHANGED <<info, sock, data, shared>> PROVE Exact'
  <2>1. \A d \in Conns : Untouched(d)
    BY <1>5 DEF Untouched, Uploading, Handling
  <2> QED  BY <1>5, <2>1, ExactFrame
<1>6. CASE Restart \/ UNCHANGED vars  BY <1>5, <1>6 DEF Restart, peers, vars
<1>7. CASE Stop \/ \E c \in Conns : AcceptFails(c)
  BY <1>4, <1>7 DEF Stop, AcceptFails
<1> QED  BY <1>2, <1>3, <1>6, <1>7, ExactEvent DEF Next

-----------------------------------------------------------------------------
(* put() never gets past the declared size without ending the upload, so   *)
(* that its last read takes no more than ReadMax bytes too many.           *)

Within == \A c \in Conns : Uploading(c) => info[c].local_file_pos <= req[c].size

LEMMA DivisionBound ==
  ASSUME NEW a \in Nat, NEW b \in Nat \ {0} PROVE b * (a \div b) <= a
OBVIOUS

LEMMA WantedBound ==
  ASSUME NEW need \in Nat PROVE Wanted(need) <= need + ReadMax
<1>1. CASE need <= 0  BY <1>1, BoundsAssumption DEF Wanted
<1>2. CASE need > 0
  <2>1. need + ReadMax - 1 \in Nat /\ ReadMax \in Nat \ {0}
    BY <1>2, BoundsAssumption
  <2>2. ReadMax * ((need + ReadMax - 1) \div ReadMax) <= need + ReadMax - 1
    BY <2>1, DivisionBound
  <2>3. Wanted(need) <= need + ReadMax - 1  BY <1>2, <2>2 DEF Wanted
  <2>4. Wanted(need) \in Nat  BY WantedNat
  <2> QED  BY <2>1, <2>3, <2>4
<1> QED  BY <1>1, <1>2

LEMMA WithinFrame ==
  ASSUME Within,
         \A d \in Conns : Untouched(d) /\ (Uploading(d)' => req'[d] = req[d])
  PROVE  Within'
BY DEF Within, Untouched

LEMMA WithinPutOpen ==
  ASSUME Core, Within, NEW c \in Conns, PutOpen(c) PROVE Within'
<1>1. info \in [Conns -> ClientInfo] /\ sock \in [Conns -> SockType]
  BY DEF Core, Connections
<1>2. /\ info[c].state = "HANDLING_VERB" /\ info[c].local_file_pos = 0
      /\ Registered(c)
  BY DEF PutOpen, Handling, Uploading, Registered, Core, UploadProgress
<1>3. UNCHANGED req /\ req[c].size \in Nat
  BY <1>2, RequestFacts DEF PutOpen, Core
<1>4. info'[c].local_file_pos = 0
  <2>1. PICK fd : info' = [info EXCEPT ![c].local_file = fd, ![c].header = None]
    BY DEF PutOpen
  <2> QED  BY <1>1, <1>2, <2>1 DEF ClientInfo
<1>5. \A d \in Conns \ {c} : info'[d] = info[d]  BY <1>1 DEF PutOpen
<1> QED  BY <1>3, <1>4, <1>5 DEF Within, Uploading, Handling

LEMMA WithinReadSize ==
  ASSUME Core, Within, NEW c \in Conns, ReadSize(c) PROVE Within'
<1>1. info \in [Conns -> ClientInfo]  BY DEF Core, Connections
<1>2. /\ Uploading(c) /\ UNCHANGED req
      /\ info' = [info EXCEPT ![c].buffer_position = @ + SizeTaken(c)]
  BY DEF ReadSize
<1>3. info'[c].local_file_pos = info[c].local_file_pos
  BY <1>1, <1>2 DEF ClientInfo
<1>4. \A d \in Conns \ {c} : info'[d] = info[d]  BY <1>1, <1>2
<1> QED  BY <1>2, <1>3, <1>4 DEF Within, Uploading, Handling

LEMMA WithinReadData ==
  ASSUME Core, Within, NEW c \in Conns, ReadData(c) PROVE Within'
<1>1. info \in [Conns -> ClientInfo] /\ sock \in [Conns -> SockType]
  BY DEF Core, Connections
<1>2. /\ Uploading(c) /\ UNCHANGED req
      /\ \/ \E st : Finish(c, st, After(c))
         \/ Goes(c) /\ (Chunk(c) < Need(c) \/ Chunk(c) <= 0)
  <2>1. \/ \E st : Finish(c, st, After(c))
        \/ /\ Goes(c)
           /\ ~(Chunk(c) >= Need(c) /\ (Chunk(c) > 0 \/ sock[c].fin = "fin"))
    BY DEF ReadData, Start, Need, Chunk, After, Goes
  <2>2. Uploading(c) /\ UNCHANGED req  BY DEF ReadData
  <2>3. /\ sock[c].taken <= sock[c].body /\ Registered(c)
    BY <2>2 DEF Core, UploadProgress, Uploading, Handling, Registered
  <2>4. Chunk(c) \in Nat  BY <2>3, ChunkFacts DEF Core
  <2>5. Need(c) \in Int
    BY <1>1, <2>3, RequestFacts DEF Need, ClientInfo, Core
  <2> QED  BY <2>1, <2>2, <2>4, <2>5
<1>3. Registered(c) /\ sock[c].taken <= sock[c].body
  BY <1>2 DEF Core, UploadProgress, Uploading, Handling, Registered
<1>4. /\ Chunk(c) \in Nat
      /\ info[c].local_file_pos \in Nat
      /\ req[c].size \in Nat
      /\ info[c].local_file_pos <= req[c].size
  BY <1>1, <1>2, <1>3, ChunkFacts, RequestFacts DEF Core, ClientInfo, Within
<1>5. \A d \in Conns \ {c} : info'[d] = info[d]
  BY <1>1, <1>2 DEF Finish, Goes
<1>6. Uploading(c)' => info'[c].local_file_pos <= req[c].size
  <2>1. ASSUME NEW st, Finish(c, st, After(c)) PROVE ~Uploading(c)'
    <3>1. info'[c].state = "REMOVED"  BY <1>1, <2>1 DEF Finish, Client
    <3> QED  BY <3>1 DEF Uploading, Handling
  <2>2. ASSUME Goes(c), Chunk(c) < Need(c) \/ Chunk(c) <= 0
        PROVE  info'[c].local_file_pos <= req[c].size
    <3>1. info' = [info EXCEPT ![c].local_file_pos = @ + Chunk(c),
                               ![c].buffer_position = 0,
                               ![c].file_size = req[c].size,
                               ![c].size_read = TRUE]
      BY <2>2 DEF Goes
    <3>2. info'[c].local_file_pos = info[c].local_file_pos + Chunk(c)
      BY <1>1, <3>1 DEF ClientInfo
    <3> QED  BY <1>4, <2>2, <3>2 DEF Need
  <2> QED  BY <1>2, <2>1, <2>2
<1> QED  BY <1>2, <1>5, <1>6 DEF Within, Uploading, Handling

LEMMA WithinStep == Core /\ Within /\ [Next]_vars => Within'
<1> SUFFICES ASSUME Core, Within, [Next]_vars PROVE Within'  OBVIOUS
<1>1. info \in [Conns -> ClientInfo] /\ req \in [Conns -> Requests \cup {None}]
  BY DEF Core, Connections
<1>2. ASSUME UNCHANGED <<info, req>> PROVE Within'
  BY <1>2 DEF Within, Uploading, Handling
<1>3. ASSUME NEW c \in Conns, Event(c) PROVE Within'
  <2>1. CASE Quiet(c)
    <3>1. ~Uploading(c)'  BY <2>1, QuietFacts
    <3>2. UNCHANGED req
      BY <2>1 DEF Quiet, ParseVerb, ReadFileName, Get, GetLocal, GetRedirect,
         GetMissing, PutRedirect, Delete, DeleteFile, DeleteMissing, ListFiles,
         AddServer
    <3>3. \A d \in Conns : Untouched(d)
      BY <1>3, <3>1, EventOthers DEF Untouched, Uploading, Handling
    <3> QED  BY <3>2, <3>3, WithinFrame
  <2> QED
    BY <1>3, <2>1, WithinPutOpen, WithinReadSize, WithinReadData
    DEF Event, Put, Quiet
<1>4. ASSUME NEW c \in Conns, NEW q \in Requests, Accept(c, q) PROVE Within'
  <2>1. /\ info' = [info EXCEPT ![c] = Client("READING_VERB")]
        /\ req' = [req EXCEPT ![c] = q]
    BY <1>4 DEF Accept
  <2>2. ~Uploading(c)'  BY <1>1, <2>1 DEF Uploading, Handling, Client
  <2>3. \A d \in Conns \ {c} : info'[d] = info[d] /\ req'[d] = req[d]
    BY <1>1, <2>1
  <2> QED  BY <2>2, <2>3 DEF Within, Uploading, Handling
<1>5. ASSUME Lose PROVE Within'
  BY <1>5 DEF Lose, Within, Uploading, Handling, Registered, Client
<1>6. CASE Restart \/ UNCHANGED vars \/ \E c \in Conns : Peer(c)
  BY <1>2, <1>6 DEF Restart, peers, vars, Peer
<1> QED  BY <1>3, <1>4, <1>5, <1>6 DEF Next, Stop, AcceptFails

-----------------------------------------------------------------------------
(* UploadExact.                                                            *)

(* An upload ends without an error in one way only. *)
LEMMA AcceptingCall ==
  ASSUME Core, [Next]_vars, NEW c \in Conns, Accepts(c)
  PROVE  ReadData(c) /\ Chunk(c) >= Need(c) /\ Finish(c, "DONE", After(c))
<1>1. info \in [Conns -> ClientInfo] /\ sock \in [Conns -> SockType]
  BY DEF Core, Connections
<1>2. Uploading(c) /\ info'[c].state = "REMOVED" /\ info[c].state = "HANDLING_VERB"
  BY DEF Accepts, Uploading, Handling
<1>3. info'[c] # info[c]  BY <1>2
<1>4. Event(c)
  <2>1. ASSUME Lose PROVE FALSE
    BY <1>2, <2>1 DEF Lose, Registered, Client
  <2>2. ASSUME NEW d \in Conns, NEW r \in Requests, Accept(d, r) PROVE FALSE
    BY <1>1, <1>2, <2>2 DEF Accept, Client
  <2>3. ASSUME NEW d \in Conns, Event(d) PROVE d = c
    BY <1>3, <2>3, EventOthers
  <2> QED
    BY <1>3, <2>1, <2>2, <2>3
    DEF Next, Stop, AcceptFails, Peer, Restart, vars
<1>5. ~Quiet(c) /\ ~PutOpen(c)
  BY <1>2, QuietFacts DEF PutOpen, Uploading
<1>6. ~ReadSize(c)
  <2>1. ASSUME ReadSize(c) PROVE info'[c].state = info[c].state
    BY <1>1, <2>1 DEF ReadSize, ClientInfo
  <2> QED  BY <1>2, <2>1
<1>7. ReadData(c)  BY <1>4, <1>5, <1>6 DEF Event, Put, Quiet
<1>8. \/ Chunk(c) >= Need(c) /\ Finish(c, "DONE", After(c))
      \/ Finish(c, "INCORRECT_DATA_AMOUNT", After(c))
      \/ Goes(c)
  BY <1>7 DEF ReadData, Start, Need, Chunk, After, Goes
<1>9. ~Goes(c)
  <2>1. ASSUME Goes(c) PROVE info'[c].state = info[c].state
    BY <1>1, <2>1 DEF Goes, ClientInfo
  <2> QED  BY <1>2, <2>1
<1>10. ~Finish(c, "INCORRECT_DATA_AMOUNT", After(c))
  <2> SUFFICES ASSUME Finish(c, "INCORRECT_DATA_AMOUNT", After(c)) PROVE FALSE
    OBVIOUS
  <2> DEFINE error == <<<<"ERROR">>, <<"BAD_FILE_SIZE">>>>
             out == After(c).out
  <2>1. error \in Seq(Messages)
    BY ShortSequences DEF Messages
  <2>2. After(c) \in SockType
    <3>1. sock[c].taken <= sock[c].body /\ Registered(c)
      BY <1>2 DEF Core, UploadProgress, Registered
    <3> QED  BY <3>1, ChunkFacts DEF Core
  <2>3. out \in Seq(Messages)  BY <2>2 DEF SockType
  <2>4. sock'[c].out = out \o error
    <3>1. sock'[c] = [After(c) EXCEPT !.out = @ \o error]
      BY <1>1 DEF Finish, ErrorReply
    <3> QED  BY <2>2, <3>1 DEF SockType
  <2> HIDE DEF out
  <2>5. /\ Len(out) \in Nat /\ Len(error) = 2
        /\ error[1] = <<"ERROR">>
    BY <2>3
  <2> HIDE DEF error
  <2>6. /\ out \o error \in Seq(Messages)
        /\ Len(out \o error) = Len(out) + 2
        /\ (out \o error)[Len(out) + 1] = error[1]
    <3>1. /\ out \o error \in Seq(Messages)
          /\ Len(out \o error) = Len(out) + Len(error)
          /\ \A i \in 1..Len(out) + Len(error) :
               (out \o error)[i] = IF i <= Len(out) THEN out[i]
                                   ELSE error[i - Len(out)]
      BY <2>1, <2>3, ConcatProperties
    <3>2. /\ Len(out) + 1 \in 1..Len(out) + Len(error)
          /\ ~(Len(out) + 1 <= Len(out))
          /\ Len(out) + 1 - Len(out) = 1
      BY <2>5
    <3> QED  BY <2>5, <3>1, <3>2
  <2>7. Len(out) + 1 \in DOMAIN sock'[c].out  BY <2>4, <2>5, <2>6
  <2>8. sock'[c].out[Len(out) + 1][1] = "ERROR"  BY <2>4, <2>5, <2>6
  <2> QED  BY <2>7, <2>8 DEF Accepts
<1> QED  BY <1>7, <1>8, <1>9, <1>10

LEMMA AcceptedExactly ==
  ASSUME Core, Exact, Within, [Next]_vars, NEW c \in Conns, Accepts(c),
         c \notin shared
  PROVE  \E lost \in 0..(SizeBytes - 1) :
           /\ sock'[c].taken - SizeBytes - lost
                \in req[c].size..(req[c].size + ReadMax)
           /\ IF info[c].local_file = -1 THEN data' = data
              ELSE data'[info[c].local_file] =
                     Sent(c, lost + 1, sock'[c].taken - SizeBytes)
<1> DEFINE lost == Start(c) - SizeBytes - info[c].local_file_pos
<1>1. ReadData(c) /\ Chunk(c) >= Need(c) /\ Finish(c, "DONE", After(c))
  BY AcceptingCall
<1>2. Uploading(c) /\ SizeComplete(c) /\ Registered(c)
  BY <1>1, ReadDataCases DEF Uploading, Handling, Registered
<1>3. /\ info[c] \in ClientInfo /\ sock[c].taken <= sock[c].body
      /\ info \in [Conns -> ClientInfo] /\ sock \in [Conns -> SockType]
  BY DEF Core, Connections, UploadProgress
<1>4. /\ Start(c) \in Nat /\ lost \in 0..(SizeBytes - 1)
      /\ info[c].local_file_pos \in Nat /\ SizeBytes \in Nat
      /\ ReadMax \in Nat
  BY <1>2, <1>3, StartFacts, BoundsAssumption DEF Core, ClientInfo
<1>5. /\ Chunk(c) \in Nat /\ After(c) \in SockType
      /\ After(c).taken = Start(c) + Chunk(c)
      /\ Start(c) + Chunk(c) <= sock[c].body
  BY <1>2, <1>3, ChunkFacts DEF Core
<1>6. sock'[c].taken = Start(c) + Chunk(c)
  BY <1>1, <1>3, <1>5, FinishFacts DEF Finals
<1>7. req[c].size \in Nat /\ info[c].local_file_pos <= req[c].size
  BY <1>2, RequestFacts DEF Core, Within
<1>8. Chunk(c) + info[c].local_file_pos >= req[c].size
  BY <1>1, <1>4, <1>5, <1>7 DEF Need
<1>9. Chunk(c) + info[c].local_file_pos <= req[c].size + ReadMax
  <2>1. Need(c) \in Nat  BY <1>4, <1>7 DEF Need
  <2>2. Wanted(Need(c)) \in Nat /\ Wanted(Need(c)) <= Need(c) + ReadMax
    BY <2>1, WantedNat, WantedBound
  <2>3. sock[c].body - Start(c) \in Nat
    BY <1>3, <1>4, <1>5 DEF SockType
  <2>4. Chunk(c) <= Wanted(Need(c))  BY <2>2, <2>3, LeastNat DEF Chunk
  <2> QED  BY <1>4, <1>5, <1>7, <2>1, <2>2, <2>4 DEF Need
<1>10. sock'[c].taken - SizeBytes - lost
         \in req[c].size..(req[c].size + ReadMax)
  BY <1>4, <1>5, <1>6, <1>7, <1>8, <1>9
<1>11. sock'[c].taken - SizeBytes = Start(c) - SizeBytes + Chunk(c)
  BY <1>4, <1>5, <1>6
<1>12. ASSUME info[c].local_file # -1
       PROVE  data'[info[c].local_file] =
                Sent(c, lost + 1, Start(c) - SizeBytes + Chunk(c))
  BY <1>1, <1>2, <1>12, ChunkStored DEF Sole
<1>13. info[c].local_file = -1 => data' = data  BY <1>1, ReadDataCases
<1> HIDE DEF lost
<1> QED  BY <1>4, <1>10, <1>11, <1>12, <1>13

(* An upload that ends without an error, and shared its file with no other *)
(* upload, is on the disk as it was read: nothing of the former content,   *)
(* nothing of another connection, nothing missing but what an incomplete   *)
(* size field cost, and of a surplus no more than one read() takes.  One   *)
(* whose file could not be opened ends like that too, and stores nothing.  *)
THEOREM AcceptedUploadsExact == Spec => UploadExact
<1>1. Spec => [](Core /\ Exact /\ Within)
  <2>1. Init => Exact /\ Within
    BY ExactInit DEF Init, Within, Uploading, Handling, Client
  <2>2. Core /\ Exact /\ Within /\ [Next]_vars => Exact' /\ Within'
    BY ExactStep, WithinStep
  <2> QED  BY <2>1, <2>2, CoreInvariant, PTL DEF Spec
<1> DEFINE A == \A c \in Conns :
       Accepts(c) /\ c \notin shared =>
         LET i == info[c].local_file
             n == sock'[c].taken - SizeBytes
         IN \E lost \in 0..(SizeBytes - 1) :
              /\ n - lost \in req[c].size..(req[c].size + ReadMax)
              /\ IF i = -1 THEN data' = data
                 ELSE data'[i] = Sent(c, lost + 1, n)
<1>2. Core /\ Exact /\ Within /\ [Next]_vars => [A]_vars
  BY AcceptedExactly
<1>3. UploadExact <=> [][A]_vars  BY DEF UploadExact
<1> HIDE DEF A
<1> QED  BY <1>1, <1>2, <1>3, PTL DEF Spec

=============================================================================
