------------------------------- MODULE Server -------------------------------
(***************************************************************************)
(* One Pi-Share server process (server.c): the epoll loop, the connections *)
(* it serves, the Pi-Share directory and the tables that route a file to a *)
(* sub-server.  The process is single threaded, so a handler call is one   *)
(* step; what interleaves is handler calls of different connections, the   *)
(* arrival of bytes from the peers, and the end and restart of the process.*)
(*                                                                         *)
(* A request is a header line (two pieces: the verb and the rest of the    *)
(* line) and, for PUT, a body: the SizeBytes bytes of a size_t followed by *)
(* the data bytes.  Bytes of a body are numbered, so that what reaches the *)
(* disk can be compared with what was sent.                                *)
(***************************************************************************)
EXTENDS Integers, Sequences, FiniteSets, SequencesExt

CONSTANTS
  Conns,      \* connections over the life of the model, each used once
  Names,      \* file names
  Subs,       \* addresses (ip, port) of sub-servers
  Requests,   \* the requests peers may send
  SizeBytes,  \* bytes of the size field of a PUT, sizeof(size_t)
  ReadMax,    \* bytes of one read() of file data, 1024 in put()
  FdLimit,    \* descriptors the process may open beyond those of start-up
  None        \* no file, no server, no name

(***************************************************************************)
(* An inode is named after what created it: a connection whose PUT found   *)
(* no file, or the name of a file that was there before the first start.   *)
(***************************************************************************)
Inodes == Conns \cup Names

Verbs == {"GET", "PUT", "DELETE", "LIST", "ADD_SERVER", "V_UNKNOWN"}

(***************************************************************************)
(* verb V_UNKNOWN: the first eleven bytes match no verb.  name None: no    *)
(* newline within the header buffer.  size: the declared size of a PUT,    *)
(* len: the data bytes its peer has.  sub: who registers, which is what    *)
(* the header line of ADD_SERVER holds.                                    *)
(***************************************************************************)
RequestType == [verb : Verbs, name : Names \cup {None}, size : Nat, len : Nat,
                sub : Subs \cup {None}]

ASSUME ValuesAssumption ==
  /\ None \notin Inodes \cup Subs
  /\ Conns \cap Names = {}
  /\ {0, -1} \cap Inodes = {}
  /\ Names \cap Subs = {}
  /\ IsFiniteSet(Names)

ASSUME BoundsAssumption ==
  /\ SizeBytes \in Nat \ {0}
  /\ ReadMax \in Nat \ {0}
  /\ FdLimit \in Nat
  /\ Requests \subseteq RequestType
  /\ \A r \in Requests : r.verb = "ADD_SERVER" => r.sub \in Subs

VARIABLES
  process,               \* running, stopped by SIGINT or a crash, exited
  info,                  \* client_dictionary: connection -> client_info
  req,                   \* what the peer of a connection is sending
  sock,                  \* the kernel's side of a connection
  files,                 \* vector of the names the server holds itself
  dir,                   \* the Pi-Share directory: name -> inode
  data,                  \* inode -> bytes
  file_to_server,        \* dictionary: name -> sub-server
  mini_servers,          \* vector of registered sub-servers
  current_server_index,  \* whose turn the next PUT is, 0 is this server
  fds,                   \* descriptors opened since start-up
  shared,                \* history: uploads that shared an inode while open
  unopened               \* history: names that put() listed and could not open

peers   == <<req, sock>>
store   == <<files, dir, data, shared, unopened>>
routing == <<file_to_server, mini_servers, current_server_index>>
vars    == <<process, info, req, sock, files, dir, data, file_to_server,
             mini_servers, current_server_index, fds, shared, unopened>>

(***************************************************************************)
(* client_info.  local_file is 0 until put() opens a file, -1 if open()    *)
(* failed, otherwise the inode.  NONE: not accepted yet; REMOVED: taken    *)
(* out of the dictionary; LOST: the process ended first.                   *)
(***************************************************************************)
States == {"NONE", "READING_VERB", "READING_HEADER", "HANDLING_VERB",
           "REMOVED", "LOST"}

ClientInfo == [state : States, action : Verbs, header : Names \cup Subs \cup {None},
               local_file : Inodes \cup {0, -1}, local_file_pos : Nat,
               buffer_position : Nat, file_size : Nat, size_read : BOOLEAN]

Client(st) == [state |-> st, action |-> "V_UNKNOWN", header |-> None,
               local_file |-> 0, local_file_pos |-> 0, buffer_position |-> 0,
               file_size |-> 0, size_read |-> FALSE]

Registered(c) ==
  info[c].state \in {"READING_VERB", "READING_HEADER", "HANDLING_VERB"}

Handling(c, verb) == info[c].state = "HANDLING_VERB" /\ info[c].action = verb

(***************************************************************************)
(* The kernel's side: header pieces and body bytes that arrived, body      *)
(* bytes the server has read, how the peer ended its direction, and the    *)
(* messages the server wrote, whether or not the peer was there to get     *)
(* them.  ANY_SIZE is a size that was never set: any number.               *)
(***************************************************************************)
Byte == (Inodes \cup {None}) \X Nat
Hole == <<None, 0>>

Messages ==
  {<<k>> : k \in {"OK", "HERE", "ANY_SIZE", "ERROR", "BAD_REQUEST",
                  "NO_SUCH_FILE", "BAD_FILE_SIZE"}}
    \cup ({"SIZE"} \X Nat) \cup ({"DATA"} \X Seq(Byte))
    \cup ({"REDIRECT"} \X Subs) \cup ({"LISTING"} \X SUBSET Names)

SockType == [head : 0..2, body : Nat, taken : Nat,
             fin : {"open", "fin", "rst"}, out : Seq(Messages)]

NewSock == [head |-> 0, body |-> 0, taken |-> 0, fin |-> "open", out |-> <<>>]

Said(c, kind) == \E i \in DOMAIN sock[c].out : sock[c].out[i][1] = kind

-----------------------------------------------------------------------------
(***************************************************************************)
(* Helpers, each with the slips that its property is there to catch.       *)
(***************************************************************************)
Least(a, b) == IF a <= b THEN a ELSE b

Present == {n \in Names : dir[n] # None}

(* What the header line of a request names, None if it has no newline. *)
HeaderLine(r) == IF r.verb = "ADD_SERVER" THEN r.sub ELSE r.name

(* What was in a file before the first start. *)
Old(n) == <<<<n, 1>>, <<n, 2>>>>

(* The data bytes i..j of the body that c sends. *)
Sent(c, i, j) == [k \in 1..(j - i + 1) |-> <<c, i + k - 1>>]

(* put(): the turn passes over all sub-servers and this server. *)
NextIndexPastEnd(i, n) == (i + 1) % (n + 2)
NextIndex(i, n) == (i + 1) % (n + 1)

(* put(): a name enters the vector once. *)
EnlistAlways(names, n) == Append(names, n)
Enlist(names, n) ==
  IF n \in ToSet(names) THEN names ELSE Append(names, n)

(* open(O_CREAT | O_TRUNC): which inode, and what is left in it. *)
OpenInode(n, c) == IF dir[n] = None THEN c ELSE dir[n]
KeepContent(content) == content
Truncate(content) == <<>>

(* write() at the offset of the descriptor; a gap left by a truncation
   under the writer reads as zeros. *)
WriteAtEnd(content, pos, bytes) == content \o bytes
WriteAt(content, pos, bytes) ==
  IF bytes = <<>> THEN content
  ELSE LET last == pos + Len(bytes)
       IN [p \in 1..(IF last > Len(content) THEN last ELSE Len(content)) |->
             IF pos < p /\ p <= last THEN bytes[p - pos]
             ELSE IF p <= Len(content) THEN content[p] ELSE Hole]

(* put(): bytes the read loop takes before local_file_pos reaches the size:
   whole reads of ReadMax bytes, and at least one of them. *)
Wanted(need) ==
  IF need <= 0 THEN ReadMax
  ELSE ReadMax * ((need + ReadMax - 1) \div ReadMax)

(* put(): read() returned 0 or an error once everything was read. *)
EndUnseen(fin) == FALSE
EndSeen(fin) == fin # "open"

(* main(): what follows the handler for each state it can leave behind. *)
ErrorReply ==
  [DONE                  |-> <<>>,
   INVALID_VERB          |-> <<<<"ERROR">>, <<"BAD_REQUEST">>>>,
   INVALID_FILE          |-> <<<<"ERROR">>, <<"NO_SUCH_FILE">>>>,
   INCORRECT_DATA_AMOUNT |-> <<<<"ERROR">>, <<"BAD_FILE_SIZE">>>>]

(* parse_verb(): LIST has no header line to read. *)
AfterVerbAtOnce(verb) == "HANDLING_VERB"
AfterVerb(verb) ==
  IF verb = "LIST" THEN "HANDLING_VERB" ELSE "READING_HEADER"

(* add_server(): the vector of redirection targets. *)
RegisterNothing(servers, s) == servers
Register(servers, s) == Append(servers, s)

(* The handler left connection c in a final state st with s in its socket:
   main() writes the error, shuts the socket down and drops the entry. *)
Finish(c, st, s) ==
  /\ info' = [info EXCEPT ![c] = Client("REMOVED")]
  /\ sock' = [sock EXCEPT ![c] = [s EXCEPT !.out = @ \o ErrorReply[st]]]

Reply(c, msgs) == [sock[c] EXCEPT !.out = @ \o msgs]

-----------------------------------------------------------------------------
Init ==
  /\ process = "running"
  /\ info = [c \in Conns |-> Client("NONE")]
  /\ req = [c \in Conns |-> None]
  /\ sock = [c \in Conns |-> NewSock]
  /\ \E S \in SUBSET Names :
       /\ dir = [n \in Names |-> IF n \in S THEN n ELSE None]
       /\ data = [i \in Inodes |-> IF i \in S THEN Old(i) ELSE <<>>]
       /\ files \in SetToSeqs(S)
  /\ file_to_server = [n \in Names |-> None]
  /\ mini_servers = <<>>
  /\ current_server_index = 0
  /\ fds = 0
  /\ shared = {}
  /\ unopened = {}

(***************************************************************************)
(* The peers.  A client writes its header line, waits for the answer of    *)
(* put() before it writes a body, and may end at any point: "fin" when it  *)
(* shuts down its direction or exits, "rst" when it is reset.              *)
(***************************************************************************)
Pieces(r) == IF r.verb \in {"LIST", "V_UNKNOWN"} THEN 1 ELSE 2

Open(c) == Registered(c) /\ sock[c].fin = "open"

SendHead(c) ==
  /\ Open(c)
  /\ sock[c].head < Pieces(req[c])
  /\ sock' = [sock EXCEPT ![c].head = @ + 1]

SendBody(c) ==
  /\ Open(c)
  /\ Said(c, "HERE")
  /\ sock[c].body < SizeBytes + req[c].len
  /\ sock' = [sock EXCEPT ![c].body = @ + 1]

PeerEnds(c) ==
  /\ Open(c)
  /\ \E f \in {"fin", "rst"} : sock' = [sock EXCEPT ![c].fin = f]

Peer(c) ==
  /\ SendHead(c) \/ SendBody(c) \/ PeerEnds(c)
  /\ UNCHANGED <<process, info, req, store, routing, fds>>

(***************************************************************************)
(* The listening socket.  No descriptor is ever closed.  When accept()     *)
(* fails for want of one, set_nonblocking(-1) ends the process.            *)
(***************************************************************************)
(* The end of the process: what it held in memory is gone. *)
Lose ==
  /\ info' = [c \in Conns |-> IF Registered(c) THEN Client("LOST") ELSE info[c]]
  /\ files' = <<>>
  /\ file_to_server' = [n \in Names |-> None]
  /\ mini_servers' = <<>>
  /\ current_server_index' = 0
  /\ fds' = 0
  /\ UNCHANGED <<peers, dir, data, shared, unopened>>

Accept(c, r) ==
  /\ process = "running"
  /\ info[c].state = "NONE"
  /\ fds < FdLimit
  /\ fds' = fds + 1
  /\ info' = [info EXCEPT ![c] = Client("READING_VERB")]
  /\ req' = [req EXCEPT ![c] = r]
  /\ UNCHANGED <<process, sock, store, routing>>

AcceptFails(c) ==
  /\ process = "running"
  /\ info[c].state = "NONE"
  /\ fds >= FdLimit
  /\ process' = "exited"
  /\ Lose

-----------------------------------------------------------------------------
(***************************************************************************)
(* parse_verb() and read_file_name().  A read that finds nothing leaves    *)
(* the connection as it is, which needs no action.                         *)
(***************************************************************************)
ParseVerb(c) ==
  /\ info[c].state = "READING_VERB"
  /\ \/ /\ sock[c].head >= 1
        /\ req[c].verb # "V_UNKNOWN"
        /\ info' = [info EXCEPT ![c].action = req[c].verb,
                                ![c].state = AfterVerb(req[c].verb)]
        /\ UNCHANGED sock
     \/ /\ sock[c].head >= 1
        /\ req[c].verb = "V_UNKNOWN"
        /\ Finish(c, "INVALID_VERB", sock[c])
     \/ /\ sock[c].head = 0
        /\ sock[c].fin # "open"
        /\ Finish(c, "INVALID_VERB", sock[c])
  /\ UNCHANGED <<process, req, store, routing, fds>>

ReadFileName(c) ==
  /\ info[c].state = "READING_HEADER"
  /\ \/ /\ sock[c].head = 2
        /\ HeaderLine(req[c]) # None
        /\ info' = [info EXCEPT ![c].header = HeaderLine(req[c]),
                                ![c].state = "HANDLING_VERB"]
        /\ UNCHANGED sock
     \/ /\ sock[c].head = 2
        /\ HeaderLine(req[c]) = None
        /\ Finish(c, "INCORRECT_DATA_AMOUNT", sock[c])
     \/ /\ sock[c].head < 2
        /\ sock[c].fin # "open"
        /\ Finish(c, "INCORRECT_DATA_AMOUNT", sock[c])
  /\ UNCHANGED <<process, req, store, routing, fds>>

(***************************************************************************)
(* get().  open() fails if there is no such file or no descriptor left,    *)
(* and may fail for reasons of the system (ENFILE, EACCES).  Its result is *)
(* not checked: the size sent is then whatever the stat structure held,    *)
(* and no data follows.  get() and list() give up if the size cannot be    *)
(* written.                                                                *)
(***************************************************************************)
Listed(n) == n \in ToSet(files)

(* write() to a peer that is gone fails, at the latest the second one. *)
WriteMayFail(c) == sock[c].fin # "open"

GetLocal(c) ==
  LET n == info[c].header
      here == <<<<"OK">>, <<"HERE">>>>
  IN /\ Handling(c, "GET")
     /\ Listed(n)
     /\ \/ /\ dir[n] # None
           /\ fds < FdLimit
           /\ fds' = fds + 1
           /\ Finish(c, "DONE", Reply(c, here \o
                <<<<"SIZE", Len(data[dir[n]])>>, <<"DATA", data[dir[n]]>>>>))
        \/ /\ Finish(c, "DONE", Reply(c, Append(here, <<"ANY_SIZE">>)))
           /\ UNCHANGED fds
        \/ /\ WriteMayFail(c)
           /\ fds' \in {fds} \cup
                (IF dir[n] # None /\ fds < FdLimit THEN {fds + 1} ELSE {})
           /\ Finish(c, "INCORRECT_DATA_AMOUNT", Reply(c, here))
     /\ UNCHANGED <<process, req, store, routing>>

GetRedirect(c) ==
  LET n == info[c].header
  IN /\ Handling(c, "GET")
     /\ ~Listed(n)
     /\ file_to_server[n] # None
     /\ Finish(c, "DONE", Reply(c, <<<<"OK">>, <<"REDIRECT", file_to_server[n]>>>>))
     /\ UNCHANGED <<process, req, store, routing, fds>>

(* send_invalid_file_to_client() with no ERROR line before it. *)
GetMissing(c) ==
  LET n == info[c].header
  IN /\ Handling(c, "GET")
     /\ ~Listed(n)
     /\ file_to_server[n] = None
     /\ Finish(c, "DONE", Reply(c, <<<<"NO_SUCH_FILE">>>>))
     /\ UNCHANGED <<process, req, store, routing, fds>>

(***************************************************************************)
(* put(), first call: redirect when it is a sub-server's turn, otherwise   *)
(* take the file here.  No body can have arrived yet, so the rest of that  *)
(* call reads nothing.                                                     *)
(***************************************************************************)
OwnTurn == current_server_index = 0 \/ Len(mini_servers) = 0

Advance == current_server_index' =
             NextIndex(current_server_index, Len(mini_servers))

PutRedirect(c) ==
  LET target == mini_servers[current_server_index]
  IN /\ Handling(c, "PUT")
     /\ info[c].local_file = 0
     /\ ~OwnTurn
     /\ file_to_server' = [file_to_server EXCEPT ![info[c].header] = target]
     /\ Finish(c, "DONE", Reply(c, <<<<"REDIRECT", target>>>>))
     /\ Advance
     /\ UNCHANGED <<process, req, store, mini_servers, fds>>

Writers(i) == {d \in Conns : Handling(d, "PUT") /\ info[d].local_file = i}

(***************************************************************************)
(* open() fails without a descriptor, and may fail for the name (an empty  *)
(* one, one of more than 255 bytes, one with a slash that leads nowhere)   *)
(* or for reasons of the system.  The name is listed by then.              *)
(***************************************************************************)
PutOpen(c) ==
  LET n == info[c].header
      inode == OpenInode(n, c)
  IN /\ Handling(c, "PUT")
     /\ info[c].local_file = 0
     /\ OwnTurn
     /\ Advance
     /\ files' = Enlist(files, n)
     /\ sock' = [sock EXCEPT ![c] = Reply(c, <<<<"HERE">>>>)]
     /\ \/ /\ fds < FdLimit
           /\ fds' = fds + 1
           /\ dir' = [dir EXCEPT ![n] = inode]
           /\ data' = [data EXCEPT ![inode] = Truncate(@)]
           /\ info' = [info EXCEPT ![c].local_file = inode, ![c].header = None]
           /\ shared' = IF Writers(inode) = {} THEN shared
                        ELSE shared \cup Writers(inode) \cup {c}
           /\ unopened' = unopened \ {n}
        \/ /\ info' = [info EXCEPT ![c].local_file = -1, ![c].header = None]
           /\ unopened' = unopened \cup {n}
           /\ UNCHANGED <<fds, dir, data, shared>>
     /\ UNCHANGED <<process, req, file_to_server, mini_servers>>

(***************************************************************************)
(* put(), later calls.  While the size is incomplete each call asks for    *)
(* SizeBytes more bytes, whatever it already has, and ignores the end of   *)
(* the stream.  Once it is complete the same call goes on to the data.     *)
(***************************************************************************)
SizeTaken(c) ==
  IF info[c].size_read THEN 0
  ELSE Least(sock[c].body - sock[c].taken, SizeBytes)

SizeCompleteForgetful(c) == info[c].size_read \/ SizeTaken(c) >= SizeBytes
SizeComplete(c) ==
  info[c].size_read \/ info[c].buffer_position + SizeTaken(c) >= SizeBytes

Uploading(c) == Handling(c, "PUT") /\ info[c].local_file # 0

ReadSize(c) ==
  /\ Uploading(c)
  /\ ~SizeComplete(c)
  /\ info' = [info EXCEPT ![c].buffer_position = @ + SizeTaken(c)]
  /\ sock' = [sock EXCEPT ![c].taken = @ + SizeTaken(c)]
  /\ UNCHANGED <<process, req, store, routing, fds>>

ReadData(c) ==
  LET start == sock[c].taken + SizeTaken(c)
      need  == req[c].size - info[c].local_file_pos
      k     == Least(sock[c].body - start, Wanted(need))
      s     == [sock[c] EXCEPT !.taken = start + k]
      i     == info[c].local_file
      done  == k >= need /\ (k > 0 \/ sock[c].fin = "fin")
  IN /\ Uploading(c)
     /\ SizeComplete(c)
     /\ data' = IF i = -1 THEN data
                ELSE [data EXCEPT ![i] = WriteAt(@, info[c].local_file_pos,
                        Sent(c, start - SizeBytes + 1, start - SizeBytes + k))]
     /\ \/ done /\ Finish(c, "DONE", s)
        \/ ~done /\ EndSeen(sock[c].fin) /\ Finish(c, "INCORRECT_DATA_AMOUNT", s)
        \/ /\ ~done /\ ~EndSeen(sock[c].fin)
           /\ sock' = [sock EXCEPT ![c] = s]
           /\ info' = [info EXCEPT ![c].local_file_pos = @ + k,
                                   ![c].buffer_position = 0,
                                   ![c].file_size = req[c].size,
                                   ![c].size_read = TRUE]
     /\ UNCHANGED <<process, req, files, dir, shared, unopened, routing, fds>>

(***************************************************************************)
(* delete(), list() and add_server().                                      *)
(***************************************************************************)
DeleteFile(c) ==
  LET n == info[c].header
  IN /\ Handling(c, "DELETE")
     /\ Listed(n)
     /\ \E p \in DOMAIN files :
          /\ files[p] = n
          /\ \A q \in 1..(p - 1) : files[q] # n
          /\ files' = RemoveAt(files, p)
     /\ dir' = [dir EXCEPT ![n] = None]
     /\ unopened' = unopened \ {n}
     /\ Finish(c, "DONE", Reply(c, <<<<"OK">>>>))
     /\ UNCHANGED <<process, req, data, shared, routing, fds>>

DeleteMissing(c) ==
  /\ Handling(c, "DELETE")
  /\ ~Listed(info[c].header)
  /\ Finish(c, "INVALID_FILE", sock[c])
  /\ UNCHANGED <<process, req, store, routing, fds>>

ListFiles(c) ==
  LET mapped == {n \in Names : file_to_server[n] # None}
  IN /\ Handling(c, "LIST")
     /\ \/ Finish(c, "DONE",
             Reply(c, <<<<"OK">>, <<"LISTING", ToSet(files) \cup mapped>>>>))
        \/ /\ WriteMayFail(c)
           /\ Finish(c, "INCORRECT_DATA_AMOUNT", Reply(c, <<<<"OK">>>>))
     /\ UNCHANGED <<process, req, store, routing, fds>>

(* Which of the names a sub-server has are read off its connection depends *)
(* on what has arrived: any set of them.                                   *)
AddServer(c) ==
  LET s == info[c].header
  IN /\ Handling(c, "ADD_SERVER")
     /\ \E listed \in SUBSET Names :
          file_to_server' = [n \in Names |->
                               IF n \in listed THEN s ELSE file_to_server[n]]
     /\ mini_servers' = Register(mini_servers, s)
     /\ Finish(c, "DONE", Reply(c, <<<<"OK">>>>))
     /\ UNCHANGED <<process, req, store, current_server_index, fds>>

(***************************************************************************)
(* One turn of the epoll loop for a connection.  Sockets are registered    *)
(* for EPOLLIN and EPOLLOUT, level triggered, so a registered connection   *)
(* is reported on every turn.                                              *)
(***************************************************************************)
Get(c)    == GetLocal(c) \/ GetRedirect(c) \/ GetMissing(c)
Put(c)    == PutRedirect(c) \/ PutOpen(c) \/ ReadSize(c) \/ ReadData(c)
Delete(c) == DeleteFile(c) \/ DeleteMissing(c)

Event(c) ==
  /\ process = "running"
  /\ \/ ParseVerb(c)
     \/ ReadFileName(c)
     \/ Get(c)
     \/ Put(c)
     \/ Delete(c)
     \/ ListFiles(c)
     \/ AddServer(c)

(* SIGINT ends the loop; a crash between two handler calls looks the same. *)
Stop ==
  /\ process = "running"
  /\ process' = "stopped"
  /\ Lose

(* main() lists the regular files of the Pi-Share directory, in the order  *)
(* readdir() gives them.                                                   *)
Restart ==
  /\ process # "running"
  /\ process' = "running"
  /\ files' \in SetToSeqs(Present)
  /\ unopened' = {}
  /\ UNCHANGED <<info, peers, dir, data, shared, routing, fds>>

Next ==
  \/ \E c \in Conns, r \in Requests : Accept(c, r)
  \/ \E c \in Conns : AcceptFails(c)
  \/ \E c \in Conns : Peer(c)
  \/ \E c \in Conns : Event(c)
  \/ Stop
  \/ Restart

Spec == Init /\ [][Next]_vars

(* The loop serves every connection epoll_wait() reports. *)
FairSpec == Spec /\ \A c \in Conns : WF_vars(Event(c))

-----------------------------------------------------------------------------
(* The types of the variables; with it, the turn stays within the vector   *)
(* that put() indexes with it.                                             *)
TypeOK ==
  /\ process \in {"running", "stopped", "exited"}
  /\ info \in [Conns -> ClientInfo]
  /\ req \in [Conns -> Requests \cup {None}]
  /\ \A c \in Conns : Registered(c) => req[c] \in Requests
  /\ sock \in [Conns -> SockType]
  /\ files \in Seq(Names)
  /\ dir \in [Names -> Inodes \cup {None}]
  /\ data \in [Inodes -> Seq(Byte)]
  /\ file_to_server \in [Names -> Subs \cup {None}]
  /\ mini_servers \in Seq(Subs)
  /\ current_server_index \in 0..Len(mini_servers)
  /\ fds \in 0..FdLimit
  /\ shared \subseteq Conns
  /\ unopened \subseteq Names

(* main(): "Not possible to reach the DONE or ERROR state here"; and a     *)
(* handler finds in header what it takes for granted there: a file name    *)
(* for get(), delete() and the first call of put(), an address for         *)
(* add_server(); only a verb that the peer sent is ever dispatched.        *)
DispatchSound ==
  \A c \in Conns :
    /\ info[c].state \in {"READING_VERB", "READING_HEADER"} =>
         info[c].local_file = 0
    /\ info[c].state = "READING_HEADER" =>
         /\ info[c].action = req[c].verb
         /\ info[c].action \in {"GET", "PUT", "DELETE", "ADD_SERVER"}
    /\ info[c].state = "HANDLING_VERB" =>
         /\ info[c].action = req[c].verb
         /\ CASE info[c].action \in {"GET", "DELETE"} -> info[c].header \in Names
              [] info[c].action = "PUT" ->
                   (info[c].local_file = 0) <=> (info[c].header \in Names)
              [] info[c].action = "ADD_SERVER" -> info[c].header \in Subs
              [] info[c].action = "LIST" -> TRUE
              [] OTHER -> FALSE

(* The vector files mirrors the directory, through uploads, deletions and  *)
(* restarts: no name twice, every file of the directory listed.  put()     *)
(* lists a name before it opens the file and does not look at the result:  *)
(* a listed name without a file is one whose last PUT failed to open it    *)
(* and that was not deleted since; it does not outlive the process.        *)
CatalogueMatchesDirectory ==
  process = "running" =>
    /\ \A p, q \in DOMAIN files : files[p] = files[q] => p = q
    /\ Present \subseteq ToSet(files)
    /\ ToSet(files) \subseteq Present \cup unopened
    /\ unopened \subseteq ToSet(files)

(* However the calls of put() interleave and however a body is cut up,     *)
(* every byte on the disk lies at its offset in the upload it came from,   *)
(* or before it by the bytes an incomplete size field cost: fewer than the *)
(* size field has.                                                         *)
InPlace(content) ==
  \A p \in DOMAIN content :
    content[p][1] # None => content[p][2] - p \in 0..(SizeBytes - 1)

BytesInPlace == \A i \in Inodes : InPlace(data[i])

(* Why: until the size is complete only size bytes were read; afterwards    *)
(* the offset of the next byte on the disk trails the bytes read after the *)
(* size by what the size field cost.  Before put() opens the file nothing  *)
(* of the body was read.                                                   *)
UploadProgress ==
  \A c \in Conns :
    /\ sock[c].taken <= sock[c].body
    /\ Uploading(c) =>
         IF info[c].size_read
         THEN sock[c].taken - SizeBytes - info[c].local_file_pos
                \in 0..(SizeBytes - 1)
         ELSE /\ info[c].buffer_position = sock[c].taken
              /\ sock[c].taken < SizeBytes
              /\ info[c].local_file_pos = 0
    /\ info[c].state \notin {"REMOVED", "LOST"} /\ ~Uploading(c) =>
         /\ sock[c].taken = 0
         /\ info[c].local_file = 0
         /\ info[c].local_file_pos = 0
         /\ info[c].buffer_position = 0
         /\ ~info[c].size_read

(* Names are only ever redirected to sub-servers that registered, whatever *)
(* the order of registrations and uploads.                                 *)
RedirectsGoToRegistered ==
  \A n \in Names :
    file_to_server[n] # None => file_to_server[n] \in ToSet(mini_servers)

(* An upload that ends without an error, and that no other upload of the   *)
(* same file overlapped, leaves exactly the bytes read from its connection *)
(* after the size, but for the first ones if the size field arrived in     *)
(* pieces: no fewer than it declared, and beyond that at most what one     *)
(* read() takes (the code accepts such a surplus).  Nothing of the file's  *)
(* former content is left.  If the file could not be opened the upload is  *)
(* accepted all the same: then no file is touched, and nothing stored.     *)
Accepts(c) ==
  /\ Uploading(c)
  /\ info'[c].state = "REMOVED"
  /\ \A k \in DOMAIN sock'[c].out : sock'[c].out[k][1] # "ERROR"

UploadExact ==
  [][\A c \in Conns :
       Accepts(c) /\ c \notin shared =>
         LET i == info[c].local_file
             n == sock'[c].taken - SizeBytes
         IN \E lost \in 0..(SizeBytes - 1) :
              /\ n - lost \in req[c].size..(req[c].size + ReadMax)
              /\ IF i = -1 THEN data' = data
                 ELSE data'[i] = Sent(c, lost + 1, n)]_vars

(* A connection whose peer has finished is let go, provided that an upload *)
(* got as far as its size: the loop is not stuck on it.                    *)
ReleasedWhenDone ==
  \A c \in Conns :
    (/\ Registered(c)
     /\ sock[c].fin # "open"
     /\ req[c].verb = "PUT" => sock[c].body >= SizeBytes)
      ~> ~Registered(c)
=============================================================================
