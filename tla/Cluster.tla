------------------------------- MODULE Cluster -------------------------------
(***************************************************************************)
(* The whole of Pi-Share: clients (client.c) that run one command each,    *)
(* the main server they address, and the machines that registered with it  *)
(* as sub-servers (server.c).  A request or an answer is one message here; *)
(* how bytes become requests and answers is the subject of modules Request *)
(* and Session, how the calls of one server interleave, and what becomes   *)
(* of a file that cannot be opened, that of modules Server and Session.    *)
(* Here interleave: commands of several clients with redirections under    *)
(* way, uploads that last, registrations, and processes that end.          *)
(***************************************************************************)
EXTENDS Integers, Sequences, FiniteSets

CONSTANTS
  Clients,   \* runs of the client program
  Lines,     \* client -> the command lines it may be given
  Names,     \* file names, none of them what is left of another cut short
  Subs,      \* machines that may register
  Main,      \* the machine of the main server
  None,      \* no server, no file, no answer
  Before,    \* machine -> the names of the files it has at first
  MaxFailures  \* bound: processes of servers and of clients that are ended

Machines == Subs \cup {Main}

(* An address nobody has: get_my_ip_addr() of client.c leaves the buffer   *)
(* uninitialised when there is no route.                                   *)
Nowhere == "NOWHERE"

(* What a file is: an upload, what the machine had before, or parts.       *)
Torn == "TORN"
Contents == Clients \cup Machines \cup {Torn}

(***************************************************************************)
(* A command line: the words after the name of the program, whether the    *)
(* first of them has a port, the method (whatever its case), the remote    *)
(* file, and whether the local file can be opened.                         *)
(***************************************************************************)
Methods == {"GET", "PUT", "DELETE", "LIST", "ADD_SERVER"}

LineType == [words : Nat, port : BOOLEAN, method : Methods \cup {"OTHER"},
             name : Names, local : BOOLEAN]

(* What a client may read: the kind of the answer and what it carries.     *)
Answers ==
  ({"OK", "HERE", "ERROR", "NO_SUCH_FILE"} \X {None})
    \cup ({"REDIRECT"} \X (Subs \cup {Nowhere}))
    \cup ({"CONTENT"} \X Contents)
    \cup ({"LISTING"} \X SUBSET Names)

ASSUME ClusterAssumption ==
  /\ IsFiniteSet(Clients)
  /\ Lines \in [Clients -> SUBSET LineType]
  /\ Main \notin Subs
  /\ Nowhere \notin Machines
  /\ None \notin Contents \cup Names \cup Subs \cup {Nowhere} \cup Answers
  /\ "DELETED" \notin Clients \cup {None}
  /\ Before \subseteq [Machines -> SUBSET Names]
  /\ MaxFailures \in Nat

VARIABLES
  machine,               \* what runs on a machine: a server, a registration
  dir,                   \* its Pi-Share directory
  file_to_server,        \* of the main server: name -> address
  mini_servers,          \* of the main server: addresses
  current_server_index,  \* of the main server
  client,                \* the clients
  conn,                  \* the connection a client has, as its server sees it
  joiner,                \* the registrations
  stops,                 \* processes of servers that ended
  latest,                \* history: the last undisturbed change of a name
  disturbed,             \* history: uploads that something interfered with
  given,                 \* history: places given an upload in this round
  last                   \* history: the place of the last upload

stores  == <<machine, dir>>
tables  == <<file_to_server, mini_servers, current_server_index>>
turns   == <<given, last>>
history == <<latest, disturbed, turns>>
vars    == <<machine, dir, file_to_server, mini_servers, current_server_index,
             client, conn, joiner, stops, latest, disturbed, given, last>>

Final == {"end", "exit1", "sigpipe", "killed"}

(* What happened to a name last: an upload, a deletion, or it is not clear. *)
Changes == Clients \cup {"DELETED", None}

(* The connection of a client: what the server has of its request, the     *)
(* answer that the client has not read, how much of the body of a PUT was  *)
(* sent, and whether the upload has its file for itself.                   *)
ConnType ==
  [state : {"none", "request", "upload", "done"}, answer : Answers \cup {None},
   body : {"part", "all", "cut"}, file : {"sole", "shared", "gone"}]

Idle == [state |-> "none", answer |-> None, body |-> "part", file |-> "sole"]
Request == [Idle EXCEPT !.state = "request"]

JoinerType ==
  [state : {"none", "request", "answered", "lost"}, address : Subs \cup {Nowhere},
   names : SUBSET Names]

NoJoiner == [state |-> "none", address |-> Nowhere, names |-> {}]

(* Where the client is in the loop of get() or put(): at is the server its *)
(* socket belongs to, which the address it read last names unless that is  *)
(* still empty (at Main).  expect and since: what latest and stops were    *)
(* when the command began.                                                 *)
ClientType ==
  [pc : {"start", "asked", "sending", "sent"} \cup Final,
   verb : Methods \cup {"V_UNKNOWN"}, name : Names \cup {None}, at : Machines,
   got : Contents \cup {None}, expect : Changes, since : 0..MaxFailures]

NewClient == [pc |-> "start", verb |-> "V_UNKNOWN", name |-> None, at |-> Main,
              got |-> None, expect |-> None, since |-> 0]

Init ==
  /\ machine = [m \in Machines |-> IF m = Main THEN "up" ELSE "down"]
  /\ \E held \in Before :
       dir = [m \in Machines |-> [n \in Names |-> IF n \in held[m] THEN m ELSE None]]
  /\ file_to_server = [n \in Names |-> None]
  /\ mini_servers = <<>>
  /\ current_server_index = 0
  /\ client = [c \in Clients |-> NewClient]
  /\ conn = [c \in Clients |-> Idle]
  /\ joiner = [s \in Subs |-> NoJoiner]
  /\ stops = 0
  /\ latest = [n \in Names |-> None]
  /\ disturbed = {}
  /\ given = <<>>
  /\ last = 0

-----------------------------------------------------------------------------
(***************************************************************************)
(* The client program: parse_args() and check_args(), then a connection to *)
(* the address of the command line and the header of the request.          *)
(***************************************************************************)
WordsNeeded == [LIST |-> 2, ADD_SERVER |-> 2, DELETE |-> 3, GET |-> 4, PUT |-> 4]

CheckArgs(l) ==
  IF l.words < 2 \/ ~l.port THEN "usage"
  ELSE IF l.method \in Methods /\ l.words >= WordsNeeded[l.method] THEN l.method
  ELSE "help"

Up(m) == m \in Machines /\ machine[m] = "up"

Become(c, pc) == client' = [client EXCEPT ![c].pc = pc]

RunCommand(c, l) ==
  LET verb == CheckArgs(l)
      asks == /\ verb \in Methods
              /\ Up(Main)
              /\ verb = "PUT" => l.local
  IN /\ client[c].pc = "start"
     /\ verb # "ADD_SERVER"  \* that is Join
     /\ IF asks
        THEN /\ client' = [client EXCEPT ![c] =
                  [@ EXCEPT !.pc = "asked", !.verb = verb, !.name = l.name,
                            !.expect = IF verb = "GET" THEN latest[l.name] ELSE None,
                            !.since = IF verb = "GET" THEN stops ELSE 0]]
             /\ conn' = [conn EXCEPT ![c] = Request]
        ELSE /\ Become(c, "exit1")
             /\ UNCHANGED conn
     /\ UNCHANGED <<stores, tables, joiner, stops, history>>

(* The client is done with its connection. *)
Leave(c, pc) ==
  /\ Become(c, pc)
  /\ conn' = [conn EXCEPT ![c] = Idle]

(* connect_to_server(), and the header once more. *)
Connect(c, address) ==
  IF Up(address)
  THEN /\ client' = [client EXCEPT ![c].at = address]
       /\ conn' = [conn EXCEPT ![c] = Request]
  ELSE Leave(c, "exit1")

Asks(c, verb) == client[c].pc = "asked" /\ client[c].verb = verb
Reads(c, kind) == conn[c].answer # None /\ conn[c].answer[1] = kind
AtEnd(c) == conn[c].state = "done" /\ conn[c].answer = None

(* The server at the address read last; none was read at Main. *)
Retry(c) == Connect(c, IF client[c].at = Main THEN Nowhere ELSE client[c].at)

Receive(c, what) ==
  /\ client' = [client EXCEPT ![c].pc = "end", ![c].got = what]
  /\ conn' = [conn EXCEPT ![c] = Idle]

(***************************************************************************)
(* get().  OK alone: the server ended before it wrote the address.  When   *)
(* there is no OK the loop writes to the socket it has shut down.          *)
(***************************************************************************)
GetAnswer(c) ==
  /\ Asks(c, "GET")
  /\ \/ Reads(c, "CONTENT") /\ Receive(c, conn[c].answer[2])
     \/ Reads(c, "REDIRECT") /\ Connect(c, conn[c].answer[2])
     \/ Reads(c, "OK") /\ Retry(c)
     \/ (Reads(c, "NO_SUCH_FILE") \/ AtEnd(c)) /\ Leave(c, "sigpipe")

(***************************************************************************)
(* put().  At the end of the stream read_line_from_server() leaves the     *)
(* address as it was: the loop asks the server of the last redirection     *)
(* again.  A body for a server that ended may or may not find its socket   *)
(* closed already.                                                         *)
(***************************************************************************)
PutAnswer(c) ==
  /\ Asks(c, "PUT")
  /\ \/ Reads(c, "REDIRECT") /\ Connect(c, conn[c].answer[2])
     \/ AtEnd(c) /\ Retry(c)
     \/ /\ Reads(c, "HERE")
        /\ Become(c, "sending")
        /\ conn' = [conn EXCEPT ![c].answer = None]

SendBody(c) ==
  /\ client[c].pc = "sending"
  /\ IF AtEnd(c)
     THEN \E pc \in {"end", "sigpipe"} : Leave(c, pc)
     ELSE /\ Become(c, "sent")
          /\ conn' = [conn EXCEPT ![c].body = "all"]

PutEnds(c) ==
  /\ client[c].pc = "sent"
  /\ AtEnd(c) \/ Reads(c, "ERROR")
  /\ Leave(c, "end")

(* delete() and list() *)
OtherAnswer(c) ==
  /\ Asks(c, "DELETE") \/ Asks(c, "LIST")
  /\ conn[c].answer # None \/ AtEnd(c)
  /\ Leave(c, "end")

ClientStep(c) ==
  /\ \/ GetAnswer(c)
     \/ PutAnswer(c)
     \/ SendBody(c)
     \/ PutEnds(c)
     \/ OtherAnswer(c)
  /\ UNCHANGED <<stores, tables, joiner, stops, history>>

MayFail ==
  stops + Cardinality({c \in Clients : client[c].pc = "killed"}) < MaxFailures

(* The user stops the client; what it sent goes on its way. *)
LeftBehind(k) ==
  IF k.state = "done" THEN Idle
  ELSE [k EXCEPT !.answer = None, !.body = IF k.body = "all" THEN "all" ELSE "cut"]

Kill(c) ==
  /\ client[c].pc \in {"asked", "sending", "sent"}
  /\ MayFail
  /\ Become(c, "killed")
  /\ conn' = [conn EXCEPT ![c] = LeftBehind(conn[c])]
  /\ UNCHANGED <<stores, tables, joiner, stops, history>>

-----------------------------------------------------------------------------
(***************************************************************************)
(* The servers.  The handler of a request is one step, but put() comes     *)
(* back for the body of an upload.                                         *)
(***************************************************************************)
Asked(c, verb) ==
  /\ conn[c].state = "request"
  /\ client[c].verb = verb
  /\ Up(client[c].at)

(* The connection after its last answer, which a client that was killed    *)
(* does not get any more.                                                  *)
KeptOpen(c, a) ==
  IF client[c].pc \in Final THEN Idle
  ELSE [conn[c] EXCEPT !.state = IF a = None THEN @ ELSE "done", !.answer = a]

Closed(c, a) ==
  IF client[c].pc \in Final THEN Idle
  ELSE [conn[c] EXCEPT !.state = "done", !.answer = a]

Answered(c, a) == [conn EXCEPT ![c] = Closed(c, a)]

Held(m) == {n \in Names : dir[m][n] # None}

(* Uploads of n that machine m has open, and those anywhere under way. *)
OpenAt(m, n) ==
  {d \in Clients : /\ conn[d].state = "upload"
                   /\ client[d].at = m
                   /\ client[d].name = n
                   /\ conn[d].file # "gone"}

UnderWay(n) ==
  {d \in Clients : /\ client[d].verb = "PUT"
                   /\ client[d].name = n
                   /\ \/ client[d].pc \in {"asked", "sending", "sent"}
                      \/ conn[d].state \in {"request", "upload"}}

Interfere(c, n) ==
  LET others == UnderWay(n) \ {c}
  IN /\ disturbed' = disturbed \cup (IF others = {} THEN {} ELSE others \cup {c})
     /\ latest' = [latest EXCEPT ![n] = None]

(* put(): whose turn it is. *)
NextIndexSubsOnly(i, n) == IF i = 0 THEN 0 ELSE (i + 1) % (n + 1)
NextIndexPastEnd(i, n) == (i + 1) % (n + 2)
NextIndex(i, n) == (i + 1) % (n + 1)

TakeTurn(place) ==
  /\ current_server_index' = NextIndex(current_server_index, Len(mini_servers))
  /\ last' = place
  /\ given' = IF Len(given) = Len(mini_servers) THEN <<>> ELSE Append(given, place)

Target(index) == mini_servers[index]

Redirects(c) ==
  client[c].at = Main /\ current_server_index # 0 /\ Len(mini_servers) > 0

RouteOnce(n, target) ==
  [file_to_server EXCEPT ![n] = IF @ = None THEN target ELSE @]
Route(n, target) == [file_to_server EXCEPT ![n] = target]

RedirectPut(c) ==
  LET n == client[c].name
      target == Target(current_server_index)
  IN /\ Asked(c, "PUT")
     /\ Redirects(c)
     /\ file_to_server' = Route(n, target)
     /\ conn' = Answered(c, <<"REDIRECT", target>>)
     /\ TakeTurn(current_server_index)
     /\ Interfere(c, n)
     /\ UNCHANGED <<stores, mini_servers, client, joiner, stops>>

(* The file is opened and emptied; two uploads may have it open. *)
OpenPut(c) ==
  LET m == client[c].at
      n == client[c].name
      open == OpenAt(m, n)
  IN /\ Asked(c, "PUT")
     /\ ~Redirects(c)
     /\ conn' = [d \in Clients |->
          IF d = c
          THEN [conn[d] EXCEPT !.state = "upload",
                               !.answer = IF client[d].pc = "asked"
                                          THEN <<"HERE", None>> ELSE None,
                               !.file = IF open = {} THEN "sole" ELSE "shared"]
          ELSE IF d \in open THEN [conn[d] EXCEPT !.file = "shared"]
          ELSE conn[d]]
     /\ dir' = [dir EXCEPT ![m][n] = Torn]
     /\ IF m = Main THEN TakeTurn(0) ELSE UNCHANGED <<current_server_index, turns>>
     /\ Interfere(c, n)
     /\ UNCHANGED <<machine, file_to_server, mini_servers, client, joiner, stops>>

(***************************************************************************)
(* The body is there, or will never be.  Even one that is all there may be *)
(* refused, and is a part in the file then: when the size before it comes  *)
(* in pieces put() loses some of its bytes (module Server).                *)
(***************************************************************************)
AnyFile == {"sole", "gone"}
OwnFile == {"sole"}

ClosePut(c) ==
  LET n == client[c].name
      own == conn[c].file \in OwnFile
  IN /\ conn[c].state = "upload"
     /\ Up(client[c].at)
     /\ conn[c].body # "part"
     /\ \/ /\ conn[c].body = "all"
           /\ conn' = Answered(c, None)
           /\ dir' = [dir EXCEPT ![client[c].at][n] = IF own THEN c ELSE @]
           /\ latest' = [latest EXCEPT ![n] =
                IF own /\ c \notin disturbed THEN c ELSE @]
        \/ /\ conn' = Answered(c, <<"ERROR", None>>)
           /\ UNCHANGED <<dir, latest>>
     /\ UNCHANGED <<machine, tables, client, joiner, stops, disturbed, turns>>

(* get(): the main server's own directory comes before its table. *)
TableFirst(m, n) ==
  IF m = Main /\ file_to_server[n] # None THEN <<"REDIRECT", file_to_server[n]>>
  ELSE IF dir[m][n] # None THEN <<"CONTENT", dir[m][n]>>
  ELSE <<"NO_SUCH_FILE", None>>

Lookup(m, n) ==
  IF dir[m][n] # None THEN <<"CONTENT", dir[m][n]>>
  ELSE IF m = Main /\ file_to_server[n] # None THEN <<"REDIRECT", file_to_server[n]>>
  ELSE <<"NO_SUCH_FILE", None>>

HandleGet(c) ==
  /\ Asked(c, "GET")
  /\ conn' = Answered(c, Lookup(client[c].at, client[c].name))
  /\ UNCHANGED <<stores, tables, client, joiner, stops, history>>

(* An upload that has the file open goes on to write what has no name now. *)
HandleDelete(c) ==
  LET n == client[c].name
      open == OpenAt(Main, n)
  IN /\ Asked(c, "DELETE")
     /\ \/ /\ dir[Main][n] # None
           /\ dir' = [dir EXCEPT ![Main][n] = None]
           /\ conn' = [d \in Clients |->
                IF d = c THEN Closed(c, <<"OK", None>>)
                ELSE IF d \in open THEN [conn[d] EXCEPT !.file = "gone"]
                ELSE conn[d]]
           /\ latest' = [latest EXCEPT ![n] = "DELETED"]
        \/ /\ dir[Main][n] = None
           /\ conn' = Answered(c, <<"ERROR", None>>)
           /\ UNCHANGED <<dir, latest>>
     /\ UNCHANGED <<machine, tables, client, joiner, stops, disturbed, turns>>

HandleList(c) ==
  /\ Asked(c, "LIST")
  /\ conn' = Answered(c, <<"LISTING",
       Held(Main) \cup {n \in Names : file_to_server[n] # None}>>)
  /\ UNCHANGED <<stores, tables, client, joiner, stops, history>>

Serve(c) ==
  \/ RedirectPut(c)
  \/ OpenPut(c)
  \/ ClosePut(c)
  \/ HandleGet(c)
  \/ HandleDelete(c)
  \/ HandleList(c)

-----------------------------------------------------------------------------
(***************************************************************************)
(* Registration: the client program with ADD_SERVER on machine s, which    *)
(* turns into its server whatever came of it.  Names may be lost on the    *)
(* way (module Session).                                                   *)
(***************************************************************************)
Join(s) ==
  /\ machine[s] = "down"
  /\ joiner[s].state = "none"
  /\ Up(Main)
  /\ machine' = [machine EXCEPT ![s] = "joining"]
  /\ \E address \in {s, Nowhere} :
       joiner' = [joiner EXCEPT ![s] =
         [state |-> "request", address |-> address, names |-> Held(s)]]
  /\ UNCHANGED <<dir, tables, client, conn, stops, history>>

HandleAddServer(s) ==
  LET address == joiner[s].address
  IN /\ joiner[s].state = "request"
     /\ Up(Main)
     /\ \E stored \in SUBSET joiner[s].names :
          LET moved == {n \in stored : file_to_server[n] # address}
          IN /\ file_to_server' =
                  [n \in Names |-> IF n \in stored THEN address ELSE file_to_server[n]]
             /\ latest' = [n \in Names |-> IF n \in moved THEN None ELSE latest[n]]
             /\ disturbed' = disturbed \cup UNION {UnderWay(n) : n \in moved}
     /\ mini_servers' = Append(mini_servers, address)
     /\ joiner' = [joiner EXCEPT ![s].state = "answered"]
     /\ UNCHANGED <<stores, current_server_index, client, conn, stops, turns>>

StartServer(s) ==
  /\ joiner[s].state \in {"answered", "lost"}
  /\ joiner' = [joiner EXCEPT ![s] = NoJoiner]
  /\ machine' = [machine EXCEPT ![s] = IF @ = "joining" THEN "up" ELSE @]
  /\ UNCHANGED <<dir, tables, client, conn, stops, history>>

-----------------------------------------------------------------------------
(***************************************************************************)
(* Processes that end.  The server may be in the middle of a handler then: *)
(* cut is what it wrote of an answer, of which delete() writes all before  *)
(* it removes the file and put() before it opens it.                       *)
(***************************************************************************)
CutAnswers(c) ==
  {None} \cup (CASE client[c].verb = "GET" ->
                      {<<"OK", None>>, <<"CONTENT", Torn>>}
                 [] client[c].verb = "DELETE" ->
                      IF dir[Main][client[c].name] # None THEN {<<"OK", None>>} ELSE {}
                 [] client[c].verb = "PUT" ->
                      IF Redirects(c) THEN {} ELSE {<<"HERE", None>>}
                 [] OTHER -> {})

Stop(m) ==
  LET serving == {d \in Clients : client[d].at = m /\ conn[d].state \in {"request", "upload"}}
      asking  == {d \in serving : conn[d].state = "request"}
  IN /\ machine[m] = "up"
     /\ MayFail
     /\ stops' = stops + 1
     /\ machine' = [machine EXCEPT ![m] = "down"]
     /\ \E busy \in SUBSET asking :
          /\ Cardinality(busy) <= 1
          /\ conn' \in {[d \in Clients |->
                IF d \in busy THEN Closed(d, a)
                ELSE IF d \in serving THEN Closed(d, conn[d].answer)
                ELSE conn[d]] :
                a \in IF busy = {} THEN {None} ELSE UNION {CutAnswers(d) : d \in busy}}
     /\ IF m = Main
        THEN /\ file_to_server' = [n \in Names |-> None]
             /\ mini_servers' = <<>>
             /\ current_server_index' = 0
             /\ joiner' = [s \in Subs |->
                  IF joiner[s].state = "request" THEN [joiner[s] EXCEPT !.state = "lost"]
                  ELSE joiner[s]]
             /\ latest' = [n \in Names |->
                  IF latest[n] \in Clients /\ dir[Main][n] # latest[n] THEN None
                  ELSE latest[n]]
             /\ disturbed' = disturbed \cup UNION {UnderWay(n) : n \in Names}
             /\ given' = <<>>
             /\ last' = 0
        ELSE UNCHANGED <<tables, joiner, history>>
     /\ UNCHANGED <<dir, client>>

(* ./server by hand: the main server, or a machine that had one before. *)
Restart(m) ==
  /\ machine[m] = "down"
  /\ m \in Subs => stops > 0 /\ joiner[m].state = "none"
  /\ machine' = [machine EXCEPT ![m] = "up"]
  /\ UNCHANGED <<dir, tables, client, conn, joiner, stops, history>>

(* The registration is broken off. *)
KillJoiner(s) ==
  /\ machine[s] = "joining"
  /\ MayFail
  /\ stops' = stops + 1
  /\ machine' = [machine EXCEPT ![s] = "down"]
  /\ UNCHANGED <<dir, tables, client, conn, joiner, history>>

-----------------------------------------------------------------------------
Next ==
  \/ \E c \in Clients :
       \/ \E l \in Lines[c] : RunCommand(c, l)
       \/ ClientStep(c)
       \/ Kill(c)
       \/ Serve(c)
  \/ \E s \in Subs :
       \/ Join(s)
       \/ HandleAddServer(s)
       \/ StartServer(s)
       \/ KillJoiner(s)
  \/ \E m \in Machines : Stop(m) \/ Restart(m)

Spec == Init /\ [][Next]_vars

(* A client that runs goes on, and a server that runs comes to every       *)
(* connection.  Nobody has to type a command or to start a process.        *)
FairSpec ==
  /\ Spec
  /\ \A c \in Clients : WF_vars(ClientStep(c)) /\ WF_vars(Serve(c))

-----------------------------------------------------------------------------
TypeOK ==
  /\ machine \in [Machines -> {"up", "down", "joining"}]
  /\ dir \in [Machines -> [Names -> Contents \cup {None}]]
  /\ file_to_server \in [Names -> Subs \cup {Nowhere, None}]
  /\ mini_servers \in Seq(Subs \cup {Nowhere})
  /\ current_server_index \in 0..Len(mini_servers)
  /\ client \in [Clients -> ClientType]
  /\ conn \in [Clients -> ConnType]
  /\ joiner \in [Subs -> JoinerType]
  /\ stops \in 0..MaxFailures
  /\ latest \in [Names -> Changes]
  /\ disturbed \subseteq Clients
  /\ given \in Seq(Nat)
  /\ last \in Nat

(* An upload that nothing disturbed, and nothing came after, is where a    *)
(* GET looks: in the main server's own directory, or at the sub-server     *)
(* that its table names for it, whole.                                     *)
UploadIsRouted ==
  \A n \in Names :
    latest[n] \in Clients =>
      \/ dir[Main][n] = latest[n]
      \/ /\ file_to_server[n] \in Subs
         /\ dir[file_to_server[n]][n] = latest[n]

(* A GET of such an upload, with no process of a server ending meanwhile,  *)
(* never finds the file missing, and ends with it or with the older copy   *)
(* that the main server has itself.                                        *)
GetFindsUpload ==
  \A c \in Clients :
    LET n == client[c].name
    IN (/\ client[c].verb = "GET"
        /\ client[c].expect \in Clients
        /\ client[c].expect = latest[n]
        /\ client[c].since = stops) =>
         /\ client[c].pc # "sigpipe"
         /\ client[c].pc = "end" =>
              \/ client[c].got = latest[n]
              \/ client[c].got = dir[Main][n]

(* A file that the main server deleted does not come back to its directory *)
(* before the next PUT of it, not even through an upload that was writing  *)
(* it.  A route of that name is left alone by delete(): a GET may still be *)
(* sent to the copy of a sub-server.                                       *)
DeletionHolds ==
  \A n \in Names : latest[n] = "DELETED" => dir[Main][n] = None

(* Uploads go round: nobody has a second one before everybody had one. *)
Round == INSTANCE Turns WITH places <- Len(mini_servers)

TakesTurns == Round!Spec

(* Every command comes to an end, whoever fails. *)
ClientsEnd == <>[](\A c \in Clients : client[c].pc \in {"start"} \cup Final)
=============================================================================
