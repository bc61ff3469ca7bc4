---------------------------- MODULE ClusterProofs ----------------------------
(***************************************************************************)
(* For any number of clients, machines, files and failures: uploads take   *)
(* turns as module Turns says, and what the main server deleted stays      *)
(* deleted.                                                                *)
(***************************************************************************)
EXTENDS Cluster, FiniteSetTheorems, TLAPS

(* A command under way names a file, in the client and at its server. *)
Named ==
  \A c \in Clients :
    \/ client[c].pc \in {"asked", "sending", "sent"}
    \/ conn[c].state \in {"request", "upload"}
    => client[c].name \in Names

(* The file that an upload writes has a name, unless it was deleted since. *)
OpenHasFile ==
  \A c \in Clients :
    conn[c].state = "upload" /\ conn[c].file # "gone" =>
      dir[client[c].at][client[c].name] # None

(* The turn counts the uploads of the round: 0, 1, ... had theirs. *)
TurnCounts ==
  /\ current_server_index \in 0..Len(mini_servers)
  /\ given = [i \in 1..current_server_index |-> i - 1]

ClusterInv == TypeOK /\ Named /\ OpenHasFile /\ DeletionHolds /\ TurnCounts

LEMMA ClusterInvInit == Init => ClusterInv
<1> SUFFICES ASSUME Init PROVE ClusterInv  OBVIOUS
<1> USE ClusterAssumption
<1>1. TypeOK
  <2>1. /\ machine \in [Machines -> {"up", "down", "joining"}]
        /\ file_to_server \in [Names -> Subs \cup {Nowhere, None}]
        /\ mini_servers \in Seq(Subs \cup {Nowhere})
        /\ current_server_index \in 0..Len(mini_servers)
        /\ stops \in 0..MaxFailures
        /\ latest \in [Names -> Changes]
        /\ disturbed \subseteq Clients
        /\ given \in Seq(Nat)
        /\ last \in Nat
    BY DEF Init, Changes
  <2>2. dir \in [Machines -> [Names -> Contents \cup {None}]]
    BY DEF Init, Contents
  <2>3. client \in [Clients -> ClientType]
    BY DEF Init, NewClient, ClientType, Changes, Machines
  <2>4. conn \in [Clients -> ConnType]
    BY DEF Init, Idle, ConnType
  <2>5. joiner \in [Subs -> JoinerType]
    BY DEF Init, NoJoiner, JoinerType
  <2> QED  BY <2>1, <2>2, <2>3, <2>4, <2>5 DEF TypeOK
<1>2. Named /\ OpenHasFile  BY DEF Init, NewClient, Idle, Named, OpenHasFile
<1>3. DeletionHolds  BY DEF Init, DeletionHolds
<1>4. TurnCounts  BY DEF Init, TurnCounts
<1> QED  BY <1>1, <1>2, <1>3, <1>4 DEF ClusterInv

-----------------------------------------------------------------------------
(***************************************************************************)
(* A step of a client changes its own record and its own connection, and   *)
(* opens no upload.                                                        *)
(***************************************************************************)
LEMMA ClientChange ==
  ASSUME ClusterInv, NEW c \in Clients, NEW x \in ClientType, NEW y \in ConnType,
         client' = [client EXCEPT ![c] = x],
         conn' = [conn EXCEPT ![c] = y],
         x.pc \in {"asked", "sending", "sent"} \/ y.state \in {"request", "upload"}
           => x.name \in Names,
         y.state = "upload" =>
           /\ conn[c].state = "upload"
           /\ y.file = conn[c].file
           /\ x.at = client[c].at
           /\ x.name = client[c].name,
         UNCHANGED <<stores, tables, joiner, history>>,
         stops' \in 0..MaxFailures
  PROVE  ClusterInv'
<1> USE DEF stores, tables, history, turns
<1>1. TypeOK'  BY DEF ClusterInv, TypeOK
<1>2. Named'  BY DEF ClusterInv, TypeOK, Named
<1>3. OpenHasFile'  BY DEF ClusterInv, TypeOK, OpenHasFile
<1>4. DeletionHolds' /\ TurnCounts'  BY DEF ClusterInv, DeletionHolds, TurnCounts
<1> QED  BY <1>1, <1>2, <1>3, <1>4 DEF ClusterInv

LEMMA RunCommandInv ==
  ASSUME ClusterInv, NEW c \in Clients, NEW l \in Lines[c], RunCommand(c, l)
  PROVE  ClusterInv'
<1> USE ClusterAssumption
<1> DEFINE verb == CheckArgs(l)
           asks == verb \in Methods /\ Up(Main) /\ (verb = "PUT" => l.local)
<1>1. l \in LineType /\ l.name \in Names  BY DEF LineType
<1>2. /\ client \in [Clients -> ClientType] /\ client[c] \in ClientType
      /\ conn \in [Clients -> ConnType] /\ conn[c] \in ConnType
      /\ latest[l.name] \in Changes /\ stops \in 0..MaxFailures
  BY <1>1 DEF ClusterInv, TypeOK
<1>3. stops' \in 0..MaxFailures /\ UNCHANGED <<stores, tables, joiner, history>>
  BY <1>2 DEF RunCommand
<1>4. CASE asks
  <2> DEFINE x == [client[c] EXCEPT
                     !.pc = "asked", !.verb = verb, !.name = l.name,
                     !.expect = IF verb = "GET" THEN latest[l.name] ELSE None,
                     !.since = IF verb = "GET" THEN stops ELSE 0]
  <2>1. client' = [client EXCEPT ![c] = x] /\ conn' = [conn EXCEPT ![c] = Request]
    BY <1>4 DEF RunCommand
  <2>2. x \in ClientType /\ x.name \in Names
    <3>1. verb \in Methods  BY <1>4
    <3> HIDE DEF verb
    <3>2. (IF verb = "GET" THEN latest[l.name] ELSE None) \in Changes
      BY <1>2 DEF Changes
    <3>3. (IF verb = "GET" THEN stops ELSE 0) \in 0..MaxFailures  BY <1>2
    <3> HIDE DEF Changes
    <3> QED  BY <1>1, <1>2, <3>1, <3>2, <3>3 DEF ClientType
  <2>3. Request \in ConnType /\ Request.state = "request"
    BY DEF Request, Idle, ConnType
  <2> HIDE DEF x
  <2> QED  BY <1>3, <2>1, <2>2, <2>3, ClientChange
<1>5. CASE ~asks
  <2> DEFINE x == [client[c] EXCEPT !.pc = "exit1"]
  <2>1. client' = [client EXCEPT ![c] = x] /\ conn' = [conn EXCEPT ![c] = conn[c]]
    BY <1>2, <1>5 DEF RunCommand, Become
  <2>2. x \in ClientType /\ x.name = client[c].name /\ x.at = client[c].at
    BY <1>2 DEF ClientType, Final
  <2>3. x.pc \notin {"asked", "sending", "sent"}  BY <1>2 DEF ClientType
  <2>4. conn[c].state \in {"request", "upload"} => x.name \in Names
    BY <2>2 DEF ClusterInv, Named
  <2> HIDE DEF x
  <2> QED  BY <1>2, <1>3, <2>1, <2>2, <2>3, <2>4, ClientChange
<1> QED  BY <1>4, <1>5

(***************************************************************************)
(* The ways a client goes on: it is done with its connection, it connects  *)
(* again, it goes on with this one.                                        *)
(***************************************************************************)
LEMMA MoveOn ==
  ASSUME ClusterInv, NEW c \in Clients, client[c].name \in Names,
         NEW pc \in {"asked", "sending", "sent"} \cup Final, NEW y \in ConnType,
         client' = [client EXCEPT ![c].pc = pc],
         conn' = [conn EXCEPT ![c] = y],
         y.state = "upload" => conn[c].state = "upload" /\ y.file = conn[c].file,
         UNCHANGED <<stores, tables, joiner, stops, history>>
  PROVE  ClusterInv'
<1> DEFINE x == [client[c] EXCEPT !.pc = pc]
<1>1. client[c] \in ClientType /\ stops' \in 0..MaxFailures
  BY DEF ClusterInv, TypeOK
<1>2. /\ x \in ClientType
      /\ x.name = client[c].name /\ x.at = client[c].at /\ x.name \in Names
  BY <1>1 DEF ClientType
<1>3. client' = [client EXCEPT ![c] = x]
  BY DEF ClusterInv, TypeOK
<1> HIDE DEF x
<1> QED  BY <1>1, <1>2, <1>3, ClientChange

LEMMA IdleType == Idle \in ConnType /\ Idle.state = "none"
BY DEF Idle, ConnType

LEMMA RequestType == Request \in ConnType /\ Request.state = "request"
BY DEF Request, Idle, ConnType

LEMMA LeaveInv ==
  ASSUME ClusterInv, NEW c \in Clients, client[c].name \in Names,
         NEW pc \in Final, Leave(c, pc),
         UNCHANGED <<stores, tables, joiner, stops, history>>
  PROVE  ClusterInv'
BY IdleType, MoveOn DEF Leave, Become

LEMMA ConnectInv ==
  ASSUME ClusterInv, NEW c \in Clients, client[c].name \in Names,
         NEW address, Connect(c, address),
         UNCHANGED <<stores, tables, joiner, stops, history>>
  PROVE  ClusterInv'
<1>1. CASE Up(address)
  <2> DEFINE x == [client[c] EXCEPT !.at = address]
  <2>1. client[c] \in ClientType /\ stops' \in 0..MaxFailures
    BY DEF ClusterInv, TypeOK
  <2>2. x \in ClientType /\ x.name \in Names
    BY <1>1, <2>1 DEF ClientType, Up
  <2>3. client' = [client EXCEPT ![c] = x] /\ conn' = [conn EXCEPT ![c] = Request]
    BY <1>1 DEF Connect, ClusterInv, TypeOK
  <2> HIDE DEF x
  <2> QED  BY <2>1, <2>2, <2>3, RequestType, ClientChange
<1>2. CASE ~Up(address)
  BY <1>2, LeaveInv DEF Connect, Final
<1> QED  BY <1>1, <1>2

LEMMA ReceiveInv ==
  ASSUME ClusterInv, NEW c \in Clients, client[c].name \in Names,
         NEW what \in Contents, Receive(c, what),
         UNCHANGED <<stores, tables, joiner, stops, history>>
  PROVE  ClusterInv'
<1> DEFINE x == [client[c] EXCEPT !.pc = "end", !.got = what]
<1>1. client[c] \in ClientType /\ stops' \in 0..MaxFailures
  BY DEF ClusterInv, TypeOK
<1>2. x \in ClientType /\ x.name \in Names
  BY <1>1 DEF ClientType, Final
<1>3. client' = [client EXCEPT ![c] = x] /\ conn' = [conn EXCEPT ![c] = Idle]
  BY DEF Receive, ClusterInv, TypeOK
<1> HIDE DEF x
<1> QED  BY <1>1, <1>2, <1>3, IdleType, ClientChange

LEMMA ClientStepInv ==
  ASSUME ClusterInv, NEW c \in Clients, ClientStep(c)
  PROVE  ClusterInv'
<1>0. UNCHANGED <<stores, tables, joiner, stops, history>>  BY DEF ClientStep
<1>1. /\ conn[c] \in ConnType
      /\ client[c].pc \in {"asked", "sending", "sent"} => client[c].name \in Names
  BY DEF ClusterInv, TypeOK, Named
<1>2. CASE GetAnswer(c)
  <2>1. client[c].name \in Names  BY <1>1, <1>2 DEF GetAnswer, Asks
  <2>2. CASE Reads(c, "CONTENT") /\ Receive(c, conn[c].answer[2])
    <3>1. conn[c].answer[2] \in Contents
      BY <1>1, <2>2 DEF ConnType, Answers, Reads
    <3> QED  BY <1>0, <2>1, <2>2, <3>1, ReceiveInv
  <2>3. CASE Reads(c, "REDIRECT") /\ Connect(c, conn[c].answer[2])
    BY <1>0, <2>1, <2>3, ConnectInv
  <2>4. CASE Reads(c, "OK") /\ Retry(c)
    BY <1>0, <2>1, <2>4, ConnectInv DEF Retry
  <2>5. CASE Leave(c, "sigpipe")
    BY <1>0, <2>1, <2>5, LeaveInv DEF Final
  <2> QED  BY <1>2, <2>2, <2>3, <2>4, <2>5 DEF GetAnswer
<1>3. CASE PutAnswer(c)
  <2>1. client[c].name \in Names  BY <1>1, <1>3 DEF PutAnswer, Asks
  <2>2. CASE Reads(c, "REDIRECT") /\ Connect(c, conn[c].answer[2])
    BY <1>0, <2>1, <2>2, ConnectInv
  <2>3. CASE AtEnd(c) /\ Retry(c)
    BY <1>0, <2>1, <2>3, ConnectInv DEF Retry
  <2>4. CASE Become(c, "sending") /\ conn' = [conn EXCEPT ![c].answer = None]
    <3> DEFINE y == [conn[c] EXCEPT !.answer = None]
    <3>1. y \in ConnType /\ y.state = conn[c].state /\ y.file = conn[c].file
      BY <1>1 DEF ConnType
    <3>2. conn' = [conn EXCEPT ![c] = y]  BY <2>4 DEF ClusterInv, TypeOK
    <3> HIDE DEF y
    <3> QED  BY <1>0, <2>1, <2>4, <3>1, <3>2, MoveOn DEF Become
  <2> QED  BY <1>3, <2>2, <2>3, <2>4 DEF PutAnswer
<1>4. CASE SendBody(c)
  <2>1. client[c].name \in Names  BY <1>1, <1>4 DEF SendBody
  <2>2. CASE AtEnd(c)
    BY <1>0, <1>4, <2>1, <2>2, LeaveInv DEF SendBody, Final
  <2>3. CASE ~AtEnd(c)
    <3> DEFINE y == [conn[c] EXCEPT !.body = "all"]
    <3>1. y \in ConnType /\ y.state = conn[c].state /\ y.file = conn[c].file
      BY <1>1 DEF ConnType
    <3>2. conn' = [conn EXCEPT ![c] = y]
      BY <1>4, <2>3 DEF SendBody, ClusterInv, TypeOK
    <3> HIDE DEF y
    <3> QED  BY <1>0, <1>4, <2>1, <2>3, <3>1, <3>2, MoveOn DEF SendBody, Become
  <2> QED  BY <2>2, <2>3
<1>5. CASE PutEnds(c)
  BY <1>0, <1>1, <1>5, LeaveInv DEF PutEnds, Final
<1>6. CASE OtherAnswer(c)
  BY <1>0, <1>1, <1>6, LeaveInv DEF OtherAnswer, Asks, Final
<1> QED  BY <1>2, <1>3, <1>4, <1>5, <1>6 DEF ClientStep

LEMMA KillInv ==
  ASSUME ClusterInv, NEW c \in Clients, Kill(c)
  PROVE  ClusterInv'
<1>0. UNCHANGED <<stores, tables, joiner, stops, history>>  BY DEF Kill
<1>1. conn[c] \in ConnType /\ client[c].name \in Names
  BY DEF ClusterInv, TypeOK, Named, Kill
<1> DEFINE y == LeftBehind(conn[c])
<1>2. CASE conn[c].state = "done"
  <2>1. y = Idle /\ conn' = [conn EXCEPT ![c] = y]
    BY <1>2 DEF LeftBehind, Kill
  <2> HIDE DEF y
  <2> QED  BY <1>0, <1>1, <2>1, IdleType, MoveOn DEF Kill, Become, Final
<1>3. CASE conn[c].state # "done"
  <2>1. y \in ConnType /\ y.state = conn[c].state /\ y.file = conn[c].file
    BY <1>1, <1>3 DEF LeftBehind, ConnType
  <2>2. conn' = [conn EXCEPT ![c] = y]  BY DEF Kill
  <2> HIDE DEF y
  <2> QED  BY <1>0, <1>1, <2>1, <2>2, MoveOn DEF Kill, Become, Final
<1> QED  BY <1>2, <1>3

-----------------------------------------------------------------------------
(***************************************************************************)
(* A step of a server that ends an upload or answers a request, opens      *)
(* nothing, and leaves the directories alone.                              *)
(***************************************************************************)
LEMMA ClosedType ==
  ASSUME ClusterInv, NEW c \in Clients, NEW a \in Answers \cup {None}
  PROVE  Closed(c, a) \in ConnType /\ Closed(c, a).state \in {"none", "done"}
<1>1. conn[c] \in ConnType  BY DEF ClusterInv, TypeOK
<1>2. CASE client[c].pc \in Final
  BY <1>2, IdleType DEF Closed
<1>3. CASE client[c].pc \notin Final
  BY <1>1, <1>3 DEF Closed, ConnType
<1> QED  BY <1>2, <1>3

LEMMA ServerChange ==
  ASSUME ClusterInv,
         conn' \in [Clients -> ConnType],
         \A d \in Clients : conn'[d] = conn[d] \/ conn'[d].state \in {"none", "done"},
         UNCHANGED <<dir, client>>,
         machine' \in [Machines -> {"up", "down", "joining"}],
         joiner' \in [Subs -> JoinerType],
         stops' \in 0..MaxFailures,
         file_to_server' \in [Names -> Subs \cup {Nowhere, None}],
         mini_servers' \in Seq(Subs \cup {Nowhere}),
         given' \in Seq(Nat), last' \in Nat,
         TurnCounts',
         latest' \in [Names -> Changes],
         \A n \in Names : latest'[n] \in {latest[n], None},
         disturbed' \subseteq Clients
  PROVE  ClusterInv'
<1>1. TypeOK'  BY DEF ClusterInv, TypeOK, TurnCounts
<1>2. Named'  BY DEF ClusterInv, TypeOK, Named
<1>3. OpenHasFile'  BY DEF ClusterInv, TypeOK, OpenHasFile
<1>4. DeletionHolds'  BY ClusterAssumption DEF ClusterInv, DeletionHolds
<1> QED  BY <1>1, <1>2, <1>3, <1>4 DEF ClusterInv

LEMMA InterfereType ==
  ASSUME ClusterInv, NEW c \in Clients, NEW n \in Names, Interfere(c, n)
  PROVE  /\ latest' \in [Names -> Changes]
         /\ latest'[n] = None
         /\ \A k \in Names : latest'[k] \in {latest[k], None}
         /\ \A k \in Names \ {n} : latest'[k] = latest[k]
         /\ disturbed' \subseteq Clients
BY DEF ClusterInv, TypeOK, Interfere, UnderWay, Changes

(***************************************************************************)
(* Whose turn it is.                                                       *)
(***************************************************************************)
LEMMA NextIndexValue ==
  ASSUME NEW n \in Nat, NEW i \in 0..n
  PROVE  NextIndex(i, n) = IF i = n THEN 0 ELSE i + 1
<1>1. CASE i = n  BY <1>1 DEF NextIndex
<1>2. CASE i # n  BY <1>2 DEF NextIndex
<1> QED  BY <1>1, <1>2

LEMMA TurnTaken ==
  ASSUME ClusterInv, TakeTurn(current_server_index), UNCHANGED mini_servers
  PROVE  TurnCounts' /\ given' \in Seq(Nat) /\ last' \in Nat
<1> DEFINE i == current_server_index
           n == Len(mini_servers)
<1>1. n \in Nat /\ i \in 0..n /\ given = [k \in 1..i |-> k - 1]
  BY DEF ClusterInv, TypeOK, TurnCounts
<1>2. Len(given) = i /\ given \in Seq(Nat)
  <2>1. given \in Seq(Nat)  BY DEF ClusterInv, TypeOK
  <2>2. DOMAIN given = 1..i  BY <1>1
  <2> QED  BY <1>1, <2>1, <2>2
<1>3. current_server_index' = IF i = n THEN 0 ELSE i + 1
  BY <1>1, NextIndexValue DEF TakeTurn
<1>4. last' = i /\ given' = IF i = n THEN <<>> ELSE Append(given, i)
  BY <1>2 DEF TakeTurn
<1>5. CASE i = n
  BY <1>1, <1>3, <1>4, <1>5 DEF TurnCounts
<1>6. CASE i # n
  <2>1. given' = Append(given, i) /\ current_server_index' = i + 1
    BY <1>3, <1>4, <1>6
  <2>2. given' \in Seq(Nat) /\ Len(given') = i + 1
    BY <1>1, <1>2, <2>1
  <2>3. \A k \in 1..(i + 1) : given'[k] = k - 1
    BY <1>1, <1>2, <2>1
  <2>4. given' = [k \in 1..(i + 1) |-> k - 1]
    <3>1. DOMAIN given' = 1..(i + 1)  BY <2>2
    <3>2. given' = [k \in DOMAIN given' |-> given'[k]]  BY <2>2
    <3> HIDE DEF i
    <3> QED  BY <2>3, <3>1, <3>2
  <2> QED  BY <1>1, <1>4, <2>1, <2>2, <2>4 DEF TurnCounts
<1> QED  BY <1>5, <1>6

-----------------------------------------------------------------------------
(* A connection that is answered, with everything else as it was. *)
LEMMA AnsweredType ==
  ASSUME ClusterInv, NEW c \in Clients, NEW a \in Answers \cup {None},
         conn' = Answered(c, a)
  PROVE  /\ conn' \in [Clients -> ConnType]
         /\ \A d \in Clients : conn'[d] = conn[d] \/ conn'[d].state \in {"none", "done"}
<1>1. Closed(c, a) \in ConnType /\ Closed(c, a).state \in {"none", "done"}
  BY ClosedType
<1> QED  BY <1>1 DEF Answered, ClusterInv, TypeOK

LEMMA AskedName ==
  ASSUME ClusterInv, NEW c \in Clients,
         conn[c].state \in {"request", "upload"}
  PROVE  client[c].name \in Names /\ client[c].at \in Machines
BY DEF ClusterInv, TypeOK, Named, ClientType

LEMMA SameTurns ==
  ASSUME ClusterInv, UNCHANGED <<tables, turns>>
  PROVE  /\ TurnCounts' /\ given' \in Seq(Nat) /\ last' \in Nat
         /\ file_to_server' \in [Names -> Subs \cup {Nowhere, None}]
         /\ mini_servers' \in Seq(Subs \cup {Nowhere})
BY DEF ClusterInv, TypeOK, TurnCounts, tables, turns

LEMMA RedirectPutInv ==
  ASSUME ClusterInv, NEW c \in Clients, RedirectPut(c)
  PROVE  ClusterInv'
<1> DEFINE n == client[c].name
           target == mini_servers[current_server_index]
<1>1. n \in Names  BY AskedName DEF RedirectPut, Asked
<1>2. target \in Subs \cup {Nowhere}
  BY DEF ClusterInv, TypeOK, RedirectPut, Redirects
<1>3. <<"REDIRECT", target>> \in Answers  BY <1>2 DEF Answers
<1>4. conn' = Answered(c, <<"REDIRECT", target>>)  BY DEF RedirectPut, Target
<1>5. file_to_server' \in [Names -> Subs \cup {Nowhere, None}]
  BY <1>1, <1>2 DEF RedirectPut, Route, Target, ClusterInv, TypeOK
<1>6. TurnCounts' /\ given' \in Seq(Nat) /\ last' \in Nat
  BY TurnTaken DEF RedirectPut
<1>7. /\ UNCHANGED <<stores, mini_servers, client, joiner, stops>>
      /\ Interfere(c, n)
  BY DEF RedirectPut
<1>8. /\ latest' \in [Names -> Changes]
      /\ \A k \in Names : latest'[k] \in {latest[k], None}
      /\ disturbed' \subseteq Clients
  BY <1>1, <1>7, InterfereType
<1>9. /\ conn' \in [Clients -> ConnType]
      /\ \A d \in Clients : conn'[d] = conn[d] \/ conn'[d].state \in {"none", "done"}
  BY <1>3, <1>4, AnsweredType
<1>10. /\ UNCHANGED <<dir, client>>
       /\ machine' \in [Machines -> {"up", "down", "joining"}]
       /\ joiner' \in [Subs -> JoinerType] /\ stops' \in 0..MaxFailures
       /\ mini_servers' \in Seq(Subs \cup {Nowhere})
  BY <1>7 DEF stores, ClusterInv, TypeOK
<1> QED  BY <1>5, <1>6, <1>8, <1>9, <1>10, ServerChange

(* A handler that only answers. *)
LEMMA OnlyAnswersInv ==
  ASSUME ClusterInv, NEW c \in Clients, NEW a \in Answers \cup {None},
         conn' = Answered(c, a),
         UNCHANGED <<stores, tables, client, joiner, stops, history>>
  PROVE  ClusterInv'
<1>1. /\ conn' \in [Clients -> ConnType]
      /\ \A d \in Clients : conn'[d] = conn[d] \/ conn'[d].state \in {"none", "done"}
  BY AnsweredType
<1>2. /\ UNCHANGED <<dir, client>>
      /\ machine' \in [Machines -> {"up", "down", "joining"}]
      /\ joiner' \in [Subs -> JoinerType] /\ stops' \in 0..MaxFailures
      /\ latest' \in [Names -> Changes]
      /\ \A n \in Names : latest'[n] \in {latest[n], None}
      /\ disturbed' \subseteq Clients
  BY DEF stores, history, ClusterInv, TypeOK
<1>3. UNCHANGED <<tables, turns>>  BY DEF history
<1> QED  BY <1>1, <1>2, <1>3, SameTurns, ServerChange

LEMMA HandleGetInv ==
  ASSUME ClusterInv, NEW c \in Clients, HandleGet(c)
  PROVE  ClusterInv'
<1> DEFINE m == client[c].at
           n == client[c].name
<1>1. n \in Names /\ m \in Machines  BY AskedName DEF HandleGet, Asked
<1>2. /\ dir[m][n] \in Contents \cup {None}
      /\ file_to_server[n] \in Subs \cup {Nowhere, None}
  BY <1>1 DEF ClusterInv, TypeOK
<1> HIDE DEF m, n
<1>3. Lookup(m, n) \in Answers  BY <1>2 DEF Lookup, Answers
<1> QED  BY <1>3, OnlyAnswersInv DEF HandleGet, m, n

LEMMA HandleListInv ==
  ASSUME ClusterInv, NEW c \in Clients, HandleList(c)
  PROVE  ClusterInv'
<1> DEFINE listing == Held(Main) \cup {n \in Names : file_to_server[n] # None}
<1>1. listing \in SUBSET Names  BY DEF Held
<1> HIDE DEF listing
<1>2. <<"LISTING", listing>> \in Answers  BY <1>1 DEF Answers
<1> QED  BY <1>2, OnlyAnswersInv DEF HandleList, listing

-----------------------------------------------------------------------------
(***************************************************************************)
(* The life of an upload: opened, closed, and deleted meanwhile.           *)
(***************************************************************************)
LEMMA OpenPutInv ==
  ASSUME ClusterInv, NEW c \in Clients, OpenPut(c)
  PROVE  ClusterInv'
<1> DEFINE m == client[c].at
           n == client[c].name
<1>1. /\ n \in Names /\ m \in Machines /\ conn \in [Clients -> ConnType]
      /\ dir \in [Machines -> [Names -> Contents \cup {None}]]
  BY AskedName DEF OpenPut, Asked, ClusterInv, TypeOK
<1>2. UNCHANGED <<machine, file_to_server, mini_servers, client, joiner, stops>>
  BY DEF OpenPut
<1>3. /\ latest' \in [Names -> Changes]
      /\ latest'[n] = None
      /\ \A k \in Names \ {n} : latest'[k] = latest[k]
      /\ disturbed' \subseteq Clients
  BY <1>1, InterfereType DEF OpenPut
<1>4. TurnCounts' /\ given' \in Seq(Nat) /\ last' \in Nat
  <2>1. CASE m = Main
    <3>1. current_server_index = 0
      <4>1. Len(mini_servers) \in Nat /\ current_server_index \in 0..Len(mini_servers)
        BY DEF ClusterInv, TypeOK
      <4>2. current_server_index = 0 \/ ~(Len(mini_servers) > 0)
        BY <2>1 DEF OpenPut, Redirects
      <4> QED  BY <4>1, <4>2
    <3> QED  BY <1>2, <2>1, <3>1, TurnTaken DEF OpenPut
  <2>2. CASE m # Main
    BY <1>2, <2>2, SameTurns DEF OpenPut, tables
  <2> QED  BY <2>1, <2>2
<1>5. dir' = [dir EXCEPT ![m][n] = Torn]  BY DEF OpenPut
<1>6. Torn \in Contents /\ Torn # None
  BY ClusterAssumption DEF Contents
<1>7. /\ dir' \in [Machines -> [Names -> Contents \cup {None}]]
      /\ dir'[m][n] # None
      /\ \A p \in Machines, k \in Names : dir[p][k] # None => dir'[p][k] # None
      /\ \A k \in Names \ {n} : dir'[Main][k] = dir[Main][k]
  BY <1>1, <1>5, <1>6 DEF Machines
<1>8. /\ conn' \in [Clients -> ConnType]
      /\ \A d \in Clients \ {c} :
           /\ conn'[d].state = conn[d].state
           /\ conn'[d].file # "gone" => conn[d].file # "gone"
  <2> DEFINE y == [conn[c] EXCEPT
                     !.state = "upload",
                     !.answer = IF client[c].pc = "asked" THEN <<"HERE", None>> ELSE None,
                     !.file = IF OpenAt(m, n) = {} THEN "sole" ELSE "shared"]
  <2>1. y \in ConnType
    <3>1. <<"HERE", None>> \in Answers  BY DEF Answers
    <3>2. (IF client[c].pc = "asked" THEN <<"HERE", None>> ELSE None)
            \in Answers \cup {None}
      BY <3>1
    <3> HIDE DEF n, m
    <3> QED  BY <1>1, <3>2 DEF ConnType
  <2>2. conn' = [d \in Clients |->
                   IF d = c THEN y
                   ELSE IF d \in OpenAt(m, n) THEN [conn[d] EXCEPT !.file = "shared"]
                   ELSE conn[d]]
    BY DEF OpenPut
  <2>3. \A d \in Clients : d \in OpenAt(m, n) => conn[d].file # "gone"
    BY DEF OpenAt
  <2>4. \A d \in Clients : [conn[d] EXCEPT !.file = "shared"] \in ConnType
    BY <1>1 DEF ConnType
  <2>5. \A d \in Clients :
          [conn[d] EXCEPT !.file = "shared"].state = conn[d].state
    BY <1>1 DEF ConnType
  <2> HIDE DEF y, m, n
  <2>6. conn' \in [Clients -> ConnType]  BY <1>1, <2>1, <2>2, <2>4
  <2>7. \A d \in Clients \ {c} :
          /\ conn'[d].state = conn[d].state
          /\ conn'[d].file # "gone" => conn[d].file # "gone"
    BY <2>2, <2>3, <2>5
  <2> QED  BY <2>6, <2>7
<1>9. TypeOK'
  BY <1>2, <1>3, <1>4, <1>7, <1>8 DEF ClusterInv, TypeOK, TurnCounts
<1>10. Named'
  BY <1>1, <1>2, <1>8 DEF ClusterInv, Named
<1>11. OpenHasFile'
  <2> SUFFICES ASSUME NEW d \in Clients,
                      conn'[d].state = "upload", conn'[d].file # "gone"
               PROVE  dir'[client[d].at][client[d].name] # None
    BY <1>2 DEF OpenHasFile
  <2>1. CASE d = c  BY <1>7, <2>1
  <2>2. CASE d # c
    <3>1. /\ conn[d].state = "upload" /\ conn[d].file # "gone"
      BY <1>8, <2>2
    <3>2. client[d].name \in Names /\ client[d].at \in Machines
      BY <3>1, AskedName
    <3> QED  BY <1>7, <3>1, <3>2 DEF ClusterInv, OpenHasFile
  <2> QED  BY <2>1, <2>2
<1>12. DeletionHolds'
  BY <1>3, <1>7, ClusterAssumption DEF ClusterInv, DeletionHolds
<1> QED  BY <1>4, <1>9, <1>10, <1>11, <1>12 DEF ClusterInv

LEMMA ClosePutInv ==
  ASSUME ClusterInv, NEW c \in Clients, ClosePut(c)
  PROVE  ClusterInv'
<1> DEFINE m == client[c].at
           n == client[c].name
           own == conn[c].file \in OwnFile
<1>1. /\ n \in Names /\ m \in Machines
      /\ dir \in [Machines -> [Names -> Contents \cup {None}]]
      /\ latest \in [Names -> Changes]
  BY AskedName DEF ClosePut, ClusterInv, TypeOK
<1>2. UNCHANGED <<machine, tables, client, joiner, stops, disturbed, turns>>
  BY DEF ClosePut
<1>3. CASE conn' = Answered(c, <<"ERROR", None>>) /\ UNCHANGED <<dir, latest>>
  <2>1. UNCHANGED <<stores, tables, client, joiner, stops, history>>
    BY <1>2, <1>3 DEF stores, history
  <2>2. <<"ERROR", None>> \in Answers  BY DEF Answers
  <2> QED  BY <1>3, <2>1, <2>2, OnlyAnswersInv
<1>4. CASE /\ conn' = Answered(c, None)
           /\ dir' = [dir EXCEPT ![m][n] = IF own THEN c ELSE @]
           /\ latest' = [latest EXCEPT ![n] =
                IF own /\ c \notin disturbed THEN c ELSE @]
  <2>1. /\ conn' \in [Clients -> ConnType]
        /\ \A d \in Clients : conn'[d] = conn[d] \/ conn'[d].state \in {"none", "done"}
    BY <1>4, AnsweredType
  <2>2. c # None /\ c # "DELETED" /\ c \in Contents /\ c \in Changes
    BY ClusterAssumption DEF Contents, Changes
  <2>3. own => dir[m][n] # None
    BY DEF ClosePut, OwnFile, ClusterInv, OpenHasFile
  <2>4. /\ dir' = [dir EXCEPT ![m][n] = IF own THEN c ELSE dir[m][n]]
        /\ latest' = [latest EXCEPT ![n] =
             IF own /\ c \notin disturbed THEN c ELSE latest[n]]
    BY <1>1, <1>4
  <2> HIDE DEF m, n, own
  <2>5. /\ dir' \in [Machines -> [Names -> Contents \cup {None}]]
        /\ latest' \in [Names -> Changes]
    BY <1>1, <2>2, <2>4
  <2>6. \A p \in Machines, k \in Names : dir'[p][k] = None <=> dir[p][k] = None
    BY <1>1, <2>2, <2>3, <2>4
  <2>7. \A k \in Names : latest'[k] = "DELETED" => latest[k] = "DELETED"
    BY <1>1, <2>2, <2>4
  <2>8. TypeOK'
    BY <1>2, <2>1, <2>5 DEF ClusterInv, TypeOK, tables, turns
  <2>9. Named'  BY <1>2, <2>1 DEF ClusterInv, Named
  <2>10. OpenHasFile'
    BY <1>2, <2>1, <2>6, AskedName DEF ClusterInv, OpenHasFile
  <2>11. DeletionHolds'
    BY <2>6, <2>7 DEF ClusterInv, DeletionHolds, Machines
  <2>12. TurnCounts'  BY <1>2, SameTurns
  <2> QED  BY <2>8, <2>9, <2>10, <2>11, <2>12 DEF ClusterInv
<1> QED  BY <1>3, <1>4 DEF ClosePut

LEMMA HandleDeleteInv ==
  ASSUME ClusterInv, NEW c \in Clients, HandleDelete(c)
  PROVE  ClusterInv'
<1> DEFINE n == client[c].name
           open == OpenAt(Main, n)
<1>1. /\ n \in Names /\ Main \in Machines
      /\ conn \in [Clients -> ConnType]
      /\ dir \in [Machines -> [Names -> Contents \cup {None}]]
      /\ latest \in [Names -> Changes]
  BY AskedName DEF HandleDelete, Asked, ClusterInv, TypeOK, Machines
<1>2. UNCHANGED <<machine, tables, client, joiner, stops, disturbed, turns>>
  BY DEF HandleDelete
<1>3. <<"OK", None>> \in Answers /\ <<"ERROR", None>> \in Answers
  BY DEF Answers
<1>4. CASE /\ dir' = [dir EXCEPT ![Main][n] = None]
           /\ conn' = [d \in Clients |->
                IF d = c THEN Closed(c, <<"OK", None>>)
                ELSE IF d \in open THEN [conn[d] EXCEPT !.file = "gone"]
                ELSE conn[d]]
           /\ latest' = [latest EXCEPT ![n] = "DELETED"]
  <2>1. /\ Closed(c, <<"OK", None>>) \in ConnType
        /\ Closed(c, <<"OK", None>>).state \in {"none", "done"}
    BY <1>3, ClosedType
  <2>2. \A d \in Clients :
          /\ [conn[d] EXCEPT !.file = "gone"] \in ConnType
          /\ [conn[d] EXCEPT !.file = "gone"].state = conn[d].state
          /\ [conn[d] EXCEPT !.file = "gone"].file = "gone"
    BY <1>1 DEF ConnType
  <2>3. /\ conn' \in [Clients -> ConnType]
        /\ \A d \in Clients :
             \/ conn'[d].state \in {"none", "done"}
             \/ /\ conn'[d].state = conn[d].state
                /\ \/ conn'[d].file = "gone"
                   \/ d \notin open /\ conn'[d].file = conn[d].file
    <3> HIDE DEF open, n
    <3> QED  BY <1>1, <1>4, <2>1, <2>2
  <2>4. /\ dir' \in [Machines -> [Names -> Contents \cup {None}]]
        /\ dir'[Main][n] = None
        /\ \A p \in Machines, k \in Names :
             p # Main \/ k # n => dir'[p][k] = dir[p][k]
        /\ latest' \in [Names -> Changes]
        /\ \A k \in Names \ {n} : latest'[k] = latest[k]
    <3> HIDE DEF open, n
    <3> QED  BY <1>1, <1>4 DEF Changes
  <2>5. TypeOK'
    BY <1>2, <2>3, <2>4 DEF ClusterInv, TypeOK, tables, turns
  <2>6. Named'  BY <1>2, <2>3 DEF ClusterInv, Named
  <2>7. OpenHasFile'
    <3> SUFFICES ASSUME NEW d \in Clients,
                        conn'[d].state = "upload", conn'[d].file # "gone"
                 PROVE  dir'[client[d].at][client[d].name] # None
      BY <1>2 DEF OpenHasFile
    <3>1. conn[d].state = "upload" /\ conn[d].file # "gone" /\ d \notin open
      BY <2>3
    <3>2. client[d].name \in Names /\ client[d].at \in Machines
      BY <3>1, AskedName
    <3>3. client[d].at # Main \/ client[d].name # n
      BY <3>1 DEF OpenAt
    <3>4. dir[client[d].at][client[d].name] # None
      BY <3>1 DEF ClusterInv, OpenHasFile
    <3> HIDE DEF n
    <3> QED  BY <2>4, <3>2, <3>3, <3>4
  <2>8. DeletionHolds'
    BY <1>1, <2>4 DEF ClusterInv, DeletionHolds
  <2>9. TurnCounts'  BY <1>2, SameTurns
  <2> QED  BY <2>5, <2>6, <2>7, <2>8, <2>9 DEF ClusterInv
<1>5. CASE conn' = Answered(c, <<"ERROR", None>>) /\ UNCHANGED <<dir, latest>>
  <2>1. UNCHANGED <<stores, tables, client, joiner, stops, history>>
    BY <1>2, <1>5 DEF stores, history
  <2> QED  BY <1>3, <1>5, <2>1, OnlyAnswersInv
<1> QED  BY <1>4, <1>5 DEF HandleDelete

-----------------------------------------------------------------------------
(***************************************************************************)
(* Registrations, and processes that come and go.                          *)
(***************************************************************************)
LEMMA JoinerTyped ==
  ASSUME ClusterInv, NEW s \in Subs, NEW y \in JoinerType,
         joiner' = [joiner EXCEPT ![s] = y]
  PROVE  joiner' \in [Subs -> JoinerType]
BY DEF ClusterInv, TypeOK

(* Steps that leave clients, connections and files alone. *)
LEMMA MachineChange ==
  ASSUME ClusterInv,
         UNCHANGED <<dir, tables, client, conn, history>>,
         machine' \in [Machines -> {"up", "down", "joining"}],
         joiner' \in [Subs -> JoinerType],
         stops' \in 0..MaxFailures
  PROVE  ClusterInv'
<1>1. UNCHANGED <<dir, client, tables, turns>>  BY DEF history
<1>2. /\ conn' \in [Clients -> ConnType] /\ \A d \in Clients : conn'[d] = conn[d]
      /\ latest' \in [Names -> Changes]
      /\ \A n \in Names : latest'[n] \in {latest[n], None}
      /\ disturbed' \subseteq Clients
  BY DEF ClusterInv, TypeOK, history
<1> QED  BY <1>1, <1>2, SameTurns, ServerChange

LEMMA JoinInv ==
  ASSUME ClusterInv, NEW s \in Subs, Join(s)
  PROVE  ClusterInv'
<1>1. PICK address \in {s, Nowhere} :
        joiner' = [joiner EXCEPT ![s] =
          [state |-> "request", address |-> address, names |-> Held(s)]]
  BY DEF Join
<1> DEFINE y == [state |-> "request", address |-> address, names |-> Held(s)]
<1>2. y \in JoinerType  BY DEF JoinerType, Held
<1> HIDE DEF y
<1>3. joiner' \in [Subs -> JoinerType]  BY <1>1, <1>2, JoinerTyped DEF y
<1>4. /\ machine' \in [Machines -> {"up", "down", "joining"}]
      /\ stops' \in 0..MaxFailures
      /\ UNCHANGED <<dir, tables, client, conn, history>>
  BY DEF Join, ClusterInv, TypeOK
<1> QED  BY <1>3, <1>4, MachineChange

LEMMA StartServerInv ==
  ASSUME ClusterInv, NEW s \in Subs, StartServer(s)
  PROVE  ClusterInv'
<1>1. NoJoiner \in JoinerType  BY DEF NoJoiner, JoinerType
<1>2. joiner' \in [Subs -> JoinerType]  BY <1>1, JoinerTyped DEF StartServer
<1>3. machine' \in [Machines -> {"up", "down", "joining"}]
  BY DEF StartServer, ClusterInv, TypeOK
<1> QED  BY <1>2, <1>3, MachineChange DEF StartServer, ClusterInv, TypeOK

LEMMA RestartInv ==
  ASSUME ClusterInv, NEW m \in Machines, Restart(m)
  PROVE  ClusterInv'
<1>1. machine' \in [Machines -> {"up", "down", "joining"}]
  BY DEF Restart, ClusterInv, TypeOK
<1> QED  BY <1>1, MachineChange DEF Restart, ClusterInv, TypeOK

LEMMA FailureCounted ==
  ASSUME ClusterInv, MayFail
  PROVE  stops + 1 \in 0..MaxFailures
<1> DEFINE killed == {c \in Clients : client[c].pc = "killed"}
<1>1. Cardinality(killed) \in Nat
  BY ClusterAssumption, FS_Subset, FS_CardinalityType
<1> QED  BY <1>1, ClusterAssumption DEF MayFail, ClusterInv, TypeOK

LEMMA KillJoinerInv ==
  ASSUME ClusterInv, NEW s \in Subs, KillJoiner(s)
  PROVE  ClusterInv'
<1>1. machine' \in [Machines -> {"up", "down", "joining"}]
  BY DEF KillJoiner, ClusterInv, TypeOK
<1>2. stops' \in 0..MaxFailures  BY FailureCounted DEF KillJoiner
<1> QED  BY <1>1, <1>2, MachineChange DEF KillJoiner, ClusterInv, TypeOK

LEMMA HandleAddServerInv ==
  ASSUME ClusterInv, NEW s \in Subs, HandleAddServer(s)
  PROVE  ClusterInv'
<1> DEFINE address == joiner[s].address
<1>1. /\ joiner[s] \in JoinerType
      /\ address \in Subs \cup {Nowhere} /\ joiner[s].names \subseteq Names
  BY DEF ClusterInv, TypeOK, JoinerType
<1> HIDE DEF address
<1>2. PICK stored \in SUBSET joiner[s].names :
        LET moved == {n \in stored : file_to_server[n] # address}
        IN /\ file_to_server' =
                [n \in Names |-> IF n \in stored THEN address ELSE file_to_server[n]]
           /\ latest' = [n \in Names |-> IF n \in moved THEN None ELSE latest[n]]
           /\ disturbed' = disturbed \cup UNION {UnderWay(n) : n \in moved}
  BY Zenon DEF HandleAddServer, address
<1>3. file_to_server' \in [Names -> Subs \cup {Nowhere, None}]
  BY <1>1, <1>2 DEF ClusterInv, TypeOK
<1>4. /\ latest' \in [Names -> Changes]
      /\ \A n \in Names : latest'[n] \in {latest[n], None}
  BY <1>2 DEF ClusterInv, TypeOK, Changes
<1>5. disturbed' \subseteq Clients
  BY <1>2 DEF ClusterInv, TypeOK, UnderWay
<1>6. /\ mini_servers' = Append(mini_servers, address)
      /\ UNCHANGED <<stores, current_server_index, client, conn, stops, turns>>
  BY DEF HandleAddServer, address
<1>7. /\ mini_servers \in Seq(Subs \cup {Nowhere})
      /\ current_server_index \in 0..Len(mini_servers)
      /\ given = [k \in 1..current_server_index |-> k - 1]
      /\ given \in Seq(Nat) /\ last \in Nat
  BY DEF ClusterInv, TypeOK, TurnCounts
<1>8. /\ mini_servers' \in Seq(Subs \cup {Nowhere})
      /\ Len(mini_servers') = Len(mini_servers) + 1
  BY <1>1, <1>6, <1>7
<1>9. TurnCounts' /\ given' \in Seq(Nat) /\ last' \in Nat
  BY <1>6, <1>7, <1>8 DEF TurnCounts, turns
<1>10. joiner' \in [Subs -> JoinerType]
  <2>1. [joiner[s] EXCEPT !.state = "answered"] \in JoinerType
    BY <1>1 DEF JoinerType
  <2>2. joiner' = [joiner EXCEPT ![s] = [joiner[s] EXCEPT !.state = "answered"]]
    BY DEF HandleAddServer, ClusterInv, TypeOK
  <2> QED  BY <2>1, <2>2, JoinerTyped
<1>11. /\ UNCHANGED <<dir, client, conn>>
       /\ machine' \in [Machines -> {"up", "down", "joining"}]
       /\ stops' \in 0..MaxFailures /\ conn' \in [Clients -> ConnType]
  BY <1>6 DEF stores, ClusterInv, TypeOK
<1> QED
  BY <1>3, <1>4, <1>5, <1>8, <1>9, <1>10, <1>11, ServerChange

LEMMA CutAnswersType ==
  ASSUME NEW d \in Clients
  PROVE  CutAnswers(d) \subseteq Answers \cup {None}
BY DEF CutAnswers, Answers, Contents

LEMMA StopInv ==
  ASSUME ClusterInv, NEW m \in Machines, Stop(m)
  PROVE  ClusterInv'
<1> DEFINE serving == {d \in Clients : client[d].at = m /\ conn[d].state \in {"request", "upload"}}
           asking  == {d \in serving : conn[d].state = "request"}
<1>1. conn \in [Clients -> ConnType]  BY DEF ClusterInv, TypeOK
<1>2. /\ conn' \in [Clients -> ConnType]
      /\ \A d \in Clients : conn'[d] = conn[d] \/ conn'[d].state \in {"none", "done"}
  <2>1. PICK busy \in SUBSET asking :
          conn' \in {[d \in Clients |->
                IF d \in busy THEN Closed(d, a)
                ELSE IF d \in serving THEN Closed(d, conn[d].answer)
                ELSE conn[d]] :
                a \in IF busy = {} THEN {None} ELSE UNION {CutAnswers(d) : d \in busy}}
    BY Zenon DEF Stop
  <2>2. PICK a \in IF busy = {} THEN {None} ELSE UNION {CutAnswers(d) : d \in busy} :
          conn' = [d \in Clients |->
                IF d \in busy THEN Closed(d, a)
                ELSE IF d \in serving THEN Closed(d, conn[d].answer)
                ELSE conn[d]]
    BY <2>1
  <2>3. a \in Answers \cup {None}
    <3>1. \A d \in busy : CutAnswers(d) \subseteq Answers \cup {None}
      BY CutAnswersType
    <3> QED  BY <2>2, <3>1
  <2>4. \A d \in Clients : Closed(d, a) \in ConnType /\ Closed(d, a).state \in {"none", "done"}
    BY <2>3, ClosedType
  <2>5. \A d \in Clients : conn[d].answer \in Answers \cup {None}
    BY <1>1 DEF ConnType
  <2>6. \A d \in Clients :
          /\ Closed(d, conn[d].answer) \in ConnType
          /\ Closed(d, conn[d].answer).state \in {"none", "done"}
    BY <2>5, ClosedType
  <2> HIDE DEF serving, asking
  <2> QED  BY <1>1, <2>2, <2>4, <2>6
<1>3. stops' \in 0..MaxFailures  BY FailureCounted DEF Stop
<1>4. machine' \in [Machines -> {"up", "down", "joining"}]
  BY DEF Stop, ClusterInv, TypeOK
<1>5. UNCHANGED <<dir, client>>  BY DEF Stop
<1>6. CASE m = Main
  <2>1. /\ file_to_server' = [n \in Names |-> None]
        /\ mini_servers' = <<>>
        /\ current_server_index' = 0
        /\ joiner' = [s \in Subs |->
              IF joiner[s].state = "request" THEN [joiner[s] EXCEPT !.state = "lost"]
              ELSE joiner[s]]
        /\ latest' = [n \in Names |->
              IF latest[n] \in Clients /\ dir[Main][n] # latest[n] THEN None
              ELSE latest[n]]
        /\ disturbed' = disturbed \cup UNION {UnderWay(n) : n \in Names}
        /\ given' = <<>>
        /\ last' = 0
    BY <1>6 DEF Stop
  <2>2. joiner' \in [Subs -> JoinerType]
    <3>1. \A s \in Subs : /\ joiner[s] \in JoinerType
                          /\ [joiner[s] EXCEPT !.state = "lost"] \in JoinerType
      BY DEF ClusterInv, TypeOK, JoinerType
    <3> QED  BY <2>1, <3>1
  <2>3. /\ latest' \in [Names -> Changes]
        /\ \A n \in Names : latest'[n] \in {latest[n], None}
    BY <2>1 DEF ClusterInv, TypeOK, Changes
  <2>4. disturbed' \subseteq Clients
    BY <2>1 DEF ClusterInv, TypeOK, UnderWay
  <2>5. /\ file_to_server' \in [Names -> Subs \cup {Nowhere, None}]
        /\ mini_servers' \in Seq(Subs \cup {Nowhere})
        /\ given' \in Seq(Nat) /\ last' \in Nat
        /\ TurnCounts'
    BY <2>1 DEF TurnCounts
  <2> QED  BY <1>2, <1>3, <1>4, <1>5, <2>2, <2>3, <2>4, <2>5, ServerChange
<1>7. CASE m # Main
  <2>1. UNCHANGED <<tables, joiner, history>>  BY <1>7 DEF Stop
  <2>2. UNCHANGED <<tables, turns>>  BY <2>1 DEF history
  <2>3. /\ joiner' \in [Subs -> JoinerType]
        /\ latest' \in [Names -> Changes]
        /\ \A n \in Names : latest'[n] \in {latest[n], None}
        /\ disturbed' \subseteq Clients
    BY <2>1 DEF history, ClusterInv, TypeOK
  <2> QED  BY <1>2, <1>3, <1>4, <1>5, <2>2, <2>3, SameTurns, ServerChange
<1> QED  BY <1>6, <1>7

-----------------------------------------------------------------------------
LEMMA NextInv == ClusterInv /\ [Next]_vars => ClusterInv'
<1> SUFFICES ASSUME ClusterInv, [Next]_vars PROVE ClusterInv'  OBVIOUS
<1>1. ASSUME NEW c \in Clients, NEW l \in Lines[c], RunCommand(c, l)
      PROVE  ClusterInv'
  BY <1>1, RunCommandInv
<1>2. ASSUME NEW c \in Clients, ClientStep(c) \/ Kill(c)
      PROVE  ClusterInv'
  BY <1>2, ClientStepInv, KillInv
<1>3. ASSUME NEW c \in Clients, Serve(c)
      PROVE  ClusterInv'
  BY <1>3, RedirectPutInv, OpenPutInv, ClosePutInv, HandleGetInv,
     HandleDeleteInv, HandleListInv DEF Serve
<1>4. ASSUME NEW s \in Subs,
             Join(s) \/ HandleAddServer(s) \/ StartServer(s) \/ KillJoiner(s)
      PROVE  ClusterInv'
  BY <1>4, JoinInv, HandleAddServerInv, StartServerInv, KillJoinerInv
<1>5. ASSUME NEW m \in Machines, Stop(m) \/ Restart(m)
      PROVE  ClusterInv'
  BY <1>5, StopInv, RestartInv
<1>6. CASE UNCHANGED vars
  <2>1. /\ UNCHANGED <<stores, dir, tables, client, conn, joiner, stops, history>>
        /\ machine' = machine
    BY <1>6 DEF vars, stores, tables, history, turns
  <2> QED  BY <2>1, MachineChange DEF ClusterInv, TypeOK
<1> QED  BY <1>1, <1>2, <1>3, <1>4, <1>5, <1>6 DEF Next

(* The servers, the clients and the connections between them keep their    *)
(* types: a redirection always has a target, the table of the main server  *)
(* names only what registered, and a request that a server has names a     *)
(* file.                                                                   *)
THEOREM ClusterTyped == Spec => []TypeOK
<1>1. Spec => []ClusterInv  BY ClusterInvInit, NextInv, PTL DEF Spec
<1>2. ClusterInv => TypeOK  BY DEF ClusterInv
<1> QED  BY <1>1, <1>2, PTL

(* A file that delete() of the main server removed stays removed until the *)
(* next PUT of it, however many uploads, registrations and failures there  *)
(* are: an upload that still writes it writes to no name any more.         *)
THEOREM DeletionsHold == Spec => []DeletionHolds
<1>1. Spec => []ClusterInv  BY ClusterInvInit, NextInv, PTL DEF Spec
<1>2. ClusterInv => DeletionHolds  BY DEF ClusterInv
<1> QED  BY <1>1, <1>2, PTL

-----------------------------------------------------------------------------
(***************************************************************************)
(* The refinement of Turns: an upload that is redirected, or kept by the   *)
(* main server, is a turn; everything else but a registration and the end  *)
(* of the main server leaves the round as it is.                           *)
(***************************************************************************)
LEMMA TurnIsUpload ==
  ASSUME ClusterInv, TakeTurn(current_server_index), UNCHANGED mini_servers
  PROVE  Round!Upload
<1> DEFINE i == current_server_index
           n == Len(mini_servers)
<1>1. n \in Nat /\ i \in 0..n /\ given = [k \in 1..i |-> k - 1]
  BY DEF ClusterInv, TypeOK, TurnCounts
<1>2. i \in Round!Members  BY <1>1 DEF Round!Members
<1>3. i \notin Round!Had
  <2>1. \A k \in DOMAIN given : given[k] # i  BY <1>1
  <2> QED  BY <2>1 DEF Round!Had
<1>4. /\ last' = i
      /\ given' = IF Len(given) = n THEN <<>> ELSE Append(given, i)
      /\ Len(mini_servers)' = n
  BY DEF TakeTurn
<1> HIDE DEF i
<1> QED  BY <1>2, <1>3, <1>4 DEF Round!Upload

LEMMA NextRefines == ClusterInv /\ [Next]_vars => [Round!Next]_(Round!vars)
<1> SUFFICES ASSUME ClusterInv, [Next]_vars
             PROVE  Round!Next \/ UNCHANGED <<mini_servers, given, last>>
  BY DEF Round!vars
<1> USE DEF tables, history, turns
<1>1. ASSUME NEW c \in Clients, NEW l \in Lines[c], RunCommand(c, l)
      PROVE  UNCHANGED <<mini_servers, given, last>>
  BY <1>1 DEF RunCommand
<1>2. ASSUME NEW c \in Clients, ClientStep(c) \/ Kill(c)
      PROVE  UNCHANGED <<mini_servers, given, last>>
  BY <1>2 DEF ClientStep, Kill
<1>3. ASSUME NEW c \in Clients, Serve(c)
      PROVE  Round!Next \/ UNCHANGED <<mini_servers, given, last>>
  <2>1. CASE RedirectPut(c)
    BY <2>1, TurnIsUpload DEF RedirectPut, Round!Next
  <2>2. CASE OpenPut(c)
    <3>1. CASE client[c].at = Main
      <4>1. current_server_index = 0
        <5>1. Len(mini_servers) \in Nat /\ current_server_index \in 0..Len(mini_servers)
          BY DEF ClusterInv, TypeOK
        <5>2. current_server_index = 0 \/ ~(Len(mini_servers) > 0)
          BY <2>2, <3>1 DEF OpenPut, Redirects
        <5> QED  BY <5>1, <5>2
      <4> QED  BY <2>2, <3>1, <4>1, TurnIsUpload DEF OpenPut, Round!Next
    <3>2. CASE client[c].at # Main
      BY <2>2, <3>2 DEF OpenPut
    <3> QED  BY <3>1, <3>2
  <2>3. CASE ClosePut(c) \/ HandleGet(c) \/ HandleDelete(c) \/ HandleList(c)
    BY <2>3 DEF ClosePut, HandleGet, HandleDelete, HandleList
  <2> QED  BY <1>3, <2>1, <2>2, <2>3 DEF Serve
<1>4. ASSUME NEW s \in Subs, HandleAddServer(s)
      PROVE  Round!Next
  <2>1. /\ joiner[s].address \in Subs \cup {Nowhere}
        /\ mini_servers \in Seq(Subs \cup {Nowhere})
    BY DEF ClusterInv, TypeOK, JoinerType
  <2>2. mini_servers' = Append(mini_servers, joiner[s].address)
    BY <1>4 DEF HandleAddServer
  <2>3. Len(mini_servers)' = Len(mini_servers) + 1
    BY <2>1, <2>2
  <2> QED  BY <1>4, <2>3 DEF HandleAddServer, Round!Join, Round!Next
<1>5. ASSUME NEW s \in Subs, Join(s) \/ StartServer(s) \/ KillJoiner(s)
      PROVE  UNCHANGED <<mini_servers, given, last>>
  BY <1>5 DEF Join, StartServer, KillJoiner
<1>6. ASSUME NEW m \in Machines, Stop(m)
      PROVE  Round!Next \/ UNCHANGED <<mini_servers, given, last>>
  <2>1. CASE m = Main
    <3>1. mini_servers' = <<>> /\ given' = <<>> /\ last' = 0
      BY <1>6, <2>1 DEF Stop
    <3> QED  BY <3>1 DEF Round!Forget, Round!Next
  <2>2. CASE m # Main
    BY <1>6, <2>2 DEF Stop
  <2> QED  BY <2>1, <2>2
<1>7. ASSUME NEW m \in Machines, Restart(m)
      PROVE  UNCHANGED <<mini_servers, given, last>>
  BY <1>7 DEF Restart
<1>8. CASE UNCHANGED vars
  BY <1>8 DEF vars
<1> QED  BY <1>1, <1>2, <1>3, <1>4, <1>5, <1>6, <1>7, <1>8 DEF Next

(* The main server and the places of its sub-servers take turns with the   *)
(* uploads, as module Turns says, whatever interleaves with them: nobody   *)
(* is given a second one before everybody had one, and who registers joins *)
(* the round under way.                                                    *)
THEOREM UploadsTakeTurns == Spec => TakesTurns
<1>1. Spec => []ClusterInv  BY ClusterInvInit, NextInv, PTL DEF Spec
<1>2. Init => Round!Init  BY DEF Init, Round!Init
<1> QED  BY <1>1, <1>2, NextRefines, PTL DEF Spec, TakesTurns, Round!Spec
=============================================================================
