---------------------------- MODULE RoutingProofs ----------------------------
(***************************************************************************)
(* For any number of clients, machines, files and failures: an upload that *)
(* nothing disturbed lies where a GET looks, and a GET of it finds a file. *)
(***************************************************************************)
EXTENDS ClusterProofs

(* A client whose upload is asked for or under way. *)
Putting(c) ==
  /\ client[c].verb = "PUT"
  /\ \/ client[c].pc \in {"asked", "sending", "sent"}
     \/ conn[c].state \in {"request", "upload"}

(* Its request has reached the main server, which did not handle it yet. *)
Fresh(c) == conn[c].state = "request" /\ client[c].at = Main

(* It has no more to come than its end. *)
Spent(c) ==
  /\ conn[c].state = "done"
  /\ ~Reads(c, "REDIRECT")
  /\ client[c].at = Main \/ client[c].pc = "sent"

(* Its command is over, or all of it but the end of the stream. *)
Over(c) ==
  \/ client[c].pc = "sent" /\ conn[c].state = "done"
  \/ client[c].pc \in Final /\ conn[c].state = "none"

(* The order in which a command goes on. *)
InOrder(c) ==
  /\ client[c].pc = "start" => client[c] = NewClient /\ conn[c].state = "none"
  /\ client[c].verb # "V_UNKNOWN" => client[c].name \in Names
  /\ Reads(c, "REDIRECT") => conn[c].state = "done"
  /\ conn[c].state = "upload" => client[c].verb = "PUT"
  /\ conn[c].body # "part" => client[c].pc \in {"sent", "killed"}
  /\ client[c].since <= stops

Orderly == \A c \in Clients : InOrder(c)

(* Whose upload is in latest has nothing to do any more. *)
LatestOver ==
  /\ \A n \in Names : latest[n] \in Clients => Over(latest[n])
  /\ \A c \in Clients : client[c].expect \in Clients => Over(client[c].expect)

(* The route of an upload that nothing disturbed names the server that it  *)
(* is at, or is told to go to.                                             *)
Kept(c) ==
  LET n == client[c].name
  IN /\ client[c].at # Main => file_to_server[n] = client[c].at
     /\ Reads(c, "REDIRECT") => file_to_server[n] = conn[c].answer[2]

RouteKept == \A c \in Clients : Putting(c) /\ c \notin disturbed => Kept(c)

(* Of uploads of one name, one that has begun and is not disturbed has no  *)
(* rival that has begun.                                                   *)
Alone ==
  \A c, d \in Clients :
    /\ c # d
    /\ Putting(c) /\ Putting(d) /\ client[c].name = client[d].name
    /\ c \notin disturbed /\ ~Fresh(c)
    => Fresh(d)

(* While the last upload of a name is clear nobody writes that file. *)
Settled ==
  \A c \in Clients :
    Putting(c) /\ latest[client[c].name] \in Clients => Fresh(c) \/ Spent(c)

(* The GETs that GetFindsUpload is about, and what they come across. *)
Expecting(c) ==
  /\ client[c].verb = "GET"
  /\ client[c].expect \in Clients
  /\ client[c].expect = latest[client[c].name]
  /\ client[c].since = stops

Finds(c) ==
  LET n == client[c].name
  IN \/ /\ client[c].pc = "asked" /\ conn[c].state = "request"
        /\ conn[c].answer = None
        /\ client[c].at = Main \/ dir[client[c].at][n] = latest[n]
     \/ /\ client[c].pc = "asked" /\ conn[c].state = "done" /\ conn[c].answer # None
        /\ \/ conn[c].answer \in {<<"CONTENT", latest[n]>>, <<"CONTENT", dir[Main][n]>>}
           \/ \E s \in Subs : conn[c].answer = <<"REDIRECT", s>> /\ dir[s][n] = latest[n]
     \/ client[c].pc = "end" /\ client[c].got \in {latest[n], dir[Main][n]}
     \/ client[c].pc \in {"exit1", "killed"}

GetsFind == \A c \in Clients : Expecting(c) => Finds(c)

Uploads == LatestOver /\ RouteKept /\ Alone /\ Settled /\ UploadIsRouted

RoutingInv == ClusterInv /\ Orderly /\ Uploads /\ GetsFind

LEMMA RoutingInvInit == Init => RoutingInv
<1> SUFFICES ASSUME Init PROVE RoutingInv  OBVIOUS
<1> USE ClusterAssumption
<1>1. ClusterInv  BY ClusterInvInit
<1>2. \A c \in Clients : client[c] = NewClient /\ conn[c] = Idle
  BY DEF Init
<1>3. \A c \in Clients :
        /\ client[c].verb = "V_UNKNOWN" /\ client[c].pc = "start"
        /\ client[c].expect = None /\ client[c].since = 0
        /\ conn[c].state = "none" /\ conn[c].answer = None /\ conn[c].body = "part"
  BY <1>2 DEF NewClient, Idle
<1>4. Orderly  BY <1>2, <1>3 DEF Init, Orderly, InOrder, Reads
<1>5. None \notin Clients  BY DEF Contents
<1>6. Uploads
  BY <1>3, <1>5 DEF Init, Uploads, LatestOver, RouteKept, Alone, Settled,
                    UploadIsRouted, Putting
<1>7. GetsFind  BY <1>3, <1>5 DEF GetsFind, Expecting
<1> QED  BY <1>1, <1>4, <1>6, <1>7 DEF RoutingInv

-----------------------------------------------------------------------------
(***************************************************************************)
(* A client that a step does not touch, but for who has its file open.     *)
(***************************************************************************)
Same(c) ==
  /\ client'[c] = client[c]
  /\ conn'[c].state = conn[c].state
  /\ conn'[c].answer = conn[c].answer
  /\ conn'[c].body = conn[c].body

LEMMA SameFacts ==
  ASSUME NEW c \in Clients, Same(c)
  PROVE  /\ Putting(c)' <=> Putting(c)
         /\ Fresh(c)' <=> Fresh(c)
         /\ Spent(c)' <=> Spent(c)
         /\ Over(c)' <=> Over(c)
         /\ Reads(c, "REDIRECT")' <=> Reads(c, "REDIRECT")
BY DEF Same, Putting, Fresh, Spent, Over, Reads

LEMMA SameInOrder ==
  ASSUME RoutingInv, ClusterInv', NEW c \in Clients, Same(c), stops' >= stops
  PROVE  InOrder(c)'
<1>1. InOrder(c) /\ stops \in Nat /\ stops' \in Nat /\ client[c].since \in Nat
  BY ClusterAssumption DEF RoutingInv, Orderly, ClusterInv, TypeOK, ClientType
<1> QED  BY <1>1, SameFacts DEF Same, InOrder, NewClient

(***************************************************************************)
(* A step of which each client's own part is known: what it may do to the  *)
(* history and to the directories, how uploads may go on, and what may     *)
(* become of the expected GETs.                                            *)
(***************************************************************************)
UploadGoesOn(c) ==
  Putting(c)' /\ ~Fresh(c)' =>
    LET n == client[c].name
    IN /\ Putting(c)
       /\ client'[c].name = n
       /\ (Fresh(c) \/ Spent(c)) /\ latest'[n] \in Clients => Spent(c)'
       /\ Fresh(c) =>
            /\ UnderWay(n) \ {c} \subseteq disturbed'
            /\ c \in disturbed' \/ UnderWay(n) \subseteq {c}

StaysClear(n) ==
  latest'[n] \in Clients =>
    /\ latest'[n] = latest[n]
    /\ \A m \in Machines : dir'[m][n] = dir[m][n]
    /\ file_to_server'[n] = file_to_server[n] \/ dir[Main][n] = latest[n]

LatestStays == \A n \in Names : StaysClear(n)

(* What the client's own part of the invariant asks of a step. *)
Fine(c) ==
  /\ InOrder(c)'
  /\ Over(c) => Over(c)'
  /\ client'[c].expect \in Clients =>
       client'[c].expect \in {client[c].expect} \cup {latest[n] : n \in Names}
  /\ UploadGoesOn(c)
  /\ Putting(c)' /\ c \notin disturbed' => Kept(c)'
  /\ Expecting(c)' => Finds(c)'

LEMMA PuttingName ==
  ASSUME RoutingInv, NEW c \in Clients, Putting(c)
  PROVE  client[c].name \in Names /\ c \in UnderWay(client[c].name)
BY DEF RoutingInv, Orderly, InOrder, Putting, UnderWay

LEMMA UnderWayPutting ==
  ASSUME NEW n, NEW c \in UnderWay(n)
  PROVE  c \in Clients /\ Putting(c) /\ client[c].name = n
BY DEF Putting, UnderWay

LEMMA StepRouting ==
  ASSUME RoutingInv, ClusterInv',
         disturbed \subseteq disturbed',
         LatestStays,
         \A c \in Clients : Fine(c)
  PROVE  RoutingInv'
<1> USE DEF Fine, StaysClear
<1>1. Uploads  BY DEF RoutingInv
<1>2. LatestOver'  BY <1>1 DEF Uploads, LatestOver, LatestStays
<1>3. RouteKept'  BY DEF RouteKept
<1>4. Alone'
  <2> SUFFICES ASSUME NEW c \in Clients, NEW d \in Clients, c # d,
                      Putting(c)', Putting(d)',
                      client'[c].name = client'[d].name,
                      c \notin disturbed', ~Fresh(c)', ~Fresh(d)'
               PROVE  FALSE
    BY DEF Alone
  <2>1. /\ Putting(c) /\ Putting(d)
        /\ client[c].name = client[d].name
    BY DEF UploadGoesOn
  <2>2. c \in UnderWay(client[c].name) /\ d \in UnderWay(client[c].name)
    BY <2>1, PuttingName
  <2>3. ~Fresh(c)  BY <2>1, <2>2 DEF UploadGoesOn
  <2>4. ~Fresh(d)  BY <2>1, <2>2 DEF UploadGoesOn
  <2> QED  BY <1>1, <2>1, <2>3, <2>4 DEF Uploads, Alone
<1>5. Settled'
  <2> SUFFICES ASSUME NEW c \in Clients, Putting(c)',
                      latest'[client'[c].name] \in Clients, ~Fresh(c)'
               PROVE  Spent(c)'
    BY DEF Settled
  <2>1. Putting(c) /\ client'[c].name = client[c].name  BY DEF UploadGoesOn
  <2>2. client[c].name \in Names  BY <2>1, PuttingName
  <2>3. Fresh(c) \/ Spent(c)
    BY <1>1, <2>1, <2>2 DEF Uploads, Settled, LatestStays
  <2> QED  BY <2>1, <2>3 DEF UploadGoesOn
<1>6. UploadIsRouted'
  <2> SUFFICES ASSUME NEW n \in Names, latest'[n] \in Clients
               PROVE  \/ dir'[Main][n] = latest'[n]
                      \/ /\ file_to_server'[n] \in Subs
                         /\ dir'[file_to_server'[n]][n] = latest'[n]
    BY DEF UploadIsRouted
  <2> QED  BY <1>1 DEF Uploads, UploadIsRouted, LatestStays, Machines
<1>7. Orderly' /\ GetsFind'  BY DEF Orderly, GetsFind
<1> QED  BY <1>2, <1>3, <1>4, <1>5, <1>6, <1>7 DEF Uploads, RoutingInv

(* A GET that a step does not touch. *)
LEMMA SameFinds ==
  ASSUME RoutingInv, ClusterInv', NEW c \in Clients, Same(c),
         StaysClear(client[c].name), stops' >= stops,
         Expecting(c)'
  PROVE  Finds(c)'
<1>1. InOrder(c) /\ stops \in Nat /\ stops' \in Nat /\ client[c].since \in Nat
  BY ClusterAssumption DEF RoutingInv, Orderly, ClusterInv, TypeOK, ClientType
<1> DEFINE n == client[c].name
<1>2. n \in Names  BY <1>1 DEF InOrder, Expecting, Same
<1>3. stops' = stops /\ latest'[n] = latest[n] /\ \A m \in Machines : dir'[m][n] = dir[m][n]
  BY <1>1, <1>2 DEF InOrder, Expecting, Same, StaysClear
<1>4. Expecting(c)  BY <1>1, <1>2, <1>3 DEF InOrder, Expecting, Same
<1>5. Finds(c)  BY <1>4 DEF RoutingInv, GetsFind
<1>6. client[c].at \in Machines  BY DEF RoutingInv, ClusterInv, TypeOK, ClientType
<1>7. /\ client'[c] = client[c] /\ conn'[c].state = conn[c].state
      /\ conn'[c].answer = conn[c].answer
  BY DEF Same
<1>8. dir'[client[c].at][n] = dir[client[c].at][n] /\ dir'[Main][n] = dir[Main][n]
      /\ \A s \in Subs : dir'[s][n] = dir[s][n]
  BY <1>3, <1>6 DEF Machines
<1> QED  BY <1>3, <1>5, <1>7, <1>8 DEF Finds

-----------------------------------------------------------------------------
(***************************************************************************)
(* Steps of the clients: one client and its connection, and nothing else.  *)
(***************************************************************************)
OthersSame(c) == \A d \in Clients \ {c} : Same(d)

LEMMA SameFine ==
  ASSUME RoutingInv, ClusterInv', NEW c \in Clients, Same(c),
         stops' >= stops, disturbed \subseteq disturbed', LatestStays,
         Putting(c) /\ c \notin disturbed' =>
           file_to_server'[client[c].name] = file_to_server[client[c].name]
  PROVE  Fine(c)
<1>1. InOrder(c)' /\ (Over(c) => Over(c)')  BY SameInOrder, SameFacts
<1>2. UploadGoesOn(c)  BY SameFacts DEF UploadGoesOn, Same
<1>3. ASSUME Putting(c)', c \notin disturbed'
      PROVE  Kept(c)'
  <2>1. Putting(c) /\ c \notin disturbed  BY <1>3, SameFacts
  <2>2. Kept(c)  BY <2>1 DEF RoutingInv, Uploads, RouteKept
  <2> QED  BY <1>3, <2>1, <2>2, SameFacts DEF Kept, Same
<1>4. ASSUME Expecting(c)'
      PROVE  Finds(c)'
  <2>1. client[c].name \in Names  BY <1>1, <1>4 DEF InOrder, Expecting, Same
  <2> QED  BY <1>4, <2>1, SameFinds DEF LatestStays
<1> QED  BY <1>1, <1>2, <1>3, <1>4 DEF Fine, Same

LEMMA OneClient ==
  ASSUME RoutingInv, ClusterInv', NEW c \in Clients, Fine(c),
         OthersSame(c), stops' >= stops, disturbed \subseteq disturbed', LatestStays,
         \A d \in Clients \ {c} :
           Putting(d) /\ d \notin disturbed' =>
             file_to_server'[client[d].name] = file_to_server[client[d].name]
  PROVE  RoutingInv'
BY SameFine, StepRouting DEF OthersSame

LEMMA ClientMoves ==
  ASSUME RoutingInv, ClusterInv', NEW c \in Clients,
         NEW x \in ClientType, NEW y \in ConnType,
         client' = [client EXCEPT ![c] = x],
         conn' = [conn EXCEPT ![c] = y],
         UNCHANGED <<dir, file_to_server, latest, disturbed, stops>>,
         InOrder(c)',
         Over(c) => Over(c)',
         x.expect \in Clients => x.expect \in {client[c].expect} \cup {latest[n] : n \in Names},
         UploadGoesOn(c),
         Putting(c)' /\ c \notin disturbed' => Kept(c)',
         Expecting(c)' => Finds(c)'
  PROVE  RoutingInv'
<1>1. client \in [Clients -> ClientType] /\ conn \in [Clients -> ConnType]
  BY DEF RoutingInv, ClusterInv, TypeOK
<1>2. OthersSame(c)  BY <1>1 DEF OthersSame, Same
<1>3. client'[c].expect = x.expect  BY <1>1
<1>4. stops' >= stops /\ LatestStays
  BY ClusterAssumption DEF RoutingInv, ClusterInv, TypeOK, LatestStays, StaysClear
<1>5. Fine(c)  BY <1>3 DEF Fine
<1> QED  BY <1>2, <1>4, <1>5, OneClient

LEMMA RunCommandRouting ==
  ASSUME RoutingInv, ClusterInv', NEW c \in Clients, NEW l \in Lines[c],
         RunCommand(c, l)
  PROVE  RoutingInv'
<1> USE ClusterAssumption
<1> DEFINE verb == CheckArgs(l)
           asks == verb \in Methods /\ Up(Main) /\ (verb = "PUT" => l.local)
<1>1. l \in LineType /\ l.name \in Names  BY DEF LineType
<1>2. /\ client \in [Clients -> ClientType] /\ client' \in [Clients -> ClientType]
      /\ conn \in [Clients -> ConnType] /\ conn' \in [Clients -> ConnType]
      /\ stops \in Nat
  BY DEF RoutingInv, ClusterInv, TypeOK
<1>3. client[c] = NewClient /\ conn[c].state = "none" /\ client[c].pc = "start"
  BY DEF RunCommand, RoutingInv, Orderly, InOrder
<1>4. UNCHANGED <<dir, file_to_server, latest, disturbed, stops>>
  BY DEF RunCommand, stores, tables, history
<1>5. ~Over(c) /\ ~Putting(c)  BY <1>3 DEF Over, Putting, Final
<1> DEFINE x == client'[c]
           y == conn'[c]
<1>6. /\ client' = [client EXCEPT ![c] = x] /\ x \in ClientType
      /\ conn' = [conn EXCEPT ![c] = y] /\ y \in ConnType
  BY <1>2 DEF RunCommand, Become
<1>7. CASE asks
  <2>1. /\ x.pc = "asked" /\ x.verb = verb /\ x.name = l.name /\ x.at = Main
        /\ x.expect = (IF verb = "GET" THEN latest[l.name] ELSE None)
        /\ x.since = (IF verb = "GET" THEN stops ELSE 0)
        /\ y = Request
    <3>1. x = [client[c] EXCEPT
                 !.pc = "asked", !.verb = verb, !.name = l.name,
                 !.expect = IF verb = "GET" THEN latest[l.name] ELSE None,
                 !.since = IF verb = "GET" THEN stops ELSE 0]
      BY <1>2, <1>7 DEF RunCommand
    <3>2. y = Request  BY <1>2, <1>7 DEF RunCommand
    <3>3. client[c] \in ClientType /\ client[c].at = Main  BY <1>2, <1>3 DEF NewClient
    <3> HIDE DEF verb, x, y
    <3> QED  BY <3>1, <3>2, <3>3 DEF ClientType
  <2>2. y.state = "request" /\ y.answer = None /\ y.body = "part"
    BY <2>1 DEF Request, Idle
  <2>3. None \notin Clients  BY DEF Contents
  <2> HIDE DEF x, y, verb
  <2>4. InOrder(c)'
    BY <1>1, <1>2, <1>4, <2>1, <2>2 DEF InOrder, Reads, x, y
  <2>5. x.expect \in Clients => x.expect \in {latest[n] : n \in Names}
    BY <1>1, <2>1, <2>3
  <2>6. Fresh(c)'  BY <2>1, <2>2 DEF Fresh, x, y
  <2>7. UploadGoesOn(c)  BY <2>6 DEF UploadGoesOn
  <2>8. Kept(c)'  BY <2>1, <2>2 DEF Kept, Reads, x, y
  <2>9. Finds(c)'  BY <2>1, <2>2 DEF Finds, x, y
  <2> QED
    BY <1>4, <1>5, <1>6, <2>4, <2>5, <2>7, <2>8, <2>9, ClientMoves
<1>8. CASE ~asks
  <2>1. /\ x.pc = "exit1" /\ x.verb = "V_UNKNOWN" /\ x.expect = None /\ x.since = 0
        /\ y = conn[c]
    BY <1>2, <1>3, <1>8 DEF RunCommand, Become, NewClient, ClientType
  <2>2. InOrder(c)
    BY DEF RoutingInv, Orderly
  <2> HIDE DEF x, y
  <2>3. InOrder(c)'
    BY <1>2, <1>3, <1>4, <2>1, <2>2 DEF InOrder, Reads, x, y
  <2>4. ~Putting(c)' /\ ~Expecting(c)'  BY <2>1 DEF Putting, Expecting, x
  <2>5. x.expect \notin Clients  BY <2>1 DEF Contents
  <2> QED
    BY <1>4, <1>5, <1>6, <2>3, <2>4, <2>5, ClientMoves DEF UploadGoesOn
<1> QED  BY <1>7, <1>8

(* The ways a client goes on. *)
LEMMA LeaveRouting ==
  ASSUME RoutingInv, ClusterInv', NEW c \in Clients, NEW pc \in Final, Leave(c, pc),
         client[c].pc \in {"asked", "sending", "sent"},
         Expecting(c) => pc \in {"exit1", "killed"},
         UNCHANGED <<stores, tables, joiner, stops, history>>
  PROVE  RoutingInv'
<1> DEFINE x == [client[c] EXCEPT !.pc = pc]
<1>1. client \in [Clients -> ClientType] /\ client[c] \in ClientType /\ InOrder(c)
  BY DEF RoutingInv, ClusterInv, TypeOK, Orderly
<1>2. /\ x \in ClientType /\ x.pc = pc /\ x.verb = client[c].verb
      /\ x.name = client[c].name /\ x.expect = client[c].expect
      /\ x.since = client[c].since
  BY <1>1 DEF ClientType
<1>3. /\ client' = [client EXCEPT ![c] = x] /\ client'[c] = x
      /\ conn' = [conn EXCEPT ![c] = Idle] /\ conn'[c] = Idle
  BY <1>1 DEF Leave, Become, RoutingInv, ClusterInv, TypeOK
<1>4. UNCHANGED <<dir, file_to_server, latest, disturbed, stops>>
  BY DEF stores, tables, history
<1> HIDE DEF x
<1>5. Idle.state = "none" /\ Idle.answer = None /\ Idle.body = "part"  BY DEF Idle
<1>6. InOrder(c)'
  BY <1>1, <1>2, <1>3, <1>4, <1>5 DEF InOrder, Reads, Final
<1>7. Over(c)'  BY <1>2, <1>3, <1>5 DEF Over
<1>8. ~Putting(c)'  BY <1>2, <1>3, <1>5 DEF Putting, Final
<1>9. Expecting(c)' => Finds(c)'
  BY <1>2, <1>3, <1>4 DEF Expecting, Finds
<1> QED
  BY <1>2, <1>3, <1>4, <1>6, <1>7, <1>8, <1>9, IdleType, ClientMoves DEF UploadGoesOn

(* A connection to the next server: for an upload that of its route, for a *)
(* GET one that has the upload.                                            *)
LEMMA ConnectRouting ==
  ASSUME RoutingInv, ClusterInv', NEW c \in Clients, NEW address, Connect(c, address),
         client[c].pc = "asked",
         Putting(c) /\ Up(address) =>
           /\ latest[client[c].name] \notin Clients
           /\ ~Fresh(c)
           /\ c \notin disturbed => file_to_server[client[c].name] = address,
         Expecting(c) /\ Up(address) =>
           dir[address][client[c].name] = latest[client[c].name],
         UNCHANGED <<stores, tables, joiner, stops, history>>
  PROVE  RoutingInv'
<1>1. CASE Up(address)
  <2> DEFINE x == [client[c] EXCEPT !.at = address]
  <2>1. client \in [Clients -> ClientType] /\ client[c] \in ClientType /\ InOrder(c)
    BY DEF RoutingInv, ClusterInv, TypeOK, Orderly
  <2>2. /\ x \in ClientType /\ x.pc = "asked" /\ x.verb = client[c].verb
        /\ x.name = client[c].name /\ x.expect = client[c].expect
        /\ x.since = client[c].since /\ x.at = address
    BY <1>1, <2>1 DEF ClientType, Up
  <2>3. /\ client' = [client EXCEPT ![c] = x] /\ client'[c] = x
        /\ conn' = [conn EXCEPT ![c] = Request] /\ conn'[c] = Request
    BY <1>1, <2>1 DEF Connect, RoutingInv, ClusterInv, TypeOK
  <2>4. UNCHANGED <<dir, file_to_server, latest, disturbed, stops>>
    BY DEF stores, tables, history
  <2> HIDE DEF x
  <2>5. Request.state = "request" /\ Request.answer = None /\ Request.body = "part"
    BY DEF Request, Idle
  <2>6. InOrder(c)'
    BY <2>1, <2>2, <2>3, <2>4, <2>5 DEF InOrder, Reads
  <2>7. ~Over(c)  BY DEF Over, Final
  <2>8. Putting(c)' => Putting(c)  BY <2>2, <2>3 DEF Putting
  <2>9. UploadGoesOn(c)
    BY <1>1, <2>2, <2>3, <2>4, <2>8 DEF UploadGoesOn
  <2>10. Putting(c)' /\ c \notin disturbed' => Kept(c)'
    BY <1>1, <2>2, <2>3, <2>4, <2>5, <2>8 DEF Kept, Reads
  <2>11. Expecting(c)' => Finds(c)'
    BY <1>1, <2>2, <2>3, <2>4, <2>5 DEF Expecting, Finds
  <2> QED
    BY <2>2, <2>3, <2>4, <2>6, <2>7, <2>9, <2>10, <2>11, RequestType, ClientMoves
<1>2. CASE ~Up(address)
  BY <1>2, LeaveRouting DEF Connect, Final
<1> QED  BY <1>1, <1>2

(* A connection that goes on: neither verb nor server change. *)
LEMMA StayRouting ==
  ASSUME RoutingInv, ClusterInv', NEW c \in Clients,
         client[c].pc \in {"asked", "sending", "sent"},
         NEW x \in ClientType, NEW y \in ConnType,
         client' = [client EXCEPT ![c] = x],
         conn' = [conn EXCEPT ![c] = y],
         x.pc # "start", x.verb = client[c].verb, x.name = client[c].name,
         x.at = client[c].at, x.expect = client[c].expect, x.since = client[c].since,
         client[c].pc = "sent" => x.pc \in {"sent", "killed"},
         y.state = conn[c].state, y.answer \in {conn[c].answer, None},
         y.body # "part" => x.pc \in {"sent", "killed"},
         conn[c].state = "done" => x.pc # "killed",
         Expecting(c) => x.pc = "killed",
         UNCHANGED <<stores, tables, joiner, stops, history>>
  PROVE  RoutingInv'
<1>1. client \in [Clients -> ClientType] /\ conn \in [Clients -> ConnType] /\ InOrder(c)
  BY DEF RoutingInv, ClusterInv, TypeOK, Orderly
<1>2. client'[c] = x /\ conn'[c] = y  BY <1>1
<1>3. UNCHANGED <<dir, file_to_server, latest, disturbed, stops>>
  BY DEF stores, tables, history
<1>4. InOrder(c)'
  BY <1>1, <1>2, <1>3 DEF InOrder, Reads
<1>5. Over(c) => Over(c)'
  BY <1>2 DEF Over, Final
<1>6. Putting(c)' => Putting(c)
  BY <1>2 DEF Putting
<1>7. (Fresh(c)' <=> Fresh(c)) /\ (Spent(c) => Spent(c)')
  BY <1>2 DEF Fresh, Spent, Reads
<1>8. UploadGoesOn(c)
  BY <1>2, <1>6, <1>7 DEF UploadGoesOn
<1>9. Putting(c)' /\ c \notin disturbed' => Kept(c)'
  BY <1>2, <1>3, <1>6 DEF RoutingInv, Uploads, RouteKept, Kept, Reads
<1>10. Expecting(c)' => Finds(c)'
  BY <1>2, <1>3 DEF Expecting, Finds
<1> QED
  BY <1>3, <1>4, <1>5, <1>8, <1>9, <1>10, ClientMoves

LEMMA ReceiveRouting ==
  ASSUME RoutingInv, ClusterInv', NEW c \in Clients,
         client[c].pc = "asked", client[c].verb = "GET",
         Reads(c, "CONTENT"), Receive(c, conn[c].answer[2]),
         UNCHANGED <<stores, tables, joiner, stops, history>>
  PROVE  RoutingInv'
<1> DEFINE x == [client[c] EXCEPT !.pc = "end", !.got = conn[c].answer[2]]
<1>1. client \in [Clients -> ClientType] /\ conn \in [Clients -> ConnType] /\ InOrder(c)
  BY DEF RoutingInv, ClusterInv, TypeOK, Orderly
<1>2. conn[c].answer[2] \in Contents
  BY <1>1 DEF ConnType, Answers, Reads
<1>3. /\ x \in ClientType /\ x.pc = "end" /\ x.verb = "GET" /\ x.name = client[c].name
      /\ x.expect = client[c].expect /\ x.since = client[c].since
      /\ x.got = conn[c].answer[2]
  BY <1>1, <1>2 DEF ClientType, Final
<1>4. /\ client' = [client EXCEPT ![c] = x] /\ client'[c] = x
      /\ conn' = [conn EXCEPT ![c] = Idle] /\ conn'[c] = Idle
  BY <1>1 DEF Receive
<1>5. UNCHANGED <<dir, file_to_server, latest, disturbed, stops>>
  BY DEF stores, tables, history
<1> HIDE DEF x
<1>6. Idle.state = "none" /\ Idle.answer = None /\ Idle.body = "part"  BY DEF Idle
<1>7. InOrder(c)'  BY <1>1, <1>3, <1>4, <1>5, <1>6 DEF InOrder, Reads
<1>8. ~Over(c) /\ ~Putting(c)'  BY <1>3, <1>4 DEF Over, Putting, Final
<1>9. Expecting(c)' => Finds(c)'
  <2> SUFFICES ASSUME Expecting(c)' PROVE Finds(c)'  OBVIOUS
  <2>1. Expecting(c)  BY <1>3, <1>4, <1>5 DEF Expecting
  <2>2. Finds(c)  BY <2>1 DEF RoutingInv, GetsFind
  <2>3. conn[c].answer # None /\ conn[c].answer[1] = "CONTENT"  BY DEF Reads
  <2>4. x.got \in {latest[client[c].name], dir[Main][client[c].name]}
    BY <1>3, <2>2, <2>3 DEF Finds
  <2> QED  BY <1>3, <1>4, <1>5, <2>4 DEF Finds
<1> QED
  BY <1>3, <1>4, <1>5, <1>7, <1>8, <1>9, IdleType, ClientMoves DEF UploadGoesOn

LEMMA UpMachine ==
  ASSUME NEW address, Up(address)
  PROVE  address \in Machines /\ address # Nowhere
BY ClusterAssumption DEF Up

(* Where get() goes when it is told to. *)
LEMMA GetAnswerRouting ==
  ASSUME RoutingInv, ClusterInv', NEW c \in Clients, GetAnswer(c),
         UNCHANGED <<stores, tables, joiner, stops, history>>
  PROVE  RoutingInv'
<1>1. client[c].pc = "asked" /\ client[c].verb = "GET" /\ ~Putting(c)
  BY DEF GetAnswer, Asks, Putting
<1>2. Expecting(c) =>
        \/ conn[c].state = "request" /\ conn[c].answer = None
        \/ conn[c].state = "done" /\ conn[c].answer # None /\ conn[c].answer[1] = "CONTENT"
        \/ /\ conn[c].answer # None /\ conn[c].answer[1] = "REDIRECT"
           /\ conn[c].answer[2] \in Subs
           /\ dir[conn[c].answer[2]][client[c].name] = latest[client[c].name]
  BY <1>1 DEF RoutingInv, GetsFind, Finds
<1>3. CASE Reads(c, "CONTENT") /\ Receive(c, conn[c].answer[2])
  BY <1>1, <1>3, ReceiveRouting
<1>4. CASE Reads(c, "REDIRECT") /\ Connect(c, conn[c].answer[2])
  BY <1>1, <1>2, <1>4, ConnectRouting DEF Reads
<1>5. CASE Reads(c, "OK") /\ Retry(c)
  <2>1. ~Expecting(c)  BY <1>2, <1>5 DEF Reads
  <2> QED  BY <1>1, <1>5, <2>1, ConnectRouting DEF Retry
<1>6. CASE (Reads(c, "NO_SUCH_FILE") \/ AtEnd(c)) /\ Leave(c, "sigpipe")
  <2>1. ~Expecting(c)  BY <1>2, <1>6 DEF Reads, AtEnd
  <2> QED  BY <1>1, <1>6, <2>1, LeaveRouting DEF Final
<1> QED  BY <1>3, <1>4, <1>5, <1>6 DEF GetAnswer

LEMMA PutAnswerRouting ==
  ASSUME RoutingInv, ClusterInv', NEW c \in Clients, PutAnswer(c),
         UNCHANGED <<stores, tables, joiner, stops, history>>
  PROVE  RoutingInv'
<1> DEFINE n == client[c].name
<1>1. client[c].pc = "asked" /\ client[c].verb = "PUT" /\ Putting(c) /\ ~Expecting(c)
  BY DEF PutAnswer, Asks, Putting, Expecting
<1>2. latest[n] \in Clients => Fresh(c) \/ Spent(c)
  BY <1>1 DEF RoutingInv, Uploads, Settled
<1>3. c \notin disturbed => Kept(c)
  BY <1>1 DEF RoutingInv, Uploads, RouteKept
<1>4. InOrder(c)  BY DEF RoutingInv, Orderly
<1>5. CASE Reads(c, "REDIRECT") /\ Connect(c, conn[c].answer[2])
  <2>1. ~Fresh(c) /\ latest[n] \notin Clients
    BY <1>2, <1>4, <1>5 DEF InOrder, Fresh, Spent
  <2> QED  BY <1>1, <1>3, <1>5, <2>1, ConnectRouting DEF Kept
<1>6. CASE AtEnd(c) /\ Retry(c)
  <2>1. CASE client[c].at = Main
    <3>1. Connect(c, Nowhere) /\ ~Up(Nowhere)  BY <1>6, <2>1, UpMachine DEF Retry
    <3> QED  BY <1>1, <3>1, ConnectRouting
  <2>2. CASE client[c].at # Main
    <3>1. ~Fresh(c) /\ latest[n] \notin Clients
      BY <1>1, <1>2, <2>2 DEF Fresh, Spent
    <3> QED  BY <1>1, <1>3, <1>6, <2>2, <3>1, ConnectRouting DEF Kept, Retry
  <2> QED  BY <2>1, <2>2
<1>7. CASE Become(c, "sending") /\ conn' = [conn EXCEPT ![c].answer = None]
  <2> DEFINE x == [client[c] EXCEPT !.pc = "sending"]
             y == [conn[c] EXCEPT !.answer = None]
  <2>1. client[c] \in ClientType /\ conn[c] \in ConnType
    BY DEF RoutingInv, ClusterInv, TypeOK
  <2>2. /\ x \in ClientType /\ x.pc = "sending" /\ x.verb = client[c].verb
        /\ x.name = client[c].name /\ x.at = client[c].at
        /\ x.expect = client[c].expect /\ x.since = client[c].since
    BY <2>1 DEF ClientType
  <2>3. /\ y \in ConnType /\ y.state = conn[c].state /\ y.answer = None
        /\ y.body = conn[c].body
    BY <2>1 DEF ConnType
  <2>4. client' = [client EXCEPT ![c] = x] /\ conn' = [conn EXCEPT ![c] = y]
    BY <1>7 DEF Become, RoutingInv, ClusterInv, TypeOK
  <2>5. conn[c].body = "part"  BY <1>1, <1>4 DEF InOrder
  <2> HIDE DEF x, y
  <2> QED  BY <1>1, <2>2, <2>3, <2>4, <2>5, StayRouting
<1> QED  BY <1>5, <1>6, <1>7 DEF PutAnswer

LEMMA SendBodyRouting ==
  ASSUME RoutingInv, ClusterInv', NEW c \in Clients, SendBody(c),
         UNCHANGED <<stores, tables, joiner, stops, history>>
  PROVE  RoutingInv'
<1>1. client[c].pc = "sending" /\ ~Expecting(c)
  BY DEF SendBody, RoutingInv, GetsFind, Finds
<1>2. CASE AtEnd(c)
  BY <1>1, <1>2, LeaveRouting DEF SendBody, Final
<1>3. CASE ~AtEnd(c)
  <2> DEFINE x == [client[c] EXCEPT !.pc = "sent"]
             y == [conn[c] EXCEPT !.body = "all"]
  <2>1. client[c] \in ClientType /\ conn[c] \in ConnType
    BY DEF RoutingInv, ClusterInv, TypeOK
  <2>2. /\ x \in ClientType /\ x.pc = "sent" /\ x.verb = client[c].verb
        /\ x.name = client[c].name /\ x.at = client[c].at
        /\ x.expect = client[c].expect /\ x.since = client[c].since
    BY <2>1 DEF ClientType
  <2>3. y \in ConnType /\ y.state = conn[c].state /\ y.answer = conn[c].answer
    BY <2>1 DEF ConnType
  <2>4. client' = [client EXCEPT ![c] = x] /\ conn' = [conn EXCEPT ![c] = y]
    BY <1>3 DEF SendBody, Become, RoutingInv, ClusterInv, TypeOK
  <2> HIDE DEF x, y
  <2> QED  BY <1>1, <2>2, <2>3, <2>4, StayRouting
<1> QED  BY <1>2, <1>3

LEMMA ClientStepRouting ==
  ASSUME RoutingInv, ClusterInv', NEW c \in Clients, ClientStep(c)
  PROVE  RoutingInv'
<1>0. UNCHANGED <<stores, tables, joiner, stops, history>>  BY DEF ClientStep
<1>1. CASE GetAnswer(c)  BY <1>0, <1>1, GetAnswerRouting
<1>2. CASE PutAnswer(c)  BY <1>0, <1>2, PutAnswerRouting
<1>3. CASE SendBody(c)  BY <1>0, <1>3, SendBodyRouting
<1>4. CASE PutEnds(c)
  <2>1. client[c].pc = "sent" /\ ~Expecting(c)
    BY <1>4 DEF PutEnds, RoutingInv, GetsFind, Finds
  <2> QED  BY <1>0, <1>4, <2>1, LeaveRouting DEF PutEnds, Final
<1>5. CASE OtherAnswer(c)
  <2>1. client[c].pc = "asked" /\ ~Expecting(c)
    BY <1>5 DEF OtherAnswer, Asks, Expecting
  <2> QED  BY <1>0, <1>5, <2>1, LeaveRouting DEF OtherAnswer, Final
<1> QED  BY <1>1, <1>2, <1>3, <1>4, <1>5 DEF ClientStep

LEMMA KillRouting ==
  ASSUME RoutingInv, ClusterInv', NEW c \in Clients, Kill(c)
  PROVE  RoutingInv'
<1>0. UNCHANGED <<stores, tables, joiner, stops, history>>  BY DEF Kill
<1>1. CASE conn[c].state = "done"
  <2>1. Leave(c, "killed")  BY <1>1 DEF Kill, Leave, LeftBehind
  <2> QED  BY <1>0, <2>1, LeaveRouting DEF Kill, Final
<1>2. CASE conn[c].state # "done"
  <2> DEFINE x == [client[c] EXCEPT !.pc = "killed"]
             y == LeftBehind(conn[c])
  <2>1. client[c] \in ClientType /\ conn[c] \in ConnType
    BY DEF RoutingInv, ClusterInv, TypeOK
  <2>2. /\ x \in ClientType /\ x.pc = "killed" /\ x.verb = client[c].verb
        /\ x.name = client[c].name /\ x.at = client[c].at
        /\ x.expect = client[c].expect /\ x.since = client[c].since
    BY <2>1 DEF ClientType, Final
  <2>3. y \in ConnType /\ y.state = conn[c].state /\ y.answer = None
    BY <1>2, <2>1 DEF ConnType, LeftBehind
  <2>4. client' = [client EXCEPT ![c] = x] /\ conn' = [conn EXCEPT ![c] = y]
    BY DEF Kill, Become, RoutingInv, ClusterInv, TypeOK
  <2> HIDE DEF x, y
  <2> QED  BY <1>0, <1>2, <2>2, <2>3, <2>4, StayRouting DEF Kill
<1> QED  BY <1>1, <1>2

-----------------------------------------------------------------------------
(***************************************************************************)
(* Steps that leave clients, connections and files alone.                  *)
(***************************************************************************)
LEMMA MachineRouting ==
  ASSUME RoutingInv, ClusterInv', stops' >= stops,
         UNCHANGED <<dir, tables, client, conn, history>>
  PROVE  RoutingInv'
<1>1. UNCHANGED <<dir, file_to_server, latest, disturbed>>
  BY DEF tables, history
<1>2. LatestStays  BY <1>1 DEF LatestStays, StaysClear
<1>3. \A c \in Clients : Same(c)  BY DEF Same
<1>4. \A c \in Clients : Fine(c)  BY <1>1, <1>2, <1>3, SameFine
<1> QED  BY <1>1, <1>2, <1>4, StepRouting

LEMMA StartServerRouting ==
  ASSUME RoutingInv, ClusterInv', NEW s \in Subs,
         Join(s) \/ StartServer(s) \/ KillJoiner(s)
  PROVE  RoutingInv'
<1>1. stops \in Nat  BY ClusterAssumption DEF RoutingInv, ClusterInv, TypeOK
<1> QED  BY <1>1, MachineRouting DEF Join, StartServer, KillJoiner

LEMMA RestartRouting ==
  ASSUME RoutingInv, ClusterInv', NEW m \in Machines, Restart(m)
  PROVE  RoutingInv'
<1>1. stops \in Nat  BY ClusterAssumption DEF RoutingInv, ClusterInv, TypeOK
<1> QED  BY <1>1, MachineRouting DEF Restart

-----------------------------------------------------------------------------
(***************************************************************************)
(* A handler answers its client, and has nothing more to do with it.       *)
(***************************************************************************)
LEMMA ClosedFacts ==
  ASSUME RoutingInv, ClusterInv', NEW c \in Clients, NEW a,
         conn[c].state \in {"request", "upload"},
         conn'[c] = Closed(c, a), client' = client, stops' >= stops
  PROVE  /\ InOrder(c)'
         /\ ~Over(c)
         /\ \/ client[c].pc \in Final /\ conn'[c].state = "none" /\ conn'[c].answer = None
            \/ client[c].pc \notin Final /\ conn'[c].state = "done" /\ conn'[c].answer = a
         /\ Putting(c)' => client[c].pc \notin Final /\ Putting(c)
         /\ ~Fresh(c)'
<1>1. /\ conn \in [Clients -> ConnType] /\ InOrder(c)
      /\ stops \in Nat /\ stops' \in Nat /\ client[c].since \in Nat
  BY ClusterAssumption DEF RoutingInv, ClusterInv, TypeOK, Orderly, ClientType
<1>2. \/ /\ client[c].pc \in Final
         /\ conn'[c].state = "none" /\ conn'[c].answer = None /\ conn'[c].body = "part"
      \/ /\ client[c].pc \notin Final
         /\ conn'[c].state = "done" /\ conn'[c].answer = a /\ conn'[c].body = conn[c].body
  BY <1>1 DEF Closed, Idle, ConnType
<1>3. InOrder(c)'  BY <1>1, <1>2 DEF InOrder, Reads
<1>4. ~Over(c)  BY DEF Over
<1>5. (Putting(c)' => client[c].pc \notin Final /\ Putting(c)) /\ ~Fresh(c)'
  BY <1>2 DEF Putting, Fresh, Final
<1> QED  BY <1>2, <1>3, <1>4, <1>5

LEMMA AnsweredFacts ==
  ASSUME RoutingInv, NEW c \in Clients, NEW a,
         conn' = Answered(c, a), client' = client
  PROVE  conn'[c] = Closed(c, a) /\ OthersSame(c)
BY DEF RoutingInv, ClusterInv, TypeOK, Answered, OthersSame, Same

(* Only an answer, to who asked for no upload. *)
LEMMA OnlyAnswersRouting ==
  ASSUME RoutingInv, ClusterInv', NEW c \in Clients, NEW a,
         conn[c].state \in {"request", "upload"}, client[c].verb # "PUT",
         conn' = Answered(c, a),
         Expecting(c)' => Finds(c)',
         UNCHANGED <<stores, tables, client, joiner, stops, history>>
  PROVE  RoutingInv'
<1>1. /\ UNCHANGED <<dir, file_to_server, latest, disturbed>>
      /\ client' = client /\ stops' = stops
  BY DEF stores, tables, history
<1>2. LatestStays /\ stops' >= stops
  BY <1>1, ClusterAssumption DEF LatestStays, StaysClear, RoutingInv, ClusterInv, TypeOK
<1>3. OthersSame(c) /\ InOrder(c)' /\ ~Over(c)
  BY <1>1, <1>2, AnsweredFacts, ClosedFacts
<1>4. ~Putting(c)'  BY <1>1 DEF Putting
<1>5. Fine(c)  BY <1>1, <1>3, <1>4 DEF Fine, UploadGoesOn
<1> QED  BY <1>1, <1>2, <1>3, <1>5, OneClient

(* get() finds an upload that is expected, or the way to it. *)
LEMMA HandleGetRouting ==
  ASSUME RoutingInv, ClusterInv', NEW c \in Clients, HandleGet(c)
  PROVE  RoutingInv'
<1> DEFINE m == client[c].at
           n == client[c].name
           a == Lookup(m, n)
<1>1. /\ conn[c].state = "request" /\ client[c].verb = "GET"
      /\ conn' = Answered(c, a) /\ client' = client /\ stops' = stops
      /\ UNCHANGED <<stores, tables, client, joiner, stops, history>>
  BY DEF HandleGet, Asked
<1>2. UNCHANGED <<dir, latest>>  BY <1>1 DEF stores, history
<1>3. n \in Names /\ m \in Machines  BY <1>1, AskedName DEF RoutingInv
<1>4. ASSUME Expecting(c)'
      PROVE  Finds(c)'
  <2>1. Expecting(c)  BY <1>1, <1>2, <1>4 DEF Expecting
  <2>2. IF client[c].pc = "asked" THEN m = Main \/ dir[m][n] = latest[n]
        ELSE \/ client[c].pc = "end" /\ client[c].got \in {latest[n], dir[Main][n]}
             \/ client[c].pc \in {"exit1", "killed"}
    BY <1>1, <2>1 DEF RoutingInv, GetsFind, Finds
  <2>3. \/ client[c].pc \in Final
        \/ client[c].pc \notin Final /\ conn'[c].state = "done" /\ conn'[c].answer = a
    <3>1. stops' >= stops  BY <1>1, ClusterAssumption DEF RoutingInv, ClusterInv, TypeOK
    <3> QED  BY <1>1, <3>1, AnsweredFacts, ClosedFacts
  <2>4. latest[n] \in Clients  BY <2>1 DEF Expecting
  <2>5. latest[n] # None  BY <2>4, ClusterAssumption DEF Contents
  <2>6. CASE client[c].pc = "asked"
    <3>1. conn'[c].state = "done" /\ conn'[c].answer = a
      BY <2>3, <2>6 DEF Final
    <3>2. \/ a \in {<<"CONTENT", latest[n]>>, <<"CONTENT", dir[Main][n]>>}
          \/ \E s \in Subs : a = <<"REDIRECT", s>> /\ dir[s][n] = latest[n]
      <4>1. CASE dir[m][n] # None
        <5>1. a = <<"CONTENT", dir[m][n]>>  BY <4>1 DEF Lookup
        <5> QED  BY <2>2, <2>6, <5>1
      <4>2. CASE dir[m][n] = None
        <5>1. m = Main  BY <2>2, <2>5, <2>6, <4>2
        <5>2. file_to_server[n] \in Subs /\ dir[file_to_server[n]][n] = latest[n]
          BY <1>3, <2>4, <2>5, <4>2, <5>1 DEF RoutingInv, Uploads, UploadIsRouted
        <5>3. file_to_server[n] # None  BY <5>2, ClusterAssumption
        <5>4. a = <<"REDIRECT", file_to_server[n]>>
          BY <4>2, <5>1, <5>3 DEF Lookup
        <5> QED  BY <5>2, <5>4
      <4> QED  BY <4>1, <4>2
    <3>3. a # None
      <4>1. /\ dir[m][n] \in Contents \cup {None}
            /\ file_to_server[n] \in Subs \cup {Nowhere, None}
        BY <1>3 DEF RoutingInv, ClusterInv, TypeOK
      <4>2. a \in Answers  BY <4>1 DEF Lookup, Answers
      <4> HIDE DEF a
      <4> QED  BY <4>2, ClusterAssumption
    <3> HIDE DEF a
    <3> QED  BY <1>1, <1>2, <2>6, <3>1, <3>2, <3>3 DEF Finds
  <2>7. CASE client[c].pc # "asked"
    BY <1>1, <1>2, <2>2, <2>7 DEF Finds
  <2> QED  BY <2>6, <2>7
<1> HIDE DEF a
<1> QED  BY <1>1, <1>4, OnlyAnswersRouting

LEMMA HandleListRouting ==
  ASSUME RoutingInv, ClusterInv', NEW c \in Clients, HandleList(c)
  PROVE  RoutingInv'
<1>1. conn[c].state = "request" /\ client[c].verb = "LIST"  BY DEF HandleList, Asked
<1>2. client' = client  BY DEF HandleList
<1>3. ~Expecting(c)'  BY <1>1, <1>2 DEF Expecting
<1> QED  BY <1>1, <1>3, OnlyAnswersRouting DEF HandleList

(***************************************************************************)
(* delete() takes the name, whatever writes the file.                      *)
(***************************************************************************)
LEMMA HandleDeleteRouting ==
  ASSUME RoutingInv, ClusterInv', NEW c \in Clients, HandleDelete(c)
  PROVE  RoutingInv'
<1> DEFINE n == client[c].name
           open == OpenAt(Main, n)
<1>1. /\ conn[c].state = "request" /\ client[c].verb = "DELETE" /\ client' = client
      /\ stops' = stops /\ disturbed' = disturbed /\ file_to_server' = file_to_server
      /\ UNCHANGED <<machine, tables, client, joiner, stops, disturbed, turns>>
  BY DEF HandleDelete, Asked, tables
<1>2. ~Expecting(c)' /\ ~Putting(c)'  BY <1>1 DEF Expecting, Putting
<1>3. /\ n \in Names /\ conn \in [Clients -> ConnType] /\ stops' >= stops
      /\ dir \in [Machines -> [Names -> Contents \cup {None}]]
      /\ latest \in [Names -> Changes]
  BY <1>1, AskedName, ClusterAssumption DEF RoutingInv, ClusterInv, TypeOK
<1>4. CASE /\ dir' = [dir EXCEPT ![Main][n] = None]
           /\ conn' = [d \in Clients |->
                IF d = c THEN Closed(c, <<"OK", None>>)
                ELSE IF d \in open THEN [conn[d] EXCEPT !.file = "gone"]
                ELSE conn[d]]
           /\ latest' = [latest EXCEPT ![n] = "DELETED"]
  <2>1. conn'[c] = Closed(c, <<"OK", None>>)  BY <1>4
  <2>2. OthersSame(c)
    <3>1. \A d \in Clients :
            /\ [conn[d] EXCEPT !.file = "gone"].state = conn[d].state
            /\ [conn[d] EXCEPT !.file = "gone"].answer = conn[d].answer
            /\ [conn[d] EXCEPT !.file = "gone"].body = conn[d].body
      BY <1>3 DEF ConnType
    <3> HIDE DEF open
    <3> QED  BY <1>1, <1>4, <3>1 DEF OthersSame, Same
  <2>3. InOrder(c)' /\ ~Over(c)  BY <1>1, <1>3, <2>1, ClosedFacts
  <2>4. LatestStays
    <3>1. latest'[n] \notin Clients  BY <1>3, <1>4, ClusterAssumption
    <3>2. \A k \in Names \ {n} :
            latest'[k] = latest[k] /\ \A m \in Machines : dir'[m][k] = dir[m][k]
      BY <1>3, <1>4
    <3> HIDE DEF n
    <3> QED  BY <1>1, <3>1, <3>2 DEF LatestStays, StaysClear
  <2>5. Fine(c)  BY <1>1, <1>2, <2>3 DEF Fine, UploadGoesOn
  <2> QED  BY <1>1, <1>3, <2>2, <2>4, <2>5, OneClient
<1>5. CASE conn' = Answered(c, <<"ERROR", None>>) /\ UNCHANGED <<dir, latest>>
  <2>1. UNCHANGED <<stores, tables, client, joiner, stops, history>>
    BY <1>1, <1>5 DEF stores, history
  <2> QED  BY <1>1, <1>2, <1>5, <2>1, OnlyAnswersRouting
<1> QED  BY <1>4, <1>5 DEF HandleDelete

-----------------------------------------------------------------------------
(***************************************************************************)
(* A server takes an upload: the name is not clear any more, and the       *)
(* upload is disturbed if it has a rival.                                  *)
(***************************************************************************)
LEMMA InterfereFacts ==
  ASSUME RoutingInv, NEW c \in Clients, NEW n \in Names, Interfere(c, n)
  PROVE  /\ latest'[n] = None
         /\ None \notin Clients
         /\ \A k \in Names \ {n} : latest'[k] = latest[k]
         /\ disturbed \subseteq disturbed'
         /\ UnderWay(n) \ {c} \subseteq disturbed'
         /\ c \in disturbed' \/ UnderWay(n) \subseteq {c}
<1>1. None \notin Clients  BY ClusterAssumption DEF Contents
<1> QED  BY <1>1 DEF RoutingInv, ClusterInv, TypeOK, Interfere

LEMMA RedirectPutRouting ==
  ASSUME RoutingInv, ClusterInv', NEW c \in Clients, RedirectPut(c)
  PROVE  RoutingInv'
<1> DEFINE n == client[c].name
           target == Target(current_server_index)
           a == <<"REDIRECT", target>>
<1>1. /\ conn[c].state = "request" /\ client[c].verb = "PUT" /\ client[c].at = Main
      /\ client' = client /\ stops' = stops /\ dir' = dir
      /\ conn' = Answered(c, a) /\ file_to_server' = Route(n, target)
      /\ Interfere(c, n)
  BY DEF RedirectPut, Asked, Redirects, stores
<1>2. /\ n \in Names /\ stops' >= stops
      /\ file_to_server \in [Names -> Subs \cup {Nowhere, None}]
  BY <1>1, AskedName, ClusterAssumption DEF RoutingInv, ClusterInv, TypeOK
<1>3. /\ latest'[n] = None /\ None \notin Clients
      /\ \A k \in Names \ {n} : latest'[k] = latest[k]
      /\ disturbed \subseteq disturbed'
      /\ UnderWay(n) \ {c} \subseteq disturbed'
      /\ c \in disturbed' \/ UnderWay(n) \subseteq {c}
  BY <1>1, <1>2, InterfereFacts
<1>4. /\ file_to_server'[n] = target
      /\ \A k \in Names \ {n} : file_to_server'[k] = file_to_server[k]
  BY <1>1, <1>2 DEF Route
<1> HIDE DEF a, n
<1>5. LatestStays  BY <1>1, <1>3, <1>4 DEF LatestStays, StaysClear
<1>6. conn'[c] = Closed(c, a) /\ OthersSame(c)  BY <1>1, AnsweredFacts
<1>7. /\ InOrder(c)' /\ ~Over(c)
      /\ \/ client[c].pc \in Final /\ conn'[c].answer = None
         \/ conn'[c].answer = a
      /\ Putting(c)' => Putting(c)
  BY <1>1, <1>2, <1>6, ClosedFacts
<1>8. Putting(c)' /\ c \notin disturbed' => Kept(c)'
  BY <1>1, <1>4, <1>7 DEF Kept, Reads, a, n
<1>9. UploadGoesOn(c)
  BY <1>1, <1>3, <1>7 DEF UploadGoesOn, n
<1>10. ~Expecting(c)'  BY <1>1 DEF Expecting
<1>11. Fine(c)  BY <1>1, <1>7, <1>8, <1>9, <1>10 DEF Fine
<1>12. ASSUME NEW d \in Clients \ {c}, Putting(d), d \notin disturbed'
       PROVE  file_to_server'[client[d].name] = file_to_server[client[d].name]
  <2>1. client[d].name \in Names /\ d \in UnderWay(client[d].name)
    BY <1>12, PuttingName
  <2>2. client[d].name # n  BY <1>3, <1>12, <2>1
  <2> QED  BY <1>4, <2>1, <2>2
<1> QED  BY <1>2, <1>3, <1>5, <1>6, <1>11, <1>12, OneClient

LEMMA OpenPutRouting ==
  ASSUME RoutingInv, ClusterInv', NEW c \in Clients, OpenPut(c)
  PROVE  RoutingInv'
<1> DEFINE m == client[c].at
           n == client[c].name
           y == [conn[c] EXCEPT
                   !.state = "upload",
                   !.answer = IF client[c].pc = "asked" THEN <<"HERE", None>> ELSE None,
                   !.file = IF OpenAt(m, n) = {} THEN "sole" ELSE "shared"]
<1>1. /\ conn[c].state = "request" /\ client[c].verb = "PUT"
      /\ client' = client /\ stops' = stops /\ file_to_server' = file_to_server
      /\ dir' = [dir EXCEPT ![m][n] = Torn] /\ Interfere(c, n)
      /\ conn' = [d \in Clients |->
           IF d = c THEN y
           ELSE IF d \in OpenAt(m, n) THEN [conn[d] EXCEPT !.file = "shared"]
           ELSE conn[d]]
  BY DEF OpenPut, Asked
<1>2. /\ n \in Names /\ m \in Machines /\ stops' >= stops
      /\ conn \in [Clients -> ConnType] /\ InOrder(c)
      /\ dir \in [Machines -> [Names -> Contents \cup {None}]]
      /\ stops \in Nat
  <2>1. ClusterInv /\ InOrder(c)  BY DEF RoutingInv, Orderly
  <2>2. n \in Names /\ m \in Machines  BY <1>1, <2>1, AskedName
  <2> HIDE DEF m, n, y
  <2> QED  BY <1>1, <2>1, <2>2, ClusterAssumption DEF ClusterInv, TypeOK
<1>3. /\ latest'[n] = None /\ None \notin Clients
      /\ \A k \in Names \ {n} : latest'[k] = latest[k]
      /\ disturbed \subseteq disturbed'
      /\ UnderWay(n) \ {c} \subseteq disturbed'
      /\ c \in disturbed' \/ UnderWay(n) \subseteq {c}
  BY <1>1, <1>2, InterfereFacts
<1>4. OthersSame(c)
  <2>1. \A d \in Clients :
          /\ [conn[d] EXCEPT !.file = "shared"].state = conn[d].state
          /\ [conn[d] EXCEPT !.file = "shared"].answer = conn[d].answer
          /\ [conn[d] EXCEPT !.file = "shared"].body = conn[d].body
    BY <1>2 DEF ConnType
  <2> HIDE DEF y, m, n
  <2> QED  BY <1>1, <2>1 DEF OthersSame, Same
<1>5. /\ conn'[c].state = "upload" /\ conn'[c].body = conn[c].body
      /\ ~Reads(c, "REDIRECT")'
  <2>1. conn'[c] = y  BY <1>1
  <2>2. y.state = "upload" /\ y.body = conn[c].body
        /\ y.answer \in {None, <<"HERE", None>>}
    BY <1>2 DEF ConnType
  <2> QED  BY <2>1, <2>2 DEF Reads
<1>6. InOrder(c)' /\ ~Over(c)
  BY <1>1, <1>2, <1>5 DEF InOrder, Over, Reads
<1>7. LatestStays
  <2>1. \A k \in Names \ {n}, p \in Machines : dir'[p][k] = dir[p][k]
    BY <1>1, <1>2
  <2> HIDE DEF m, n
  <2> QED  BY <1>1, <1>3, <2>1 DEF LatestStays, StaysClear
<1>8. Putting(c)  BY <1>1 DEF Putting
<1>9. Putting(c)' /\ c \notin disturbed' => Kept(c)'
  BY <1>1, <1>3, <1>5, <1>8 DEF Kept, RoutingInv, Uploads, RouteKept
<1>10. UploadGoesOn(c)
  BY <1>1, <1>3, <1>8 DEF UploadGoesOn
<1>11. ~Expecting(c)'  BY <1>1 DEF Expecting
<1>12. Fine(c)  BY <1>1, <1>6, <1>9, <1>10, <1>11 DEF Fine
<1> QED  BY <1>1, <1>2, <1>3, <1>4, <1>7, <1>12, OneClient

(***************************************************************************)
(* The end of an upload.  An upload that is complete and undisturbed is    *)
(* what latest says now; who else puts this name has not begun.            *)
(***************************************************************************)
LEMMA ClosePutFacts ==
  ASSUME RoutingInv, ClusterInv', NEW c \in Clients, ClosePut(c)
  PROVE  /\ client[c].name \in Names /\ client[c].at \in Machines
         /\ client' = client /\ stops' = stops /\ stops' >= stops
         /\ disturbed' = disturbed /\ file_to_server' = file_to_server
         /\ dir \in [Machines -> [Names -> Contents \cup {None}]]
         /\ latest \in [Names -> Changes]
         /\ OthersSame(c) /\ InOrder(c)'
         /\ Putting(c) /\ ~Fresh(c) /\ ~Spent(c) /\ ~Over(c)
         /\ Over(c)'
         /\ ~Reads(c, "REDIRECT")'
         /\ Putting(c)' => Spent(c)'
         /\ ~Expecting(c)'
         /\ latest[client[c].name] \notin Clients
         /\ c \notin disturbed => Kept(c)
<1>0. PICK a : (a = None \/ a = <<"ERROR", None>>) /\ conn' = Answered(c, a)
  BY DEF ClosePut
<1>1. /\ conn[c].state = "upload" /\ conn[c].body # "part"
      /\ UNCHANGED <<machine, tables, client, joiner, stops, disturbed, turns>>
  BY DEF ClosePut
<1>2. ClusterInv /\ InOrder(c)  BY DEF RoutingInv, Orderly
<1>3. client[c].name \in Names /\ client[c].at \in Machines  BY <1>1, <1>2, AskedName
<1>4. /\ dir \in [Machines -> [Names -> Contents \cup {None}]]
      /\ latest \in [Names -> Changes] /\ stops \in Nat
  BY <1>2, ClusterAssumption DEF ClusterInv, TypeOK
<1>5. /\ client' = client /\ stops' = stops /\ stops' >= stops
      /\ disturbed' = disturbed /\ file_to_server' = file_to_server
  BY <1>1, <1>4 DEF tables
<1>6. client[c].verb = "PUT" /\ client[c].pc \in {"sent", "killed"}
  BY <1>1, <1>2 DEF InOrder
<1>7. Putting(c) /\ ~Fresh(c) /\ ~Spent(c)
  BY <1>1, <1>6 DEF Putting, Fresh, Spent
<1>8. conn'[c] = Closed(c, a) /\ OthersSame(c)  BY <1>0, <1>5, AnsweredFacts
<1>9. /\ InOrder(c)' /\ ~Over(c)
      /\ \/ client[c].pc \in Final /\ conn'[c].state = "none" /\ conn'[c].answer = None
         \/ client[c].pc \notin Final /\ conn'[c].state = "done" /\ conn'[c].answer = a
      /\ Putting(c)' => client[c].pc \notin Final
  BY <1>1, <1>5, <1>8, ClosedFacts
<1>10. Over(c)' /\ ~Reads(c, "REDIRECT")' /\ ~Expecting(c)'
  BY <1>0, <1>5, <1>6, <1>9 DEF Over, Reads, Expecting, Final
<1>11. Putting(c)' => Spent(c)'
  BY <1>5, <1>6, <1>9, <1>10 DEF Spent, Final
<1>12. latest[client[c].name] \notin Clients  BY <1>7 DEF RoutingInv, Uploads, Settled
<1>13. c \notin disturbed => Kept(c)  BY <1>7 DEF RoutingInv, Uploads, RouteKept
<1> QED  BY <1>3, <1>4, <1>5, <1>7, <1>8, <1>9, <1>10, <1>11, <1>12, <1>13

LEMMA UploadDone ==
  ASSUME RoutingInv, ClusterInv', NEW c \in Clients, ClosePut(c),
         dir' = [dir EXCEPT ![client[c].at][client[c].name] = c],
         latest' = [latest EXCEPT ![client[c].name] = c],
         c \notin disturbed
  PROVE  RoutingInv'
<1> DEFINE m == client[c].at
           n == client[c].name
<1>1. /\ n \in Names /\ m \in Machines
      /\ client' = client /\ stops' = stops /\ stops' >= stops
      /\ disturbed' = disturbed /\ file_to_server' = file_to_server
      /\ dir \in [Machines -> [Names -> Contents \cup {None}]]
      /\ latest \in [Names -> Changes]
      /\ OthersSame(c) /\ InOrder(c)'
      /\ Putting(c) /\ ~Fresh(c) /\ ~Spent(c) /\ ~Over(c)
      /\ Over(c)'
      /\ ~Reads(c, "REDIRECT")'
      /\ Putting(c)' => Spent(c)'
      /\ ~Expecting(c)'
      /\ Kept(c)
  BY ClosePutFacts
<1>2. dir' = [dir EXCEPT ![m][n] = c] /\ latest' = [latest EXCEPT ![n] = c]
  OBVIOUS
<1>3. dir'[m][n] = c /\ latest'[n] = c
  BY <1>1, <1>2
<1>4. \A k \in Names \ {n} :
        /\ latest'[k] = latest[k]
        /\ \A p \in Machines : dir'[p][k] = dir[p][k]
  BY <1>1, <1>2
<1>5. LatestOver /\ RouteKept /\ Alone /\ Settled /\ UploadIsRouted
  BY DEF RoutingInv, Uploads
<1>6. \A d \in Clients \ {c} : Same(d)  BY <1>1 DEF OthersSame
<1>7. Orderly'
  BY <1>1, <1>6, SameInOrder DEF Orderly
<1>8. \A d \in Clients : Over(d) => Over(d)' /\ d # c
  BY <1>1, <1>6, SameFacts
<1>9. LatestOver'
  <2>1. \A k \in Names, d \in Clients : latest'[k] = d => Over(d)'
    BY <1>1, <1>3, <1>4, <1>5, <1>8 DEF LatestOver
  <2>2. \A b, d \in Clients : client'[b].expect = d => Over(d)'
    BY <1>1, <1>5, <1>8 DEF LatestOver
  <2> QED  BY <2>1, <2>2 DEF LatestOver
<1>10. RouteKept'
  <2> SUFFICES ASSUME NEW d \in Clients, Putting(d)', d \notin disturbed'
               PROVE  Kept(d)'
    BY DEF RouteKept
  <2>1. CASE d = c  BY <1>1, <2>1 DEF Kept
  <2>2. CASE d # c
    <3>1. Kept(d)  BY <1>1, <1>5, <1>6, <2>2, SameFacts DEF RouteKept
    <3> QED  BY <1>1, <1>6, <2>2, <3>1, SameFacts DEF Kept, Same
  <2> QED  BY <2>1, <2>2
<1>11. ASSUME NEW d \in Clients \ {c}, Putting(d), client[d].name = n
       PROVE  Fresh(d) /\ Fresh(d)'
  <2>1. Fresh(d)  BY <1>1, <1>5, <1>11 DEF Alone
  <2> QED  BY <1>6, <2>1, SameFacts
<1>12. Alone'
  <2> SUFFICES ASSUME NEW d \in Clients, NEW e \in Clients, d # e,
                      Putting(d)', Putting(e)',
                      client[d].name = client[e].name,
                      d \notin disturbed, ~Fresh(d)'
               PROVE  Fresh(e)'
    BY <1>1 DEF Alone
  <2>1. CASE d = c
    BY <1>6, <1>11, <2>1, SameFacts
  <2>2. CASE d # c /\ e = c
    <3>1. Fresh(d)'  BY <1>6, <1>11, <2>2, SameFacts
    <3> QED  BY <3>1
  <2>3. CASE d # c /\ e # c
    <3>1. Putting(d) /\ Putting(e) /\ ~Fresh(d)  BY <1>6, <2>3, SameFacts
    <3>2. Fresh(e)  BY <1>5, <3>1 DEF Alone
    <3> QED  BY <1>6, <2>3, <3>2, SameFacts
  <2> QED  BY <2>1, <2>2, <2>3
<1>13. Settled'
  <2> SUFFICES ASSUME NEW d \in Clients, Putting(d)',
                      latest'[client[d].name] \in Clients
               PROVE  Fresh(d)' \/ Spent(d)'
    BY <1>1 DEF Settled
  <2>1. CASE d = c  BY <1>1, <2>1
  <2>2. CASE d # c /\ client[d].name = n
    BY <1>6, <1>11, <2>2, SameFacts
  <2>3. CASE d # c /\ client[d].name # n
    <3>1. Putting(d)  BY <1>6, <2>3, SameFacts
    <3>2. client[d].name \in Names  BY <3>1, PuttingName
    <3>3. Fresh(d) \/ Spent(d)  BY <1>4, <1>5, <2>3, <3>1, <3>2 DEF Settled
    <3> QED  BY <1>6, <2>3, <3>3, SameFacts
  <2> QED  BY <2>1, <2>2, <2>3
<1>14. UploadIsRouted'
  <2> SUFFICES ASSUME NEW k \in Names, latest'[k] \in Clients
               PROVE  \/ dir'[Main][k] = latest'[k]
                      \/ /\ file_to_server[k] \in Subs
                         /\ dir'[file_to_server[k]][k] = latest'[k]
    BY <1>1 DEF UploadIsRouted
  <2>1. CASE k = n
    BY <1>1, <1>3, <2>1 DEF Kept, Machines
  <2>2. CASE k # n
    BY <1>4, <1>5, <2>2 DEF UploadIsRouted, Machines
  <2> QED  BY <2>1, <2>2
<1>15. GetsFind'
  <2> SUFFICES ASSUME NEW d \in Clients, Expecting(d)'
               PROVE  Finds(d)'
    BY DEF GetsFind
  <2>1. d # c  BY <1>1
  <2>2. client[d].verb = "GET" /\ client[d].expect \in Clients
        /\ client[d].expect = latest'[client[d].name]
    BY <1>1 DEF Expecting
  <2>3. client[d].name \in Names  BY <2>2 DEF RoutingInv, Orderly, InOrder
  <2>4. client[d].expect # c  BY <1>5, <1>8, <2>2 DEF LatestOver
  <2>5. client[d].name # n  BY <1>3, <2>2, <2>4
  <2>6. StaysClear(client[d].name)  BY <1>1, <1>4, <2>3, <2>5 DEF StaysClear
  <2> QED  BY <1>1, <1>6, <2>1, <2>6, SameFinds
<1> QED  BY <1>7, <1>9, <1>10, <1>12, <1>13, <1>14, <1>15 DEF RoutingInv, Uploads

(* It is refused, or it is not clear what the file is. *)
LEMMA ClosePutUnclear ==
  ASSUME RoutingInv, ClusterInv', NEW c \in Clients, ClosePut(c),
         latest' = latest,
         \A k \in Names \ {client[c].name}, p \in Machines : dir'[p][k] = dir[p][k]
  PROVE  RoutingInv'
<1> DEFINE n == client[c].name
<1>1. /\ n \in Names
      /\ client' = client /\ stops' >= stops
      /\ disturbed' = disturbed /\ file_to_server' = file_to_server
      /\ OthersSame(c) /\ InOrder(c)'
      /\ Putting(c) /\ ~Fresh(c) /\ ~Over(c)
      /\ ~Reads(c, "REDIRECT")'
      /\ ~Expecting(c)'
      /\ latest[n] \notin Clients
      /\ c \notin disturbed => Kept(c)
  BY ClosePutFacts
<1>2. LatestStays  BY <1>1 DEF LatestStays, StaysClear
<1>3. UploadGoesOn(c)  BY <1>1 DEF UploadGoesOn
<1>4. Putting(c)' /\ c \notin disturbed' => Kept(c)'
  BY <1>1 DEF Kept
<1>5. Fine(c)  BY <1>1, <1>3, <1>4 DEF Fine
<1> QED  BY <1>1, <1>2, <1>5, OneClient

LEMMA ClosePutRouting ==
  ASSUME RoutingInv, ClusterInv', NEW c \in Clients, ClosePut(c)
  PROVE  RoutingInv'
<1> DEFINE m == client[c].at
           n == client[c].name
           own == conn[c].file \in OwnFile
<1>1. /\ n \in Names /\ m \in Machines
      /\ dir \in [Machines -> [Names -> Contents \cup {None}]]
      /\ latest \in [Names -> Changes]
  BY ClosePutFacts
<1>2. CASE UNCHANGED <<dir, latest>>
  BY <1>2, ClosePutUnclear
<1>3. CASE /\ dir' = [dir EXCEPT ![m][n] = IF own THEN c ELSE @]
           /\ latest' = [latest EXCEPT ![n] =
                IF own /\ c \notin disturbed THEN c ELSE @]
  <2>1. CASE own /\ c \notin disturbed
    <3>1. dir' = [dir EXCEPT ![m][n] = c] /\ latest' = [latest EXCEPT ![n] = c]
      BY <1>3, <2>1
    <3> QED  BY <2>1, <3>1, UploadDone
  <2>2. CASE ~(own /\ c \notin disturbed)
    <3>1. latest' = latest  BY <1>1, <1>3, <2>2
    <3>2. \A k \in Names \ {n}, p \in Machines : dir'[p][k] = dir[p][k]
      BY <1>1, <1>3
    <3> QED  BY <3>1, <3>2, ClosePutUnclear
  <2> QED  BY <2>1, <2>2
<1> QED  BY <1>2, <1>3 DEF ClosePut

-----------------------------------------------------------------------------
(***************************************************************************)
(* A registration overwrites routes: the names that move are not clear any *)
(* more, and their uploads are disturbed.                                  *)
(***************************************************************************)
LEMMA HandleAddServerRouting ==
  ASSUME RoutingInv, ClusterInv', NEW s \in Subs, HandleAddServer(s)
  PROVE  RoutingInv'
<1> DEFINE address == joiner[s].address
<1>1. PICK stored \in SUBSET joiner[s].names :
        LET moved == {n \in stored : file_to_server[n] # address}
        IN /\ file_to_server' =
                [n \in Names |-> IF n \in stored THEN address ELSE file_to_server[n]]
           /\ latest' = [n \in Names |-> IF n \in moved THEN None ELSE latest[n]]
           /\ disturbed' = disturbed \cup UNION {UnderWay(n) : n \in moved}
  BY Zenon DEF HandleAddServer
<1> DEFINE moved == {n \in stored : file_to_server[n] # address}
<1>2. /\ client' = client /\ conn' = conn /\ dir' = dir /\ stops' = stops
      /\ stops' >= stops /\ None \notin Clients /\ moved \subseteq Names
  BY ClusterAssumption
     DEF HandleAddServer, stores, Contents, RoutingInv, ClusterInv, TypeOK, JoinerType
<1>3. \A c \in Clients : Same(c)  BY <1>2 DEF Same
<1>4. \A n \in Names \ moved :
        latest'[n] = latest[n] /\ file_to_server'[n] = file_to_server[n]
  BY <1>1
<1>5. \A n \in moved : latest'[n] = None  BY <1>1, <1>2
<1>6. disturbed' = disturbed \cup UNION {UnderWay(n) : n \in moved}  BY <1>1
<1> HIDE DEF moved
<1>7. LatestStays  BY <1>2, <1>4, <1>5 DEF LatestStays, StaysClear
<1>8. ASSUME NEW c \in Clients, Putting(c), c \notin disturbed'
      PROVE  file_to_server'[client[c].name] = file_to_server[client[c].name]
  <2>1. client[c].name \in Names /\ c \in UnderWay(client[c].name)
    BY <1>8, PuttingName
  <2> QED  BY <1>4, <1>6, <1>8, <2>1
<1>9. disturbed \subseteq disturbed'  BY <1>6
<1>10. \A c \in Clients : Fine(c)
  BY <1>2, <1>3, <1>7, <1>8, <1>9, SameFine
<1> QED  BY <1>7, <1>9, <1>10, StepRouting

-----------------------------------------------------------------------------
(***************************************************************************)
(* The end of a server.  What it had under way is cut off, but nobody is   *)
(* redirected by what it did not write.                                    *)
(***************************************************************************)
Redirection(a) == a # None /\ a[1] = "REDIRECT"

CutOff(d, m) ==
  /\ client[d].at = m
  /\ conn[d].state \in {"request", "upload"}
  /\ \E a : ~Redirection(a) /\ conn'[d] = Closed(d, a)

LEMMA StopCuts ==
  ASSUME RoutingInv, NEW m \in Machines, Stop(m)
  PROVE  \A d \in Clients : Same(d) \/ CutOff(d, m)
<1> DEFINE serving == {d \in Clients : client[d].at = m /\ conn[d].state \in {"request", "upload"}}
           asking  == {d \in serving : conn[d].state = "request"}
<1>1. PICK busy \in SUBSET asking :
        conn' \in {[d \in Clients |->
              IF d \in busy THEN Closed(d, a)
              ELSE IF d \in serving THEN Closed(d, conn[d].answer)
              ELSE conn[d]] :
              a \in IF busy = {} THEN {None} ELSE UNION {CutAnswers(d) : d \in busy}}
  BY Zenon DEF Stop
<1>2. PICK a \in IF busy = {} THEN {None} ELSE UNION {CutAnswers(d) : d \in busy} :
        conn' = [d \in Clients |->
              IF d \in busy THEN Closed(d, a)
              ELSE IF d \in serving THEN Closed(d, conn[d].answer)
              ELSE conn[d]]
  BY <1>1
<1>3. \A d \in Clients : \A b \in CutAnswers(d) : ~Redirection(b)
  BY DEF CutAnswers, Redirection
<1>4. ~Redirection(a)
  BY <1>2, <1>3 DEF Redirection
<1>5. client' = client  BY DEF Stop
<1> SUFFICES ASSUME NEW d \in Clients PROVE Same(d) \/ CutOff(d, m)
  OBVIOUS
<1>6. CASE d \in busy
  <2>1. conn'[d] = Closed(d, a)  BY <1>2, <1>6
  <2> QED  BY <1>4, <1>6, <2>1 DEF CutOff
<1>7. CASE d \notin busy /\ d \in serving
  <2>1. conn'[d] = Closed(d, conn[d].answer)  BY <1>2, <1>7
  <2>2. InOrder(d)  BY DEF RoutingInv, Orderly
  <2>3. ~Redirection(conn[d].answer)
    BY <1>7, <2>2 DEF InOrder, Reads, Redirection
  <2> QED  BY <1>7, <2>1, <2>3 DEF CutOff
<1>8. CASE d \notin busy /\ d \notin serving
  <2>1. conn'[d] = conn[d]
    <3> HIDE DEF serving
    <3> QED  BY <1>2, <1>8
  <2> QED  BY <1>5, <2>1 DEF Same
<1> QED  BY <1>6, <1>7, <1>8

LEMMA StopRouting ==
  ASSUME RoutingInv, ClusterInv', NEW m \in Machines, Stop(m)
  PROVE  RoutingInv'
<1>1. /\ client' = client /\ dir' = dir /\ stops' = stops + 1
      /\ stops \in Nat /\ stops' >= stops /\ None \notin Clients
  BY ClusterAssumption DEF Stop, Contents, RoutingInv, ClusterInv, TypeOK
<1>2. \A n \in Names :
        latest'[n] \in Clients =>
          /\ latest'[n] = latest[n]
          /\ file_to_server'[n] = file_to_server[n] \/ dir[Main][n] = latest[n]
  <2>1. CASE m = Main
    <3>1. latest' = [n \in Names |->
              IF latest[n] \in Clients /\ dir[Main][n] # latest[n] THEN None
              ELSE latest[n]]
      BY <2>1 DEF Stop
    <3> QED  BY <1>1, <3>1
  <2>2. CASE m # Main  BY <2>2 DEF Stop, tables, history
  <2> QED  BY <2>1, <2>2
<1>3. LatestStays  BY <1>1, <1>2 DEF LatestStays, StaysClear
<1>4. disturbed \subseteq disturbed'
  BY DEF Stop, history
<1>5. m = Main => \A n \in Names : UnderWay(n) \subseteq disturbed'
  BY DEF Stop
<1>6. m # Main => file_to_server' = file_to_server  BY DEF Stop, tables
<1>7. ASSUME NEW c \in Clients, Putting(c), c \notin disturbed'
      PROVE  m # Main /\ file_to_server' = file_to_server
  <2>1. client[c].name \in Names /\ c \in UnderWay(client[c].name)
    BY <1>7, PuttingName
  <2> QED  BY <1>5, <1>6, <1>7, <2>1
<1>8. ASSUME NEW c \in Clients
      PROVE  Fine(c)
  <2>1. CASE Same(c)  BY <1>1, <1>3, <1>4, <1>7, <2>1, SameFine
  <2>2. CASE CutOff(c, m)
    <3>1. PICK a : ~Redirection(a) /\ conn'[c] = Closed(c, a)
      BY <2>2 DEF CutOff
    <3>2. client[c].at = m /\ conn[c].state \in {"request", "upload"}
      BY <2>2 DEF CutOff
    <3>3. /\ InOrder(c)' /\ ~Over(c)
          /\ \/ client[c].pc \in Final /\ conn'[c].state = "none" /\ conn'[c].answer = None
             \/ client[c].pc \notin Final /\ conn'[c].state = "done" /\ conn'[c].answer = a
          /\ Putting(c)' => client[c].pc \notin Final /\ Putting(c)
      BY <1>1, <3>1, <3>2, ClosedFacts
    <3>4. ~Reads(c, "REDIRECT")'  BY <3>1, <3>3 DEF Reads, Redirection
    <3>5. UploadGoesOn(c)
      <4> SUFFICES ASSUME Putting(c)'
                   PROVE  /\ Putting(c)
                          /\ Fresh(c) => Spent(c)'
                          /\ ~Spent(c)
                          /\ Fresh(c) =>
                               /\ UnderWay(client[c].name) \subseteq disturbed'
                               /\ c \in disturbed'
        BY <1>1 DEF UploadGoesOn
      <4>1. Putting(c)  BY <3>3
      <4>2. client[c].name \in Names /\ c \in UnderWay(client[c].name)
        BY <4>1, PuttingName
      <4>3. ~Spent(c)  BY <3>2 DEF Spent
      <4>4. Fresh(c) => Spent(c)'
        BY <1>1, <3>2, <3>3, <3>4 DEF Fresh, Spent
      <4> QED  BY <1>5, <3>2, <4>1, <4>2, <4>3, <4>4 DEF Fresh
    <3>6. Putting(c)' /\ c \notin disturbed' => Kept(c)'
      <4> SUFFICES ASSUME Putting(c)', c \notin disturbed' PROVE Kept(c)'
        OBVIOUS
      <4>1. Putting(c) /\ c \notin disturbed  BY <1>4, <3>3
      <4>2. Kept(c) /\ file_to_server' = file_to_server
        BY <1>7, <4>1 DEF RoutingInv, Uploads, RouteKept
      <4> QED  BY <1>1, <3>4, <4>2 DEF Kept
    <3>7. ~Expecting(c)'
      <4>1. InOrder(c) /\ client[c] \in ClientType
        BY DEF RoutingInv, ClusterInv, TypeOK, Orderly
      <4>2. client[c].since \in Nat /\ client[c].since <= stops
        BY <4>1, ClusterAssumption DEF InOrder, ClientType
      <4> QED  BY <1>1, <4>2 DEF Expecting
    <3> QED  BY <1>1, <3>3, <3>5, <3>6, <3>7 DEF Fine
  <2> QED  BY <2>1, <2>2, StopCuts
<1> QED  BY <1>3, <1>4, <1>8, StepRouting

-----------------------------------------------------------------------------
LEMMA RoutingNext == RoutingInv /\ [Next]_vars => RoutingInv'
<1> SUFFICES ASSUME RoutingInv, [Next]_vars PROVE RoutingInv'  OBVIOUS
<1>0. ClusterInv'  BY NextInv DEF RoutingInv
<1>1. ASSUME NEW c \in Clients, NEW l \in Lines[c], RunCommand(c, l)
      PROVE  RoutingInv'
  BY <1>0, <1>1, RunCommandRouting
<1>2. ASSUME NEW c \in Clients, ClientStep(c) \/ Kill(c)
      PROVE  RoutingInv'
  BY <1>0, <1>2, ClientStepRouting, KillRouting
<1>3. ASSUME NEW c \in Clients, Serve(c)
      PROVE  RoutingInv'
  BY <1>0, <1>3, RedirectPutRouting, OpenPutRouting, ClosePutRouting,
     HandleGetRouting, HandleDeleteRouting, HandleListRouting DEF Serve
<1>4. ASSUME NEW s \in Subs,
             Join(s) \/ HandleAddServer(s) \/ StartServer(s) \/ KillJoiner(s)
      PROVE  RoutingInv'
  BY <1>0, <1>4, HandleAddServerRouting, StartServerRouting
<1>5. ASSUME NEW m \in Machines, Stop(m) \/ Restart(m)
      PROVE  RoutingInv'
  BY <1>0, <1>5, StopRouting, RestartRouting
<1>6. CASE UNCHANGED vars
  <2>1. UNCHANGED <<dir, tables, client, conn, history>> /\ stops' = stops
    BY <1>6 DEF vars, tables, history, turns
  <2>2. stops' >= stops  BY <2>1, ClusterAssumption DEF RoutingInv, ClusterInv, TypeOK
  <2> QED  BY <1>0, <2>1, <2>2, MachineRouting
<1> QED  BY <1>1, <1>2, <1>3, <1>4, <1>5, <1>6 DEF Next

LEMMA RoutingAlways == Spec => []RoutingInv
BY RoutingInvInit, RoutingNext, PTL DEF Spec

(* An upload that put() completed, that nothing disturbed and nothing came *)
(* after, is whole where get() of the main server looks: in the main       *)
(* server's own directory, or at the sub-server its table names, whatever  *)
(* other uploads, deletions, registrations and failures there are.         *)
THEOREM UploadsRouted == Spec => []UploadIsRouted
<1>1. RoutingInv => UploadIsRouted  BY DEF RoutingInv, Uploads
<1> QED  BY <1>1, RoutingAlways, PTL

(* A GET that begins when such an upload is the last change of its name,   *)
(* and sees neither another change nor the end of a server, never finds    *)
(* the file missing: get() of the client follows the redirections to the   *)
(* upload, or takes the older copy that the main server has itself.        *)
THEOREM GetsFindUploads == Spec => []GetFindsUpload
<1>1. ASSUME RoutingInv PROVE GetFindsUpload
  <2>1. \A c \in Clients : Expecting(c) => Finds(c)  BY <1>1 DEF RoutingInv, GetsFind
  <2> QED  BY <2>1 DEF GetFindsUpload, Expecting, Finds
<1> QED  BY <1>1, RoutingAlways, PTL
=============================================================================
