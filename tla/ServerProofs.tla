---------------------------- MODULE ServerProofs ----------------------------
(***************************************************************************)
(* Theorems about one server process, for every number of connections,     *)
(* names and sub-servers, every set of requests and every width of the     *)
(* size field, read size and descriptor limit.                             *)
(***************************************************************************)
EXTENDS Server, TLAPS, FiniteSetTheorems, SequenceTheorems

-----------------------------------------------------------------------------
(* Lemmas about the helpers.                                               *)

LEMMA ShortSequences ==
  ASSUME NEW S
  PROVE  /\ <<>> \in Seq(S)
         /\ \A x \in S : <<x>> \in Seq(S)
         /\ \A x, y \in S : <<x, y>> \in Seq(S)
         /\ \A x, y, z \in S : <<x, y, z>> \in Seq(S)
OBVIOUS

LEMMA LeastNat ==
  ASSUME NEW a \in Nat, NEW b \in Nat
  PROVE  Least(a, b) \in Nat /\ Least(a, b) <= a /\ Least(a, b) <= b
BY DEF Least

(* A read loop takes a natural number of bytes. *)
LEMMA WantedNat == ASSUME NEW need \in Int PROVE Wanted(need) \in Nat
<1>1. CASE need <= 0  BY <1>1, BoundsAssumption DEF Wanted
<1>2. CASE need > 0
  <2>1. need + ReadMax - 1 \in Nat /\ ReadMax \in Nat \ {0}
    BY <1>2, BoundsAssumption
  <2>2. (need + ReadMax - 1) \div ReadMax \in Nat  BY <2>1
  <2>3. \A a, b \in Nat : a * b \in Nat  OBVIOUS
  <2> QED  BY <1>2, <2>1, <2>2, <2>3 DEF Wanted
<1> QED  BY <1>1, <1>2

(* The turn wraps around within this server and the sub-servers. *)
LEMMA NextIndexRange ==
  ASSUME NEW i \in Nat, NEW n \in Nat PROVE NextIndex(i, n) \in 0..n
BY DEF NextIndex

LEMMA SentType ==
  ASSUME NEW c \in Conns, NEW i \in Nat \ {0}, NEW j \in Int, i <= j + 1
  PROVE  /\ Sent(c, i, j) \in Seq(Byte)
         /\ Len(Sent(c, i, j)) = j - i + 1
         /\ \A k \in 1..(j - i + 1) : Sent(c, i, j)[k] = <<c, i + k - 1>>
BY DEF Sent, Byte, Inodes

LEMMA WriteAtType ==
  ASSUME NEW content \in Seq(Byte), NEW pos \in Nat, NEW bytes \in Seq(Byte)
  PROVE  WriteAt(content, pos, bytes) \in Seq(Byte)
<1>1. CASE bytes = <<>>  BY <1>1 DEF WriteAt
<1>2. CASE bytes # <<>>
  <2> DEFINE last == pos + Len(bytes)
             new == IF last > Len(content) THEN last ELSE Len(content)
             at(p) == IF pos < p /\ p <= last THEN bytes[p - pos]
                      ELSE IF p <= Len(content) THEN content[p] ELSE Hole
  <2>1. last \in Nat /\ new \in Nat  OBVIOUS
  <2>2. ASSUME NEW p \in 1..new PROVE at(p) \in Byte
    <3>1. CASE pos < p /\ p <= last
      <4>1. p - pos \in 1..Len(bytes)  BY <3>1
      <4> QED  BY <3>1, <4>1
    <3>2. CASE ~(pos < p /\ p <= last) /\ p <= Len(content)
      BY <3>2
    <3>3. CASE ~(pos < p /\ p <= last) /\ ~(p <= Len(content))
      <4>1. Hole \in Byte  BY DEF Hole, Byte
      <4> QED  BY <3>3, <4>1
    <3> QED  BY <3>1, <3>2, <3>3
  <2>3. WriteAt(content, pos, bytes) = [p \in 1..new |-> at(p)]
    BY <1>2 DEF WriteAt
  <2> HIDE DEF at, new
  <2>4. [p \in 1..new |-> at(p)] \in Seq(Byte)  BY <2>1, <2>2
  <2> QED  BY <2>3, <2>4
<1> QED  BY <1>1, <1>2

(* What a vector holds after vector_push_back(). *)
LEMMA AppendToSet ==
  ASSUME NEW S, NEW s \in Seq(S), NEW x \in S
  PROVE  ToSet(Append(s, x)) = ToSet(s) \cup {x}
<1>1. /\ DOMAIN s = 1..Len(s)
      /\ DOMAIN Append(s, x) = 1..(Len(s) + 1)
      /\ Append(s, x)[Len(s) + 1] = x
      /\ \A p \in 1..Len(s) : Append(s, x)[p] = s[p]
  BY AppendProperties
<1>2. ASSUME NEW y \in ToSet(Append(s, x)) PROVE y \in ToSet(s) \cup {x}
  <2>1. PICK p \in 1..(Len(s) + 1) : y = Append(s, x)[p]
    BY <1>1, <1>2 DEF ToSet
  <2>2. CASE p = Len(s) + 1  BY <1>1, <2>1, <2>2
  <2>3. CASE p # Len(s) + 1
    <3>1. p \in 1..Len(s)  BY <2>1, <2>3
    <3> QED  BY <1>1, <2>1, <3>1 DEF ToSet
  <2> QED  BY <2>2, <2>3
<1>3. ASSUME NEW y \in ToSet(s) PROVE y \in ToSet(Append(s, x))
  <2>1. PICK p \in 1..Len(s) : y = s[p]  BY <1>1, <1>3 DEF ToSet
  <2>2. p \in DOMAIN Append(s, x) /\ Append(s, x)[p] = y  BY <1>1, <2>1
  <2> QED  BY <2>2 DEF ToSet
<1>4. x \in ToSet(Append(s, x))
  <2>1. Len(s) + 1 \in DOMAIN Append(s, x)  BY <1>1
  <2> QED  BY <1>1, <2>1 DEF ToSet
<1> QED  BY <1>2, <1>3, <1>4

(* A name is added where it is missing, and nothing else changes. *)
LEMMA EnlistFacts ==
  ASSUME NEW s \in Seq(Names), NEW n \in Names
  PROVE  /\ Enlist(s, n) \in Seq(Names)
         /\ ToSet(Enlist(s, n)) = ToSet(s) \cup {n}
         /\ (\A p, q \in DOMAIN s : s[p] = s[q] => p = q) =>
              \A p, q \in DOMAIN Enlist(s, n) :
                Enlist(s, n)[p] = Enlist(s, n)[q] => p = q
<1>1. CASE n \in ToSet(s)  BY <1>1 DEF Enlist, ToSet
<1>2. CASE n \notin ToSet(s)
  <2>1. Enlist(s, n) = Append(s, n)  BY <1>2 DEF Enlist
  <2>2. /\ Append(s, n) \in Seq(Names)
        /\ DOMAIN Append(s, n) = 1..(Len(s) + 1)
        /\ Append(s, n)[Len(s) + 1] = n
        /\ \A p \in 1..Len(s) : Append(s, n)[p] = s[p]
    BY AppendProperties
  <2>3. \A p \in 1..Len(s) : s[p] # n  BY <1>2 DEF ToSet
  <2>4. ToSet(Append(s, n)) = ToSet(s) \cup {n}  BY AppendToSet
  <2>5. ASSUME \A p, q \in DOMAIN s : s[p] = s[q] => p = q,
               NEW p \in 1..(Len(s) + 1), NEW q \in 1..(Len(s) + 1),
               Append(s, n)[p] = Append(s, n)[q]
        PROVE  p = q
    <3>1. CASE p \in 1..Len(s) /\ q \in 1..Len(s)  BY <3>1, <2>2, <2>5
    <3>2. CASE p \in 1..Len(s) /\ q = Len(s) + 1  BY <3>2, <2>2, <2>3, <2>5
    <3>3. CASE p = Len(s) + 1 /\ q \in 1..Len(s)  BY <3>3, <2>2, <2>3, <2>5
    <3>4. CASE p = Len(s) + 1 /\ q = Len(s) + 1  BY <3>4
    <3> QED  BY <3>1, <3>2, <3>3, <3>4
  <2> QED  BY <2>1, <2>2, <2>4, <2>5
<1> QED  BY <1>1, <1>2

(* Taking the only occurrence of a name out takes the name out. *)
LEMMA RemoveAtFacts ==
  ASSUME NEW s \in Seq(Names), NEW p \in DOMAIN s
  PROVE  /\ RemoveAt(s, p) \in Seq(Names)
         /\ (\A i, j \in DOMAIN s : s[i] = s[j] => i = j) =>
              /\ ToSet(RemoveAt(s, p)) = ToSet(s) \ {s[p]}
              /\ \A i, j \in DOMAIN RemoveAt(s, p) :
                   RemoveAt(s, p)[i] = RemoveAt(s, p)[j] => i = j
<1> DEFINE a == SubSeq(s, 1, p - 1)
           b == SubSeq(s, p + 1, Len(s))
           r == RemoveAt(s, p)
           old(k) == IF k < p THEN k ELSE k + 1
<1>0. p \in 1..Len(s) /\ Len(s) \in Nat  OBVIOUS
<1>1. /\ a \in Seq(Names) /\ Len(a) = p - 1
      /\ \A k \in 1..(p - 1) : a[k] = s[k]
  BY <1>0, SubSeqProperties
<1>2. /\ b \in Seq(Names) /\ Len(b) = Len(s) - p
      /\ \A k \in 1..(Len(s) - p) : b[k] = s[p + k]
  BY <1>0, SubSeqProperties
<1>3. r = a \o b  BY DEF RemoveAt
<1> HIDE DEF a, b, r
<1>4. /\ r \in Seq(Names) /\ Len(r) = Len(s) - 1
      /\ \A k \in 1..(Len(s) - 1) : r[k] = s[old(k)]
  <2>1. r \in Seq(Names) /\ Len(r) = Len(a) + Len(b)
    BY <1>1, <1>2, <1>3, ConcatProperties
  <2>2. ASSUME NEW k \in 1..(Len(s) - 1) PROVE r[k] = s[old(k)]
    <3>1. CASE k < p
      <4>1. k \in 1..(p - 1)  BY <3>1
      <4>2. r[k] = a[k]  BY <1>0, <1>1, <1>2, <1>3, <4>1, ConcatProperties
      <4> QED  BY <1>1, <3>1, <4>1, <4>2
    <3>2. CASE ~(k < p)
      <4>1. k - (p - 1) \in 1..(Len(s) - p) /\ k > Len(a)
        BY <1>0, <1>1, <3>2
      <4>2. r[k] = b[k - (p - 1)]
        <5>1. Len(a) = p - 1 /\ k \in 1..(Len(a) + Len(b)) /\ ~(k <= Len(a))
          BY <1>0, <1>1, <1>2, <3>2
        <5>2. a \in Seq(Names) /\ b \in Seq(Names)  BY <1>1, <1>2
        <5>3. (a \o b)[k] = b[k - Len(a)]
          BY <5>1, <5>2, ConcatProperties
        <5> QED  BY <1>3, <5>1, <5>3
      <4>3. b[k - (p - 1)] = s[p + (k - (p - 1))]  BY <1>2, <4>1
      <4>4. p + (k - (p - 1)) = k + 1  BY <1>0
      <4> QED  BY <3>2, <4>2, <4>3, <4>4
    <3> QED  BY <3>1, <3>2
  <2> HIDE DEF old
  <2>3. Len(a) + Len(b) = Len(s) - 1  BY <1>0, <1>1, <1>2
  <2> QED  BY <2>1, <2>2, <2>3
<1>5. ASSUME \A i, j \in DOMAIN s : s[i] = s[j] => i = j
      PROVE  /\ ToSet(r) = ToSet(s) \ {s[p]}
             /\ \A i, j \in DOMAIN r : r[i] = r[j] => i = j
  <2>1. \A k \in 1..(Len(s) - 1) : old(k) \in 1..Len(s) /\ old(k) # p
    BY <1>0
  <2>2. DOMAIN r = 1..(Len(s) - 1)  BY <1>4
  <2>3. ASSUME NEW x \in ToSet(r) PROVE x \in ToSet(s) \ {s[p]}
    <3>1. PICK k \in 1..(Len(s) - 1) : x = r[k]  BY <2>2, <2>3 DEF ToSet
    <3>2. x = s[old(k)] /\ old(k) \in DOMAIN s /\ old(k) # p
      BY <1>0, <1>4, <2>1, <3>1
    <3> HIDE DEF old
    <3> QED  BY <1>5, <3>2 DEF ToSet
  <2>4. ASSUME NEW x \in ToSet(s) \ {s[p]} PROVE x \in ToSet(r)
    <3>1. PICK m \in 1..Len(s) : x = s[m] /\ m # p  BY <2>4 DEF ToSet
    <3> DEFINE k == IF m < p THEN m ELSE m - 1
    <3>2. k \in 1..(Len(s) - 1) /\ old(k) = m  BY <1>0, <3>1
    <3>3. r[k] = x  BY <1>4, <3>1, <3>2
    <3> QED  BY <2>2, <3>2, <3>3 DEF ToSet
  <2>5. ASSUME NEW i \in DOMAIN r, NEW j \in DOMAIN r, r[i] = r[j]
        PROVE  i = j
    <3>1. i \in 1..(Len(s) - 1) /\ j \in 1..(Len(s) - 1)  BY <2>2
    <3>2. s[old(i)] = s[old(j)]  BY <1>4, <2>5, <3>1
    <3>3. old(i) = old(j)  BY <1>0, <1>5, <2>1, <3>1, <3>2
    <3> QED  BY <1>0, <3>1, <3>3
  <2> QED  BY <2>3, <2>4, <2>5
<1> QED  BY <1>4, <1>5 DEF r

(* The sequences main() may read from the directory: every name once. *)
LEMMA ScrapeFacts ==
  ASSUME NEW S \in SUBSET Names, NEW q \in SetToSeqs(S)
  PROVE  /\ q \in Seq(Names)
         /\ ToSet(q) = S
         /\ \A i, j \in DOMAIN q : q[i] = q[j] => i = j
<1> DEFINE D == 1..Cardinality(S)
<1>1. IsFiniteSet(S)  BY FS_Subset, ValuesAssumption
<1>2. Cardinality(S) \in Nat  BY <1>1, FS_CardinalityType
<1>3. q \in [D -> S] /\ \A i, j \in D : i # j => q[i] # q[j]
  BY DEF SetToSeqs
<1>4. q \in Seq(Names)  BY <1>2, <1>3
<1>5. IsFiniteSet(D) /\ Cardinality(D) = Cardinality(S)
  BY <1>2, FS_Interval
<1>6. q \in Injection(D, S)  BY <1>3 DEF Injection, IsInjective
<1>7. q \in Surjection(D, S)
  BY <1>1, <1>5, <1>6, FS_Injection
<1>8. ToSet(q) = S  BY <1>3, <1>7 DEF Surjection, ToSet
<1> QED  BY <1>3, <1>4, <1>8
-----------------------------------------------------------------------------
(* Lemmas about the changes a handler makes to its own connection.         *)

Finals == {"DONE", "INVALID_VERB", "INVALID_FILE", "INCORRECT_DATA_AMOUNT"}

LEMMA ClientType ==
  ASSUME NEW st \in States PROVE Client(st) \in ClientInfo
BY DEF Client, ClientInfo, Verbs

LEMMA ErrorReplyType == \A st \in Finals : ErrorReply[st] \in Seq(Messages)
<1>1. /\ <<"ERROR">> \in Messages
      /\ <<"BAD_REQUEST">> \in Messages
      /\ <<"NO_SUCH_FILE">> \in Messages
      /\ <<"BAD_FILE_SIZE">> \in Messages
  BY DEF Messages
<1>2. /\ ErrorReply["DONE"] = <<>>
      /\ ErrorReply["INVALID_VERB"] = <<<<"ERROR">>, <<"BAD_REQUEST">>>>
      /\ ErrorReply["INVALID_FILE"] = <<<<"ERROR">>, <<"NO_SUCH_FILE">>>>
      /\ ErrorReply["INCORRECT_DATA_AMOUNT"] =
           <<<<"ERROR">>, <<"BAD_FILE_SIZE">>>>
  BY DEF ErrorReply
<1>5. /\ ErrorReply["DONE"] \in Seq(Messages)
      /\ ErrorReply["INVALID_VERB"] \in Seq(Messages)
      /\ ErrorReply["INVALID_FILE"] \in Seq(Messages)
      /\ ErrorReply["INCORRECT_DATA_AMOUNT"] \in Seq(Messages)
  BY <1>1, <1>2, ShortSequences
<1> QED  BY <1>5 DEF Finals

(* Writing to a connection changes nothing else of its socket. *)
LEMMA ReplyFacts ==
  ASSUME sock \in [Conns -> SockType], NEW c \in Conns,
         NEW msgs \in Seq(Messages)
  PROVE  /\ Reply(c, msgs) \in SockType
         /\ Reply(c, msgs).taken = sock[c].taken
         /\ Reply(c, msgs).body = sock[c].body
         /\ Reply(c, msgs).head = sock[c].head
         /\ Reply(c, msgs).fin = sock[c].fin
<1>1. sock[c] \in SockType  OBVIOUS
<1>2. sock[c].out \o msgs \in Seq(Messages)
  BY <1>1, ConcatProperties DEF SockType
<1> QED  BY <1>1, <1>2 DEF Reply, SockType

(* Finish() takes one connection out and leaves the others alone. *)
LEMMA FinishFacts ==
  ASSUME info \in [Conns -> ClientInfo], sock \in [Conns -> SockType],
         NEW c \in Conns, NEW st \in Finals, NEW s \in SockType,
         Finish(c, st, s)
  PROVE  /\ info' \in [Conns -> ClientInfo]
         /\ sock' \in [Conns -> SockType]
         /\ info'[c].state = "REMOVED"
         /\ sock'[c].taken = s.taken
         /\ sock'[c].body = s.body
         /\ \A d \in Conns \ {c} : info'[d] = info[d] /\ sock'[d] = sock[d]
<1>1. Client("REMOVED") \in ClientInfo /\ Client("REMOVED").state = "REMOVED"
  <2>1. "REMOVED" \in States  BY DEF States
  <2> QED  BY <2>1, ClientType DEF Client
<1>2. s.out \o ErrorReply[st] \in Seq(Messages)
  BY ErrorReplyType, ConcatProperties DEF SockType
<1>3. [s EXCEPT !.out = @ \o ErrorReply[st]] \in SockType
  BY <1>2 DEF SockType
<1>4. /\ [s EXCEPT !.out = @ \o ErrorReply[st]].taken = s.taken
      /\ [s EXCEPT !.out = @ \o ErrorReply[st]].body = s.body
  BY DEF SockType
<1> QED  BY <1>1, <1>3, <1>4 DEF Finish

(* The messages the handlers write are messages. *)
LEMMA MessageFacts ==
  /\ <<"OK">> \in Messages
  /\ <<"HERE">> \in Messages
  /\ <<"NO_SUCH_FILE">> \in Messages
  /\ <<"ANY_SIZE">> \in Messages
  /\ \A z \in Nat : <<"SIZE", z>> \in Messages
  /\ \A bytes \in Seq(Byte) : <<"DATA", bytes>> \in Messages
  /\ \A t \in Subs : <<"REDIRECT", t>> \in Messages
  /\ \A N \in SUBSET Names : <<"LISTING", N>> \in Messages
BY DEF Messages


-----------------------------------------------------------------------------
(* The type invariant, together with DispatchSound: what a handler takes   *)
(* for granted about header is what types the tables it updates.           *)

Typed == TypeOK /\ DispatchSound

LEMMA TypedInit == Init => Typed
<1> SUFFICES ASSUME Init PROVE Typed  OBVIOUS
<1>1. info = [c \in Conns |-> Client("NONE")] /\ Client("NONE") \in ClientInfo
  <2>1. "NONE" \in States  BY DEF States
  <2> QED  BY <2>1, ClientType DEF Init
<1>2. \A c \in Conns : info[c].state = "NONE"  BY <1>1 DEF Client
<1>3. NewSock \in SockType  BY DEF NewSock, SockType
<1>4. PICK S \in SUBSET Names :
        /\ dir = [n \in Names |-> IF n \in S THEN n ELSE None]
        /\ data = [i \in Inodes |-> IF i \in S THEN Old(i) ELSE <<>>]
        /\ files \in SetToSeqs(S)
  BY DEF Init
<1>5. dir \in [Names -> Inodes \cup {None}]  BY <1>4 DEF Inodes
<1>6. data \in [Inodes -> Seq(Byte)]
  <2>1. \A n \in S : <<n, 1>> \in Byte /\ <<n, 2>> \in Byte
    BY DEF Byte, Inodes
  <2>2. \A n \in S : Old(n) \in Seq(Byte)  BY <2>1, ShortSequences DEF Old
  <2> QED  BY <1>4, <2>2
<1>7. files \in Seq(Names)  BY <1>4, ScrapeFacts
<1>8. TypeOK
  BY <1>1, <1>2, <1>3, <1>5, <1>6, <1>7, BoundsAssumption
  DEF Init, TypeOK, Registered
<1>9. DispatchSound  BY <1>2 DEF DispatchSound
<1> QED  BY <1>8, <1>9 DEF Typed

(* A connection that left for good, or did not change, keeps what Typed    *)
(* says of it; only the one a handler works on has to be looked at.        *)
ConnTyped(i, r) ==
  /\ i.state \in {"READING_VERB", "READING_HEADER", "HANDLING_VERB"} =>
       r \in Requests
  /\ i.state \in {"READING_VERB", "READING_HEADER"} => i.local_file = 0
  /\ i.state = "READING_HEADER" =>
       /\ i.action = r.verb
       /\ i.action \in {"GET", "PUT", "DELETE", "ADD_SERVER"}
  /\ i.state = "HANDLING_VERB" =>
       /\ i.action = r.verb
       /\ CASE i.action \in {"GET", "DELETE"} -> i.header \in Names
            [] i.action = "PUT" -> (i.local_file = 0) <=> (i.header \in Names)
            [] i.action = "ADD_SERVER" -> i.header \in Subs
            [] i.action = "LIST" -> TRUE
            [] OTHER -> FALSE

Tables ==
  /\ process \in {"running", "stopped", "exited"}
  /\ files \in Seq(Names)
  /\ dir \in [Names -> Inodes \cup {None}]
  /\ data \in [Inodes -> Seq(Byte)]
  /\ file_to_server \in [Names -> Subs \cup {None}]
  /\ mini_servers \in Seq(Subs)
  /\ current_server_index \in 0..Len(mini_servers)
  /\ fds \in 0..FdLimit
  /\ shared \subseteq Conns
  /\ unopened \subseteq Names

Connections ==
  /\ info \in [Conns -> ClientInfo]
  /\ req \in [Conns -> Requests \cup {None}]
  /\ sock \in [Conns -> SockType]
  /\ \A c \in Conns : ConnTyped(info[c], req[c])

LEMMA TypedParts == Typed <=> Tables /\ Connections
BY DEF Typed, TypeOK, DispatchSound, Tables, Connections, ConnTyped, Registered

LEMMA TypedPartsNext == Typed' <=> Tables' /\ Connections'
BY DEF Typed, TypeOK, DispatchSound, Tables, Connections, ConnTyped, Registered

(* Finish() keeps the connections typed. *)
LEMMA FinishTyped ==
  ASSUME Connections, NEW c \in Conns, NEW st \in Finals, NEW s \in SockType,
         Finish(c, st, s), UNCHANGED req
  PROVE  Connections'
<1>1. /\ info' \in [Conns -> ClientInfo]
      /\ sock' \in [Conns -> SockType]
      /\ info'[c].state = "REMOVED"
      /\ \A d \in Conns \ {c} : info'[d] = info[d]
  BY FinishFacts DEF Connections
<1>2. \A d \in Conns : ConnTyped(info[d], req[d])  BY DEF Connections
<1>3. ConnTyped(info'[c], req[c])  BY <1>1 DEF ConnTyped
<1> QED  BY <1>1, <1>2, <1>3 DEF Connections


LEMMA RequestFacts ==
  ASSUME Connections, NEW c \in Conns, Registered(c)
  PROVE  /\ req[c] \in Requests
         /\ req[c].verb \in Verbs
         /\ req[c].name \in Names \cup {None}
         /\ req[c].verb = "ADD_SERVER" => req[c].sub \in Subs
         /\ req[c].size \in Nat
         /\ req[c].len \in Nat
<1>1. req[c] \in Requests  BY DEF Connections, ConnTyped, Registered
<1>2. req[c] \in RequestType  BY <1>1, BoundsAssumption
<1>3. req[c].verb = "ADD_SERVER" => req[c].sub \in Subs
  BY <1>1, BoundsAssumption
<1> QED  BY <1>1, <1>2, <1>3 DEF RequestType

(* None of what dispatches a verb is confused with what has no name. *)
LEMMA NoneApart == None \notin Names /\ None \notin Subs /\ None \notin Conns
BY ValuesAssumption DEF Inodes

LEMMA TypedParseVerb ==
  ASSUME Tables, Connections, NEW c \in Conns, ParseVerb(c)
  PROVE  Tables' /\ Connections'
<1>1. Tables'  BY DEF ParseVerb, Tables, store, routing
<1>2. sock[c] \in SockType /\ UNCHANGED req
  BY DEF Connections, ParseVerb
<1>3. ASSUME info' = [info EXCEPT ![c].action = req[c].verb,
                                  ![c].state = AfterVerb(req[c].verb)],
             req[c].verb # "V_UNKNOWN", UNCHANGED sock
      PROVE  Connections'
  <2>1. req[c] \in Requests /\ req[c].verb \in Verbs
    BY RequestFacts DEF ParseVerb, Registered
  <2>2. info[c] \in ClientInfo  BY DEF Connections
  <2>3. AfterVerb(req[c].verb) \in {"HANDLING_VERB", "READING_HEADER"}
    BY DEF AfterVerb
  <2>4. info' \in [Conns -> ClientInfo]
    BY <1>3, <2>1, <2>2, <2>3 DEF Connections, ClientInfo, States
  <2>5. /\ info'[c].state = AfterVerb(req[c].verb)
        /\ info'[c].action = req[c].verb
        /\ info'[c].local_file = info[c].local_file
    BY <1>3, <2>2 DEF Connections, ClientInfo
  <2>6. info[c].local_file = 0  BY DEF Connections, ConnTyped, ParseVerb
  <2>7. ConnTyped(info'[c], req[c])
    BY <1>3, <2>1, <2>5, <2>6 DEF ConnTyped, AfterVerb, Verbs
  <2>8. \A d \in Conns \ {c} : info'[d] = info[d]
    BY <1>3 DEF Connections
  <2>9. \A d \in Conns : ConnTyped(info'[d], req'[d])
    BY <1>2, <2>7, <2>8 DEF Connections
  <2> QED  BY <1>2, <1>3, <2>4, <2>9 DEF Connections
<1>4. ASSUME Finish(c, "INVALID_VERB", sock[c]) PROVE Connections'
  BY <1>2, <1>4, FinishTyped DEF Finals
<1> QED  BY <1>1, <1>3, <1>4 DEF ParseVerb

LEMMA TypedReadFileName ==
  ASSUME Tables, Connections, NEW c \in Conns, ReadFileName(c)
  PROVE  Tables' /\ Connections'
<1>1. Tables'  BY DEF ReadFileName, Tables, store, routing
<1>2. sock[c] \in SockType /\ UNCHANGED req
  BY DEF Connections, ReadFileName
<1>3. ASSUME info' = [info EXCEPT ![c].header = HeaderLine(req[c]),
                                  ![c].state = "HANDLING_VERB"],
             HeaderLine(req[c]) # None, UNCHANGED sock
      PROVE  Connections'
  <2> DEFINE line == HeaderLine(req[c])
  <2>1. /\ req[c].name \in Names \cup {None}
        /\ req[c].verb = "ADD_SERVER" => req[c].sub \in Subs
    BY RequestFacts DEF ReadFileName, Registered
  <2>2. line \in IF req[c].verb = "ADD_SERVER" THEN Subs ELSE Names
    BY <1>3, <2>1 DEF HeaderLine
  <2> HIDE DEF line
  <2>3. info[c] \in ClientInfo  BY DEF Connections
  <2>4. info' \in [Conns -> ClientInfo]
    BY <1>3, <2>2, <2>3 DEF Connections, ClientInfo, States, line
  <2>5. /\ info'[c].state = "HANDLING_VERB"
        /\ info'[c].action = info[c].action
        /\ info'[c].local_file = info[c].local_file
        /\ info'[c].header = line
    BY <1>3, <2>3 DEF Connections, ClientInfo, line
  <2>6. /\ info[c].local_file = 0
        /\ info[c].action = req[c].verb
        /\ info[c].action \in {"GET", "PUT", "DELETE", "ADD_SERVER"}
        /\ req[c] \in Requests
    BY RequestFacts DEF Connections, ConnTyped, ReadFileName, Registered
  <2>7. ConnTyped(info'[c], req[c])
    BY <2>2, <2>5, <2>6 DEF ConnTyped
  <2>8. \A d \in Conns \ {c} : info'[d] = info[d]
    BY <1>3 DEF Connections
  <2>9. \A d \in Conns : ConnTyped(info'[d], req'[d])
    BY <1>2, <2>7, <2>8 DEF Connections
  <2> QED  BY <1>2, <1>3, <2>4, <2>9 DEF Connections
<1>4. ASSUME Finish(c, "INCORRECT_DATA_AMOUNT", sock[c]) PROVE Connections'
  BY <1>2, <1>4, FinishTyped DEF Finals
<1> QED  BY <1>1, <1>3, <1>4 DEF ReadFileName


LEMMA TypedGet ==
  ASSUME Tables, Connections, NEW c \in Conns, Get(c)
  PROVE  Tables' /\ Connections'
<1> DEFINE n == info[c].header
<1>1. "DONE" \in Finals  BY DEF Finals
<1>2. n \in Names
  BY DEF Get, GetLocal, GetRedirect, GetMissing, Handling, Connections, ConnTyped
<1>3. sock \in [Conns -> SockType]  BY DEF Connections
<1> HIDE DEF n
<1>4. CASE GetLocal(c)
  <2>1. Tables' /\ UNCHANGED req
    <3>1. fds' = fds \/ (fds < FdLimit /\ fds' = fds + 1)
      BY <1>4 DEF GetLocal
    <3>2. fds' \in 0..FdLimit  BY <3>1, BoundsAssumption DEF Tables
    <3>3. UNCHANGED <<process, req, store, routing>>  BY <1>4 DEF GetLocal
    <3> QED  BY <3>2, <3>3 DEF Tables, store, routing
  <2>2. ASSUME dir[n] # None,
               Finish(c, "DONE", Reply(c, <<<<"OK">>, <<"HERE">>>> \o
                <<<<"SIZE", Len(data[dir[n]])>>, <<"DATA", data[dir[n]]>>>>))
        PROVE  Connections'
    <3>1. data[dir[n]] \in Seq(Byte)  BY <1>2, <2>2 DEF Tables
    <3>2. Len(data[dir[n]]) \in Nat  BY <3>1
    <3>3. /\ <<<<"OK">>, <<"HERE">>>> \in Seq(Messages)
          /\ <<<<"SIZE", Len(data[dir[n]])>>, <<"DATA", data[dir[n]]>>>>
               \in Seq(Messages)
      BY <3>1, <3>2, MessageFacts, ShortSequences
    <3>4. <<<<"OK">>, <<"HERE">>>> \o
            <<<<"SIZE", Len(data[dir[n]])>>, <<"DATA", data[dir[n]]>>>>
              \in Seq(Messages)
      BY <3>3, ConcatProperties
    <3> QED  BY <1>1, <1>3, <2>1, <2>2, <3>4, ReplyFacts, FinishTyped
  <2>3. ASSUME Finish(c, "DONE",
                      Reply(c, Append(<<<<"OK">>, <<"HERE">>>>, <<"ANY_SIZE">>)))
        PROVE  Connections'
    <3>1. <<<<"OK">>, <<"HERE">>>> \in Seq(Messages) /\ <<"ANY_SIZE">> \in Messages
      BY MessageFacts, ShortSequences
    <3>2. Append(<<<<"OK">>, <<"HERE">>>>, <<"ANY_SIZE">>) \in Seq(Messages)
      BY <3>1, AppendProperties
    <3> QED  BY <1>1, <1>3, <2>1, <2>3, <3>2, ReplyFacts, FinishTyped
  <2>4. ASSUME Finish(c, "INCORRECT_DATA_AMOUNT", Reply(c, <<<<"OK">>, <<"HERE">>>>))
        PROVE  Connections'
    <3>1. "INCORRECT_DATA_AMOUNT" \in Finals  BY DEF Finals
    <3>2. <<<<"OK">>, <<"HERE">>>> \in Seq(Messages)
      BY MessageFacts, ShortSequences
    <3> QED  BY <1>3, <2>1, <2>4, <3>1, <3>2, ReplyFacts, FinishTyped
  <2> QED  BY <1>4, <2>1, <2>2, <2>3, <2>4 DEF GetLocal, n
<1>5. CASE GetRedirect(c)
  <2>1. Tables' /\ UNCHANGED req
    BY <1>5 DEF GetRedirect, Tables, store, routing
  <2>2. file_to_server[n] \in Subs  BY <1>2, <1>5 DEF GetRedirect, Tables, n
  <2>3. <<<<"OK">>, <<"REDIRECT", file_to_server[n]>>>> \in Seq(Messages)
    BY <2>2, MessageFacts, ShortSequences
  <2>4. Finish(c, "DONE", Reply(c, <<<<"OK">>, <<"REDIRECT", file_to_server[n]>>>>))
    BY <1>5 DEF GetRedirect, n
  <2> QED  BY <1>1, <1>3, <2>1, <2>3, <2>4, ReplyFacts, FinishTyped
<1>6. CASE GetMissing(c)
  <2>1. Tables' /\ UNCHANGED req
    BY <1>6 DEF GetMissing, Tables, store, routing
  <2>2. <<<<"NO_SUCH_FILE">>>> \in Seq(Messages)
    BY MessageFacts, ShortSequences
  <2>3. Finish(c, "DONE", Reply(c, <<<<"NO_SUCH_FILE">>>>))
    BY <1>6 DEF GetMissing
  <2> QED  BY <1>1, <1>3, <2>1, <2>2, <2>3, ReplyFacts, FinishTyped
<1> QED  BY <1>4, <1>5, <1>6 DEF Get

LEMMA TypedPutRedirect ==
  ASSUME Tables, Connections, NEW c \in Conns, PutRedirect(c)
  PROVE  Tables' /\ Connections'
<1> DEFINE target == mini_servers[current_server_index]
<1>1. target \in Subs
  BY DEF PutRedirect, OwnTurn, Tables
<1>2. <<<<"REDIRECT", target>>>> \in Seq(Messages)
  BY <1>1, MessageFacts, ShortSequences
<1>3. Finish(c, "DONE", Reply(c, <<<<"REDIRECT", target>>>>)) /\ UNCHANGED req
  BY DEF PutRedirect
<1>4. file_to_server' = [file_to_server EXCEPT ![info[c].header] = target]
  BY DEF PutRedirect
<1> HIDE DEF target
<1>5. Connections'
  BY <1>2, <1>3, ReplyFacts, FinishTyped DEF Finals, Connections
<1>6. current_server_index' \in 0..Len(mini_servers')
  BY NextIndexRange DEF PutRedirect, Advance, Tables
<1>7. file_to_server' \in [Names -> Subs \cup {None}]
  BY <1>1, <1>4 DEF Tables
<1> QED  BY <1>5, <1>6, <1>7 DEF PutRedirect, Tables, store

(* open() gives the inode of a file that is there, or a new one. *)
LEMMA OpenInodeType ==
  ASSUME dir \in [Names -> Inodes \cup {None}], NEW n \in Names, NEW c \in Conns
  PROVE  OpenInode(n, c) \in Inodes
BY DEF OpenInode, Inodes

LEMMA TypedPutOpen ==
  ASSUME Tables, Connections, NEW c \in Conns, PutOpen(c)
  PROVE  Tables' /\ Connections'
<1> DEFINE n == info[c].header
           inode == OpenInode(n, c)
<1>1. n \in Names /\ info[c].action = "PUT" /\ info[c].state = "HANDLING_VERB"
  BY DEF PutOpen, Handling, Connections, ConnTyped
<1>2. inode \in Inodes  BY <1>1, OpenInodeType DEF Tables
<1>3. inode \notin {0, -1} /\ 0 # -1 /\ None \notin Names
  BY <1>2, ValuesAssumption, NoneApart
<1>4. info[c] \in ClientInfo  BY DEF Connections
<1>5. sock' \in [Conns -> SockType]
  <2>1. <<<<"HERE">>>> \in Seq(Messages)  BY MessageFacts, ShortSequences
  <2>2. Reply(c, <<<<"HERE">>>>) \in SockType
    BY <2>1, ReplyFacts DEF Connections
  <2> QED  BY <2>2 DEF PutOpen, Connections
<1>6. files' \in Seq(Names)  BY <1>1, EnlistFacts DEF PutOpen, Tables
<1>7. current_server_index' \in 0..Len(mini_servers')
  BY NextIndexRange DEF PutOpen, Advance, Tables
<1>8. ASSUME NEW fd \in {inode, -1},
             info' = [info EXCEPT ![c].local_file = fd, ![c].header = None]
      PROVE  Connections'
  <2>1. info' \in [Conns -> ClientInfo]
    BY <1>2, <1>4, <1>8 DEF Connections, ClientInfo
  <2>2. /\ info'[c].state = "HANDLING_VERB"
        /\ info'[c].action = "PUT"
        /\ info'[c].local_file = fd
        /\ info'[c].header = None
    BY <1>1, <1>4, <1>8 DEF Connections, ClientInfo
  <2>3. req[c] \in Requests /\ req[c].verb = "PUT"
    BY <1>1 DEF Connections, ConnTyped
  <2>4. ConnTyped(info'[c], req[c])
    BY <1>3, <2>2, <2>3 DEF ConnTyped
  <2>5. \A d \in Conns \ {c} : info'[d] = info[d]
    BY <1>8 DEF Connections
  <2>6. UNCHANGED req  BY DEF PutOpen
  <2>7. \A d \in Conns : ConnTyped(info'[d], req'[d])
    BY <2>4, <2>5, <2>6 DEF Connections
  <2> QED  BY <1>5, <2>1, <2>6, <2>7 DEF Connections
<1>9. CASE /\ fds < FdLimit
           /\ fds' = fds + 1
           /\ dir' = [dir EXCEPT ![n] = inode]
           /\ data' = [data EXCEPT ![inode] = Truncate(@)]
           /\ info' = [info EXCEPT ![c].local_file = inode, ![c].header = None]
           /\ shared' = IF Writers(inode) = {} THEN shared
                        ELSE shared \cup Writers(inode) \cup {c}
           /\ unopened' = unopened \ {n}
  <2>1. Connections'  BY <1>8, <1>9
  <2>2. fds' \in 0..FdLimit  BY <1>9, BoundsAssumption DEF Tables
  <2>3. dir' \in [Names -> Inodes \cup {None}]  BY <1>2, <1>9 DEF Tables
  <2>4. data' \in [Inodes -> Seq(Byte)]
    <3>1. data' = [data EXCEPT ![inode] = <<>>]
      BY <1>9 DEF Truncate, Tables
    <3>2. <<>> \in Seq(Byte)  BY ShortSequences
    <3> HIDE DEF inode
    <3> QED  BY <1>2, <3>1, <3>2 DEF Tables
  <2>5. shared' \subseteq Conns  BY <1>9 DEF Tables, Writers
  <2>6. unopened' \subseteq Names  BY <1>9 DEF Tables
  <2> QED
    BY <1>6, <1>7, <2>1, <2>2, <2>3, <2>4, <2>5, <2>6 DEF PutOpen, Tables
<1>10. CASE /\ info' = [info EXCEPT ![c].local_file = -1, ![c].header = None]
            /\ unopened' = unopened \cup {n}
            /\ UNCHANGED <<fds, dir, data, shared>>
  <2>1. Connections'  BY <1>8, <1>10
  <2>2. unopened' \subseteq Names  BY <1>1, <1>10 DEF Tables
  <2> QED  BY <1>6, <1>7, <1>10, <2>1, <2>2 DEF PutOpen, Tables
<1> QED  BY <1>9, <1>10 DEF PutOpen


LEMMA SizeTakenRange ==
  ASSUME Connections, NEW c \in Conns, sock[c].taken <= sock[c].body
  PROVE  /\ SizeTaken(c) \in Nat
         /\ SizeTaken(c) <= SizeBytes
         /\ sock[c].taken + SizeTaken(c) <= sock[c].body
         /\ info[c].size_read => SizeTaken(c) = 0
<1>1. sock[c].taken \in Nat /\ sock[c].body \in Nat
  BY DEF Connections, SockType
<1>2. sock[c].body - sock[c].taken \in Nat /\ SizeBytes \in Nat
  BY <1>1, BoundsAssumption
<1>3. /\ Least(sock[c].body - sock[c].taken, SizeBytes) \in Nat
      /\ Least(sock[c].body - sock[c].taken, SizeBytes)
           <= sock[c].body - sock[c].taken
      /\ Least(sock[c].body - sock[c].taken, SizeBytes) <= SizeBytes
  BY <1>2, LeastNat
<1>4. CASE info[c].size_read  BY <1>1, <1>2, <1>4 DEF SizeTaken
<1>5. CASE ~info[c].size_read  BY <1>1, <1>3, <1>5 DEF SizeTaken
<1> QED  BY <1>4, <1>5

LEMMA TypedReadSize ==
  ASSUME Tables, Connections, NEW c \in Conns, ReadSize(c),
         sock[c].taken <= sock[c].body
  PROVE  Tables' /\ Connections'
<1>1. Tables'  BY DEF ReadSize, Tables, store, routing
<1> DEFINE t == SizeTaken(c)
<1>2. t \in Nat  BY SizeTakenRange
<1>3. /\ info' = [info EXCEPT ![c].buffer_position = @ + t]
      /\ sock' = [sock EXCEPT ![c].taken = @ + t]
      /\ UNCHANGED req
  BY DEF ReadSize
<1> HIDE DEF t
<1>4. info[c] \in ClientInfo /\ sock[c] \in SockType  BY DEF Connections
<1>5. info' \in [Conns -> ClientInfo]
  BY <1>2, <1>3, <1>4 DEF Connections, ClientInfo
<1>6. sock' \in [Conns -> SockType]
  <2>1. [sock[c] EXCEPT !.taken = @ + t] \in SockType
    BY <1>2, <1>4 DEF SockType
  <2> QED  BY <1>3, <2>1 DEF Connections
<1>7. /\ info'[c].state = info[c].state
      /\ info'[c].action = info[c].action
      /\ info'[c].header = info[c].header
      /\ info'[c].local_file = info[c].local_file
  BY <1>3, <1>4 DEF Connections, ClientInfo
<1>8. ConnTyped(info'[c], req[c])  BY <1>7 DEF Connections, ConnTyped
<1>9. \A d \in Conns \ {c} : info'[d] = info[d]  BY <1>3 DEF Connections
<1>10. \A d \in Conns : ConnTyped(info'[d], req'[d])
  BY <1>3, <1>8, <1>9 DEF Connections
<1> QED  BY <1>1, <1>3, <1>5, <1>6, <1>10 DEF Connections

(* What one call of put() takes off the connection and where it goes.      *)
Start(c) == sock[c].taken + SizeTaken(c)
Need(c)  == req[c].size - info[c].local_file_pos
Chunk(c) == Least(sock[c].body - Start(c), Wanted(Need(c)))
Bytes(c) == Sent(c, Start(c) - SizeBytes + 1, Start(c) - SizeBytes + Chunk(c))
After(c) == [sock[c] EXCEPT !.taken = Start(c) + Chunk(c)]

Goes(c) ==
  /\ UNCHANGED req
  /\ sock' = [sock EXCEPT ![c] = After(c)]
  /\ info' = [info EXCEPT ![c].local_file_pos = @ + Chunk(c),
                          ![c].buffer_position = 0,
                          ![c].file_size = req[c].size,
                          ![c].size_read = TRUE]

LEMMA ReadDataCases ==
  ASSUME NEW c \in Conns, ReadData(c)
  PROVE  /\ Uploading(c) /\ SizeComplete(c)
         /\ data' = IF info[c].local_file = -1 THEN data
                    ELSE [data EXCEPT ![info[c].local_file] =
                            WriteAt(@, info[c].local_file_pos, Bytes(c))]
         /\ \/ Finish(c, "DONE", After(c))
            \/ Finish(c, "INCORRECT_DATA_AMOUNT", After(c))
            \/ Goes(c)
         /\ UNCHANGED <<process, req, files, dir, shared, unopened, routing, fds>>
BY DEF ReadData, Start, Need, Chunk, Bytes, After, Goes

LEMMA ChunkFacts ==
  ASSUME Connections, NEW c \in Conns, Registered(c),
         sock[c].taken <= sock[c].body
  PROVE  /\ Start(c) \in Nat /\ Start(c) >= sock[c].taken
         /\ Chunk(c) \in Nat /\ Start(c) + Chunk(c) <= sock[c].body
         /\ After(c) \in SockType
         /\ After(c).taken = Start(c) + Chunk(c)
         /\ After(c).body = sock[c].body
<1>1. sock[c] \in SockType /\ info[c] \in ClientInfo  BY DEF Connections
<1>2. sock[c].taken \in Nat /\ sock[c].body \in Nat  BY <1>1 DEF SockType
<1>3. Start(c) \in Nat /\ Start(c) >= sock[c].taken /\ Start(c) <= sock[c].body
  BY <1>2, SizeTakenRange DEF Start
<1>4. Need(c) \in Int  BY <1>1, RequestFacts DEF Need, ClientInfo
<1>5. Wanted(Need(c)) \in Nat  BY <1>4, WantedNat
<1>6. sock[c].body - Start(c) \in Nat  BY <1>2, <1>3
<1>7. Chunk(c) \in Nat /\ Chunk(c) <= sock[c].body - Start(c)
  BY <1>5, <1>6, LeastNat DEF Chunk
<1>8. Start(c) + Chunk(c) \in Nat  BY <1>3, <1>7
<1>9. /\ After(c) \in SockType
      /\ After(c).taken = Start(c) + Chunk(c)
      /\ After(c).body = sock[c].body
  BY <1>1, <1>8 DEF After, SockType
<1> QED  BY <1>2, <1>3, <1>7, <1>9


LEMMA TypedReadData ==
  ASSUME Tables, Connections, NEW c \in Conns, ReadData(c),
         sock[c].taken <= sock[c].body,
         ~info[c].size_read => Start(c) >= SizeBytes,
         info[c].size_read => sock[c].taken >= SizeBytes
  PROVE  Tables' /\ Connections'
<1>1. /\ Uploading(c)
      /\ data' = IF info[c].local_file = -1 THEN data
                 ELSE [data EXCEPT ![info[c].local_file] =
                         WriteAt(@, info[c].local_file_pos, Bytes(c))]
      /\ \/ Finish(c, "DONE", After(c))
         \/ Finish(c, "INCORRECT_DATA_AMOUNT", After(c))
         \/ Goes(c)
      /\ UNCHANGED <<process, req, files, dir, shared, unopened, routing, fds>>
  BY ReadDataCases
<1>2. /\ info[c] \in ClientInfo
      /\ info[c].state = "HANDLING_VERB" /\ info[c].action = "PUT"
      /\ info[c].local_file # 0
      /\ Registered(c)
  BY <1>1 DEF Uploading, Handling, Connections, Registered
<1>3. /\ Start(c) \in Nat /\ Start(c) >= SizeBytes
      /\ Chunk(c) \in Nat /\ After(c) \in SockType
  <2>1. /\ Start(c) \in Nat /\ Start(c) >= sock[c].taken
        /\ Chunk(c) \in Nat /\ After(c) \in SockType
    BY <1>2, ChunkFacts
  <2>2. sock[c].taken \in Nat /\ SizeBytes \in Nat
    BY BoundsAssumption DEF Connections, SockType
  <2> QED  BY <2>1, <2>2
<1>4. Bytes(c) \in Seq(Byte)
  <2>1. /\ Start(c) - SizeBytes + 1 \in Nat \ {0}
        /\ Start(c) - SizeBytes + Chunk(c) \in Int
        /\ Start(c) - SizeBytes + 1 <= Start(c) - SizeBytes + Chunk(c) + 1
    BY <1>3, BoundsAssumption
  <2> QED  BY <2>1, SentType DEF Bytes
<1>5. data' \in [Inodes -> Seq(Byte)]
  <2>1. info[c].local_file \in Inodes \cup {0, -1} /\ info[c].local_file_pos \in Nat
    BY <1>2 DEF ClientInfo
  <2>2. CASE info[c].local_file = -1  BY <1>1, <2>2 DEF Tables
  <2>3. CASE info[c].local_file # -1
    <3>1. info[c].local_file \in Inodes  BY <1>2, <2>1, <2>3
    <3>2. data[info[c].local_file] \in Seq(Byte)  BY <3>1 DEF Tables
    <3>3. WriteAt(data[info[c].local_file], info[c].local_file_pos, Bytes(c))
            \in Seq(Byte)
      BY <1>4, <2>1, <3>2, WriteAtType
    <3> QED  BY <1>1, <2>3, <3>1, <3>3 DEF Tables
  <2> QED  BY <2>2, <2>3
<1>6. Tables'  BY <1>1, <1>5 DEF Tables, routing
<1>7. ASSUME Goes(c) PROVE Connections'
  <2>1. req[c].size \in Nat  BY <1>2, RequestFacts
  <2> DEFINE k == Chunk(c)
  <2>2. /\ UNCHANGED req
        /\ sock' = [sock EXCEPT ![c] = After(c)]
        /\ info' = [info EXCEPT ![c].local_file_pos = @ + k,
                                ![c].buffer_position = 0,
                                ![c].file_size = req[c].size,
                                ![c].size_read = TRUE]
    BY <1>7 DEF Goes
  <2>3. k \in Nat  BY <1>3
  <2> HIDE DEF k
  <2>4. info' \in [Conns -> ClientInfo]
    <3> DEFINE pos == info[c].local_file_pos + k
               new == [info[c] EXCEPT !.local_file_pos = pos,
                                      !.buffer_position = 0,
                                      !.file_size = req[c].size,
                                      !.size_read = TRUE]
    <3>1. pos \in Nat  BY <1>2, <2>3 DEF ClientInfo
    <3>2. info' = [info EXCEPT ![c] = new]  BY <1>2, <2>2 DEF Connections
    <3> HIDE DEF pos
    <3>3. new \in ClientInfo  BY <1>2, <2>1, <3>1 DEF ClientInfo
    <3> QED  BY <3>2, <3>3 DEF Connections
  <2>5. /\ info'[c].state = info[c].state
        /\ info'[c].action = info[c].action
        /\ info'[c].header = info[c].header
        /\ info'[c].local_file = info[c].local_file
    BY <1>2, <2>2 DEF Connections, ClientInfo
  <2>6. ConnTyped(info'[c], req[c])  BY <2>5 DEF Connections, ConnTyped
  <2>7. \A d \in Conns \ {c} : info'[d] = info[d]  BY <2>2 DEF Connections
  <2>8. \A d \in Conns : ConnTyped(info'[d], req'[d])
    BY <2>2, <2>6, <2>7 DEF Connections
  <2>9. sock' \in [Conns -> SockType]  BY <1>3, <2>2 DEF Connections
  <2> QED  BY <2>2, <2>4, <2>8, <2>9 DEF Connections
<1>8. UNCHANGED req  BY <1>1
<1> QED  BY <1>1, <1>3, <1>6, <1>7, <1>8, FinishTyped DEF Finals

LEMMA TypedDelete ==
  ASSUME Tables, Connections, NEW c \in Conns, Delete(c)
  PROVE  Tables' /\ Connections'
<1>1. CASE DeleteFile(c)
  <2>1. <<<<"OK">>>> \in Seq(Messages)  BY MessageFacts, ShortSequences
  <2>2. /\ Finish(c, "DONE", Reply(c, <<<<"OK">>>>))
        /\ dir' = [dir EXCEPT ![info[c].header] = None]
        /\ unopened' = unopened \ {info[c].header}
        /\ UNCHANGED <<process, req, data, shared, routing, fds>>
    BY <1>1 DEF DeleteFile
  <2>3. Connections'
    BY <2>1, <2>2, ReplyFacts, FinishTyped DEF Finals, Connections
  <2>4. PICK p \in DOMAIN files : files' = RemoveAt(files, p)
    BY <1>1 DEF DeleteFile
  <2>5. files' \in Seq(Names)  BY <2>4, RemoveAtFacts DEF Tables
  <2>6. dir' \in [Names -> Inodes \cup {None}]  BY <2>2 DEF Tables
  <2> QED  BY <2>2, <2>3, <2>5, <2>6 DEF Tables, routing
<1>2. CASE DeleteMissing(c)
  <2>1. Tables' /\ UNCHANGED req
    BY <1>2 DEF DeleteMissing, Tables, store, routing
  <2>2. Finish(c, "INVALID_FILE", sock[c])  BY <1>2 DEF DeleteMissing
  <2> QED  BY <2>1, <2>2, FinishTyped DEF Finals, Connections
<1> QED  BY <1>1, <1>2 DEF Delete

LEMMA TypedListFiles ==
  ASSUME Tables, Connections, NEW c \in Conns, ListFiles(c)
  PROVE  Tables' /\ Connections'
<1> DEFINE listing == ToSet(files) \cup {n \in Names : file_to_server[n] # None}
<1>1. Tables' /\ UNCHANGED req  BY DEF ListFiles, Tables, store, routing
<1>2. listing \in SUBSET Names  BY DEF Tables, ToSet
<1>3. \/ Finish(c, "DONE", Reply(c, <<<<"OK">>, <<"LISTING", listing>>>>))
      \/ Finish(c, "INCORRECT_DATA_AMOUNT", Reply(c, <<<<"OK">>>>))
  BY DEF ListFiles
<1> HIDE DEF listing
<1>4. /\ <<<<"OK">>, <<"LISTING", listing>>>> \in Seq(Messages)
      /\ <<<<"OK">>>> \in Seq(Messages)
  BY <1>2, MessageFacts, ShortSequences
<1> QED  BY <1>1, <1>3, <1>4, ReplyFacts, FinishTyped DEF Finals, Connections

LEMMA TypedAddServer ==
  ASSUME Tables, Connections, NEW c \in Conns, AddServer(c)
  PROVE  Tables' /\ Connections'
<1>1. info[c].header \in Subs
  BY DEF AddServer, Handling, Connections, ConnTyped
<1>2. PICK listed \in SUBSET Names :
        file_to_server' = [n \in Names |-> IF n \in listed THEN info[c].header
                                           ELSE file_to_server[n]]
  BY DEF AddServer
<1>3. file_to_server' \in [Names -> Subs \cup {None}]
  BY <1>1, <1>2 DEF Tables
<1>4. /\ mini_servers' = Append(mini_servers, info[c].header)
      /\ Finish(c, "DONE", Reply(c, <<<<"OK">>>>))
      /\ UNCHANGED <<process, req, store, current_server_index, fds>>
  BY DEF AddServer, Register
<1>5. mini_servers' \in Seq(Subs) /\ Len(mini_servers') = Len(mini_servers) + 1
  BY <1>1, <1>4, AppendProperties DEF Tables
<1>6. current_server_index' \in 0..Len(mini_servers')
  BY <1>4, <1>5 DEF Tables
<1>7. Tables'  BY <1>3, <1>4, <1>5, <1>6 DEF Tables, store
<1>8. <<<<"OK">>>> \in Seq(Messages)  BY MessageFacts, ShortSequences
<1> QED  BY <1>4, <1>7, <1>8, ReplyFacts, FinishTyped DEF Finals, Connections


(* The end of the process, and its start. *)
LEMMA TypedLose ==
  ASSUME Tables, Connections, Lose, process' \in {"stopped", "exited"}
  PROVE  Tables' /\ Connections'
<1>1. Client("LOST") \in ClientInfo /\ Client("LOST").state = "LOST"
  <2>1. "LOST" \in States  BY DEF States
  <2> QED  BY <2>1, ClientType DEF Client
<1>2. info' \in [Conns -> ClientInfo]  BY <1>1 DEF Lose, Connections
<1>3. \A d \in Conns : info'[d] = Client("LOST") \/ info'[d] = info[d]
  BY DEF Lose
<1>4. UNCHANGED <<req, sock, dir, data, shared, unopened>>  BY DEF Lose, peers
<1>5. \A d \in Conns : ConnTyped(info'[d], req'[d])
  BY <1>1, <1>3, <1>4 DEF Connections, ConnTyped
<1>6. Connections'  BY <1>2, <1>4, <1>5 DEF Connections
<1>7. /\ files' = <<>> /\ mini_servers' = <<>>
      /\ file_to_server' = [n \in Names |-> None]
      /\ current_server_index' = 0 /\ fds' = 0
  BY DEF Lose
<1>8. files' \in Seq(Names) /\ mini_servers' \in Seq(Subs) /\ Len(mini_servers') = 0
  BY <1>7
<1> QED  BY <1>4, <1>6, <1>7, <1>8, BoundsAssumption DEF Tables

LEMMA TypedAccept ==
  ASSUME Tables, Connections, NEW c \in Conns, NEW r \in Requests, Accept(c, r)
  PROVE  Tables' /\ Connections'
<1>1. /\ Client("READING_VERB") \in ClientInfo
      /\ Client("READING_VERB").state = "READING_VERB"
      /\ Client("READING_VERB").local_file = 0
  <2>1. "READING_VERB" \in States  BY DEF States
  <2> QED  BY <2>1, ClientType DEF Client
<1>2. /\ fds < FdLimit /\ fds' = fds + 1
      /\ info' = [info EXCEPT ![c] = Client("READING_VERB")]
      /\ req' = [req EXCEPT ![c] = r]
      /\ UNCHANGED <<process, sock, files, dir, data, shared, unopened, routing>>
  BY DEF Accept, store
<1>3. fds' \in 0..FdLimit  BY <1>2, BoundsAssumption DEF Tables
<1>4. Tables'  BY <1>2, <1>3 DEF Tables, routing
<1>5. /\ info' \in [Conns -> ClientInfo]
      /\ req' \in [Conns -> Requests \cup {None}]
      /\ sock' \in [Conns -> SockType]
  BY <1>1, <1>2 DEF Connections
<1>6. ConnTyped(info'[c], req'[c])
  BY <1>1, <1>2 DEF ConnTyped, Connections
<1>7. \A d \in Conns \ {c} : info'[d] = info[d] /\ req'[d] = req[d]
  BY <1>2 DEF Connections
<1> QED  BY <1>4, <1>5, <1>6, <1>7 DEF Connections

LEMMA TypedRestart ==
  ASSUME Tables, Connections, Restart
  PROVE  Tables' /\ Connections'
<1>1. Present \in SUBSET Names  BY DEF Present
<1>2. files' \in Seq(Names)  BY <1>1, ScrapeFacts DEF Restart
<1>3. /\ process' = "running" /\ unopened' = {}
      /\ UNCHANGED <<info, req, sock, dir, data, shared, routing, fds>>
  BY DEF Restart, peers
<1>4. Tables'  BY <1>2, <1>3 DEF Tables, routing
<1> QED  BY <1>3, <1>4 DEF Connections

LEMMA TypedPeer ==
  ASSUME Tables, Connections, NEW c \in Conns, Peer(c)
  PROVE  Tables' /\ Connections'
<1>1. UNCHANGED <<process, info, req, store, routing, fds>>  BY DEF Peer
<1>2. Tables'  BY <1>1 DEF Tables, store, routing
<1>3. sock[c] \in SockType  BY DEF Connections
<1>4. CASE SendHead(c)
  <2>1. sock[c].head < 2 /\ sock' = [sock EXCEPT ![c].head = @ + 1]
    BY <1>3, <1>4 DEF SendHead, Pieces, SockType
  <2>2. [sock[c] EXCEPT !.head = @ + 1] \in SockType  BY <1>3, <2>1 DEF SockType
  <2> QED  BY <2>1, <2>2, <1>1, <1>2 DEF Connections
<1>5. CASE SendBody(c)
  <2>1. sock' = [sock EXCEPT ![c].body = @ + 1]  BY <1>5 DEF SendBody
  <2>2. [sock[c] EXCEPT !.body = @ + 1] \in SockType  BY <1>3 DEF SockType
  <2> QED  BY <2>1, <2>2, <1>1, <1>2 DEF Connections
<1>6. CASE PeerEnds(c)
  <2>1. PICK x \in {"fin", "rst"} : sock' = [sock EXCEPT ![c].fin = x]
    BY <1>6 DEF PeerEnds
  <2>2. [sock[c] EXCEPT !.fin = x] \in SockType  BY <1>3 DEF SockType
  <2> QED  BY <2>1, <2>2, <1>1, <1>2 DEF Connections
<1> QED  BY <1>4, <1>5, <1>6 DEF Peer


-----------------------------------------------------------------------------
(* How far each upload has got, and with it the inductive invariant.       *)

ConnProgress(i, s) ==
  LET uploading == i.state = "HANDLING_VERB" /\ i.action = "PUT" /\ i.local_file # 0
  IN /\ s.taken <= s.body
     /\ uploading =>
          IF i.size_read
          THEN s.taken - SizeBytes - i.local_file_pos \in 0..(SizeBytes - 1)
          ELSE /\ i.buffer_position = s.taken
               /\ s.taken < SizeBytes
               /\ i.local_file_pos = 0
     /\ i.state \notin {"REMOVED", "LOST"} /\ ~uploading =>
          /\ s.taken = 0
          /\ i.local_file = 0
          /\ i.local_file_pos = 0
          /\ i.buffer_position = 0
          /\ ~i.size_read

LEMMA ProgressParts ==
  UploadProgress <=> \A c \in Conns : ConnProgress(info[c], sock[c])
BY DEF UploadProgress, ConnProgress, Uploading, Handling

LEMMA ProgressPartsNext ==
  UploadProgress' <=> \A c \in Conns : ConnProgress(info'[c], sock'[c])
BY DEF UploadProgress, ConnProgress, Uploading, Handling

LEMMA ProgressInit == Init => UploadProgress
BY DEF Init, UploadProgress, Uploading, Handling, Client, NewSock

(* A connection that is finished with progresses no further. *)
LEMMA FinishProgress ==
  ASSUME Connections, UploadProgress, NEW c \in Conns, NEW st \in Finals,
         NEW s \in SockType, s.taken <= s.body, Finish(c, st, s)
  PROVE  UploadProgress'
<1>1. /\ info'[c].state = "REMOVED"
      /\ sock'[c].taken = s.taken
      /\ sock'[c].body = s.body
      /\ \A d \in Conns \ {c} : info'[d] = info[d] /\ sock'[d] = sock[d]
  BY FinishFacts DEF Connections
<1>2. ConnProgress(info'[c], sock'[c])  BY <1>1 DEF ConnProgress
<1>3. \A d \in Conns : ConnProgress(info[d], sock[d])  BY ProgressParts
<1> QED  BY <1>1, <1>2, <1>3, ProgressPartsNext

(* Handlers that finish with the connection after writing to it. *)
LEMMA ReplyProgress ==
  ASSUME Connections, UploadProgress, NEW c \in Conns, NEW st \in Finals,
         NEW msgs \in Seq(Messages), Finish(c, st, Reply(c, msgs))
  PROVE  UploadProgress'
<1>1. sock \in [Conns -> SockType] /\ sock[c].taken <= sock[c].body
  BY DEF Connections, UploadProgress
<1>2. Reply(c, msgs) \in SockType /\ Reply(c, msgs).taken <= Reply(c, msgs).body
  BY <1>1, ReplyFacts
<1> QED  BY <1>2, FinishProgress

LEMMA ProgressPutOpen ==
  ASSUME Tables, Connections, UploadProgress, NEW c \in Conns, PutOpen(c)
  PROVE  UploadProgress'
<1>1. /\ info[c] \in ClientInfo
      /\ info[c].state = "HANDLING_VERB" /\ info[c].action = "PUT"
      /\ info[c].local_file = 0
  BY DEF PutOpen, Handling, Connections
<1>2. /\ sock[c].taken = 0 /\ sock[c].taken <= sock[c].body
      /\ info[c].local_file_pos = 0
      /\ info[c].buffer_position = 0
      /\ ~info[c].size_read
  BY <1>1 DEF UploadProgress, Uploading
<1>3. sock'[c].taken = 0 /\ sock'[c].body = sock[c].body
  <2>1. <<<<"HERE">>>> \in Seq(Messages)  BY MessageFacts, ShortSequences
  <2>2. sock' = [sock EXCEPT ![c] = Reply(c, <<<<"HERE">>>>)]  BY DEF PutOpen
  <2> QED  BY <1>2, <2>1, <2>2, ReplyFacts DEF Connections
<1>4. PICK fd : info' = [info EXCEPT ![c].local_file = fd, ![c].header = None]
  BY DEF PutOpen
<1>5. /\ info'[c].size_read = info[c].size_read
      /\ info'[c].buffer_position = info[c].buffer_position
      /\ info'[c].local_file_pos = info[c].local_file_pos
      /\ info'[c].state = "HANDLING_VERB"
      /\ info'[c].action = "PUT"
      /\ info'[c].local_file = fd
  BY <1>1, <1>4 DEF Connections, ClientInfo
<1>6. ~(fd = 0)
  <2>1. OpenInode(info[c].header, c) \in Inodes
    BY <1>1, OpenInodeType DEF Connections, ConnTyped, Tables
  <2>2. fd \in {OpenInode(info[c].header, c), -1}
    <3>1. \E x \in {OpenInode(info[c].header, c), -1} :
            info' = [info EXCEPT ![c].local_file = x, ![c].header = None]
      BY DEF PutOpen
    <3>2. PICK x \in {OpenInode(info[c].header, c), -1} :
            info' = [info EXCEPT ![c].local_file = x, ![c].header = None]
      BY <3>1
    <3>3. info'[c].local_file = x
      BY <1>1, <3>2 DEF Connections, ClientInfo
    <3> QED  BY <1>5, <3>2, <3>3
  <2> QED  BY <2>1, <2>2, ValuesAssumption
<1>7. ConnProgress(info'[c], sock'[c])
  BY <1>2, <1>3, <1>5, <1>6, BoundsAssumption DEF ConnProgress
<1>8. \A d \in Conns \ {c} : info'[d] = info[d] /\ sock'[d] = sock[d]
  BY <1>4 DEF PutOpen, Connections
<1>9. \A d \in Conns : ConnProgress(info[d], sock[d])  BY ProgressParts
<1> QED  BY <1>7, <1>8, <1>9, ProgressPartsNext


LEMMA ProgressReadSize ==
  ASSUME Connections, UploadProgress, NEW c \in Conns, ReadSize(c)
  PROVE  UploadProgress'
<1> DEFINE t == SizeTaken(c)
<1>1. /\ info[c] \in ClientInfo /\ sock[c] \in SockType
      /\ Uploading(c) /\ ~SizeComplete(c)
  BY DEF Connections, ReadSize
<1>2. /\ ~info[c].size_read
      /\ sock[c].taken <= sock[c].body
      /\ info[c].buffer_position = sock[c].taken
      /\ info[c].local_file_pos = 0
  BY <1>1 DEF UploadProgress, SizeComplete
<1>3. t \in Nat /\ sock[c].taken + t <= sock[c].body
  BY <1>2, SizeTakenRange
<1>4. info[c].buffer_position + t < SizeBytes
  <2>1. ~(info[c].buffer_position + t >= SizeBytes)
    BY <1>1 DEF SizeComplete
  <2>2. info[c].buffer_position \in Nat /\ SizeBytes \in Nat
    BY <1>1, BoundsAssumption DEF ClientInfo
  <2> QED  BY <1>3, <2>1, <2>2
<1>5. /\ info' = [info EXCEPT ![c].buffer_position = @ + t]
      /\ sock' = [sock EXCEPT ![c].taken = @ + t]
  BY DEF ReadSize
<1> HIDE DEF t
<1>6. /\ info'[c].state = info[c].state
      /\ info'[c].action = info[c].action
      /\ info'[c].local_file = info[c].local_file
      /\ info'[c].local_file_pos = info[c].local_file_pos
      /\ info'[c].size_read = info[c].size_read
      /\ info'[c].buffer_position = info[c].buffer_position + t
      /\ sock'[c].taken = sock[c].taken + t
      /\ sock'[c].body = sock[c].body
  BY <1>1, <1>5 DEF Connections, ClientInfo, SockType
<1>7. ConnProgress(info'[c], sock'[c])
  BY <1>1, <1>2, <1>3, <1>4, <1>6 DEF ConnProgress, Uploading, Handling
<1>8. \A d \in Conns \ {c} : info'[d] = info[d] /\ sock'[d] = sock[d]
  BY <1>5 DEF Connections
<1>9. \A d \in Conns : ConnProgress(info[d], sock[d])  BY ProgressParts
<1> QED  BY <1>7, <1>8, <1>9, ProgressPartsNext

(* Where the data of a call starts: after the size, by less than the size  *)
(* field is long, and ahead of the disk by just as much from then on.      *)
LEMMA StartFacts ==
  ASSUME Connections, UploadProgress, NEW c \in Conns, Uploading(c),
         SizeComplete(c)
  PROVE  /\ Start(c) \in Nat
         /\ Start(c) >= SizeBytes
         /\ Start(c) - SizeBytes - info[c].local_file_pos \in 0..(SizeBytes - 1)
         /\ info[c].size_read => sock[c].taken >= SizeBytes
<1>1. info[c] \in ClientInfo /\ sock[c] \in SockType  BY DEF Connections
<1>2. /\ sock[c].taken \in Nat /\ info[c].local_file_pos \in Nat
      /\ info[c].buffer_position \in Nat
      /\ sock[c].taken <= sock[c].body
      /\ SizeBytes \in Nat \ {0}
  BY <1>1, BoundsAssumption DEF ClientInfo, SockType, UploadProgress
<1>3. /\ SizeTaken(c) \in Nat /\ SizeTaken(c) <= SizeBytes
      /\ info[c].size_read => SizeTaken(c) = 0
  BY <1>2, SizeTakenRange
<1>4. CASE info[c].size_read
  <2>1. sock[c].taken - SizeBytes - info[c].local_file_pos \in 0..(SizeBytes - 1)
    BY <1>4 DEF UploadProgress
  <2>2. Start(c) = sock[c].taken  BY <1>2, <1>3, <1>4 DEF Start
  <2>3. sock[c].taken >= SizeBytes  BY <1>2, <2>1
  <2> QED  BY <1>2, <2>1, <2>2, <2>3
<1>5. CASE ~info[c].size_read
  <2>1. /\ info[c].buffer_position = sock[c].taken
        /\ sock[c].taken < SizeBytes
        /\ info[c].local_file_pos = 0
    BY <1>5 DEF UploadProgress
  <2>2. info[c].buffer_position + SizeTaken(c) >= SizeBytes
    BY <1>5 DEF SizeComplete
  <2>3. Start(c) = sock[c].taken + SizeTaken(c)  BY DEF Start
  <2> QED  BY <1>2, <1>3, <1>5, <2>1, <2>2, <2>3
<1> QED  BY <1>4, <1>5

LEMMA ProgressReadData ==
  ASSUME Connections, UploadProgress, NEW c \in Conns, ReadData(c)
  PROVE  UploadProgress'
<1>1. /\ Uploading(c) /\ SizeComplete(c)
      /\ \/ Finish(c, "DONE", After(c))
         \/ Finish(c, "INCORRECT_DATA_AMOUNT", After(c))
         \/ Goes(c)
  BY ReadDataCases
<1>2. info[c] \in ClientInfo /\ sock[c].taken <= sock[c].body
  BY DEF Connections, UploadProgress
<1>3. Registered(c)  BY <1>1 DEF Uploading, Handling, Registered
<1>4. /\ Start(c) \in Nat
      /\ Chunk(c) \in Nat /\ Start(c) + Chunk(c) <= sock[c].body
      /\ After(c) \in SockType
      /\ After(c).taken = Start(c) + Chunk(c)
      /\ After(c).body = sock[c].body
  BY <1>2, <1>3, ChunkFacts
<1>5. Start(c) - SizeBytes - info[c].local_file_pos \in 0..(SizeBytes - 1)
  BY <1>1, StartFacts
<1>6. CASE Finish(c, "DONE", After(c)) \/ Finish(c, "INCORRECT_DATA_AMOUNT", After(c))
  BY <1>4, <1>6, FinishProgress DEF Finals
<1>7. CASE Goes(c)
  <2> DEFINE k == Chunk(c)
             a == Start(c)
  <2>1. /\ sock' = [sock EXCEPT ![c] = After(c)]
        /\ info' = [info EXCEPT ![c].local_file_pos = @ + k,
                                ![c].buffer_position = 0,
                                ![c].file_size = req[c].size,
                                ![c].size_read = TRUE]
    BY <1>7 DEF Goes
  <2>2. /\ k \in Nat /\ a \in Nat /\ After(c).taken = a + k
        /\ a - SizeBytes - info[c].local_file_pos \in 0..(SizeBytes - 1)
    BY <1>4, <1>5
  <2> HIDE DEF k, a
  <2>3. /\ info'[c].state = info[c].state
        /\ info'[c].action = info[c].action
        /\ info'[c].local_file = info[c].local_file
        /\ info'[c].local_file_pos = info[c].local_file_pos + k
        /\ info'[c].size_read
    BY <1>2, <2>1 DEF Connections, ClientInfo
  <2>4. sock'[c] = After(c)  BY <2>1 DEF Connections
  <2>5. info[c].local_file_pos \in Nat /\ SizeBytes \in Nat
    BY <1>2, BoundsAssumption DEF ClientInfo
  <2>6. (a + k) - SizeBytes - (info[c].local_file_pos + k)
          = a - SizeBytes - info[c].local_file_pos
    BY <2>2, <2>5
  <2>7. sock'[c].taken - SizeBytes - info'[c].local_file_pos \in 0..(SizeBytes - 1)
    BY <2>2, <2>3, <2>4, <2>6
  <2>8. sock'[c].taken <= sock'[c].body  BY <1>4, <2>4
  <2>9. ConnProgress(info'[c], sock'[c])
    BY <1>1, <2>3, <2>7, <2>8 DEF ConnProgress, Uploading, Handling
  <2>10. \A d \in Conns \ {c} : info'[d] = info[d] /\ sock'[d] = sock[d]
    BY <2>1 DEF Connections
  <2>11. \A d \in Conns : ConnProgress(info[d], sock[d])  BY ProgressParts
  <2> QED  BY <2>9, <2>10, <2>11, ProgressPartsNext
<1> QED  BY <1>1, <1>6, <1>7

LEMMA ProgressHeader ==
  ASSUME Connections, UploadProgress, NEW c \in Conns,
         ParseVerb(c) \/ ReadFileName(c)
  PROVE  UploadProgress'
<1>1. info[c] \in ClientInfo /\ sock[c] \in SockType
  BY DEF Connections
<1>2. sock[c].taken <= sock[c].body  BY DEF UploadProgress
<1>3. ASSUME NEW st \in Finals, Finish(c, st, sock[c]) PROVE UploadProgress'
  BY <1>1, <1>2, <1>3, FinishProgress
<1>4. /\ sock[c].taken = 0
      /\ info[c].local_file = 0
      /\ info[c].local_file_pos = 0
      /\ info[c].buffer_position = 0
      /\ ~info[c].size_read
  BY DEF ParseVerb, ReadFileName, UploadProgress, Uploading, Handling
<1>5. ASSUME UNCHANGED sock,
             \/ \E v, st : info' = [info EXCEPT ![c].action = v, ![c].state = st]
             \/ \E h, st : info' = [info EXCEPT ![c].header = h, ![c].state = st]
      PROVE  UploadProgress'
  <2>1. /\ info'[c].local_file = info[c].local_file
        /\ info'[c].local_file_pos = info[c].local_file_pos
        /\ info'[c].buffer_position = info[c].buffer_position
        /\ info'[c].size_read = info[c].size_read
        /\ \A d \in Conns \ {c} : info'[d] = info[d]
    <3>1. ASSUME NEW v, NEW st,
                 info' = [info EXCEPT ![c].action = v, ![c].state = st]
          PROVE  <2>1!:
      BY <1>1, <3>1 DEF Connections, ClientInfo
    <3>2. ASSUME NEW h, NEW st,
                 info' = [info EXCEPT ![c].header = h, ![c].state = st]
          PROVE  <2>1!:
      BY <1>1, <3>2 DEF Connections, ClientInfo
    <3> QED  BY <1>5, <3>1, <3>2
  <2>2. ConnProgress(info'[c], sock'[c])
    BY <1>2, <1>4, <1>5, <2>1 DEF ConnProgress
  <2>3. \A d \in Conns : ConnProgress(info[d], sock[d])  BY ProgressParts
  <2> QED  BY <1>5, <2>1, <2>2, <2>3, ProgressPartsNext
<1>6. CASE ParseVerb(c)  BY <1>3, <1>5, <1>6 DEF ParseVerb, Finals
<1>7. CASE ReadFileName(c)  BY <1>3, <1>5, <1>7 DEF ReadFileName, Finals
<1> QED  BY <1>6, <1>7


LEMMA ProgressPeer ==
  ASSUME Connections, UploadProgress, NEW c \in Conns, Peer(c)
  PROVE  UploadProgress'
<1>1. sock[c] \in SockType /\ UNCHANGED info  BY DEF Connections, Peer
<1>2. /\ sock'[c].taken = sock[c].taken
      /\ sock'[c].body \in {sock[c].body, sock[c].body + 1}
      /\ \A d \in Conns \ {c} : sock'[d] = sock[d]
  <2>1. CASE SendHead(c)  BY <1>1, <2>1 DEF SendHead, Connections, SockType
  <2>2. CASE SendBody(c)  BY <1>1, <2>2 DEF SendBody, Connections, SockType
  <2>3. CASE PeerEnds(c)  BY <1>1, <2>3 DEF PeerEnds, Connections, SockType
  <2> QED  BY <2>1, <2>2, <2>3 DEF Peer
<1>3. sock[c].taken \in Nat /\ sock[c].body \in Nat  BY <1>1 DEF SockType
<1>4. \A d \in Conns : ConnProgress(info[d], sock[d])  BY ProgressParts
<1>5. ConnProgress(info'[c], sock'[c])
  BY <1>1, <1>2, <1>3, <1>4 DEF ConnProgress
<1> QED  BY <1>1, <1>2, <1>4, <1>5, ProgressPartsNext

LEMMA ProgressAccept ==
  ASSUME Connections, UploadProgress, NEW c \in Conns, NEW r \in Requests,
         Accept(c, r)
  PROVE  UploadProgress'
<1>1. /\ info[c].state = "NONE"
      /\ info' = [info EXCEPT ![c] = Client("READING_VERB")]
      /\ UNCHANGED sock
  BY DEF Accept
<1>2. sock[c].taken = 0 /\ sock[c].taken <= sock[c].body
  BY <1>1 DEF UploadProgress, Uploading, Handling
<1>3. ConnProgress(info'[c], sock'[c])
  BY <1>1, <1>2 DEF ConnProgress, Client, Connections
<1>4. \A d \in Conns \ {c} : info'[d] = info[d]  BY <1>1 DEF Connections
<1>5. \A d \in Conns : ConnProgress(info[d], sock[d])  BY ProgressParts
<1> QED  BY <1>1, <1>3, <1>4, <1>5, ProgressPartsNext

LEMMA ProgressLose ==
  ASSUME Connections, UploadProgress, Lose
  PROVE  UploadProgress'
<1>1. UNCHANGED sock  BY DEF Lose, peers
<1>2. \A d \in Conns : info'[d] = Client("LOST") \/ info'[d] = info[d]
  BY DEF Lose
<1>3. \A d \in Conns : ConnProgress(info[d], sock[d])  BY ProgressParts
<1>4. \A d \in Conns : ConnProgress(info'[d], sock'[d])
  BY <1>1, <1>2, <1>3 DEF ConnProgress, Client
<1> QED  BY <1>4, ProgressPartsNext

(* The handlers that answer and finish.                                    *)
LEMMA ProgressAnswer ==
  ASSUME Tables, Connections, UploadProgress, NEW c \in Conns,
         \/ Get(c) \/ PutRedirect(c) \/ Delete(c) \/ ListFiles(c) \/ AddServer(c)
  PROVE  UploadProgress'
<1> DEFINE n == info[c].header
<1>1. "DONE" \in Finals /\ "INVALID_FILE" \in Finals  BY DEF Finals
<1>2. <<<<"OK">>>> \in Seq(Messages) /\ <<<<"NO_SUCH_FILE">>>> \in Seq(Messages)
  BY MessageFacts, ShortSequences
<1>3. <<<<"OK">>, <<"HERE">>>> \in Seq(Messages)
  BY MessageFacts, ShortSequences
<1>4. ASSUME GetLocal(c) PROVE UploadProgress'
  <2>1. n \in Names  BY <1>4 DEF GetLocal, Handling, Connections, ConnTyped
  <2> HIDE DEF n
  <2>2. ASSUME dir[n] # None,
               Finish(c, "DONE", Reply(c, <<<<"OK">>, <<"HERE">>>> \o
                <<<<"SIZE", Len(data[dir[n]])>>, <<"DATA", data[dir[n]]>>>>))
        PROVE  UploadProgress'
    <3>1. data[dir[n]] \in Seq(Byte)  BY <2>1, <2>2 DEF Tables
    <3>2. Len(data[dir[n]]) \in Nat  BY <3>1
    <3>3. <<<<"SIZE", Len(data[dir[n]])>>, <<"DATA", data[dir[n]]>>>>
            \in Seq(Messages)
      BY <3>1, <3>2, MessageFacts, ShortSequences
    <3> QED  BY <1>1, <1>3, <2>2, <3>3, ConcatProperties, ReplyProgress
  <2>3. ASSUME Finish(c, "DONE",
                      Reply(c, Append(<<<<"OK">>, <<"HERE">>>>, <<"ANY_SIZE">>)))
        PROVE  UploadProgress'
    <3>1. <<"ANY_SIZE">> \in Messages  BY MessageFacts
    <3> QED  BY <1>1, <1>3, <2>3, <3>1, AppendProperties, ReplyProgress
  <2>4. ASSUME Finish(c, "INCORRECT_DATA_AMOUNT", Reply(c, <<<<"OK">>, <<"HERE">>>>))
        PROVE  UploadProgress'
    <3>1. "INCORRECT_DATA_AMOUNT" \in Finals  BY DEF Finals
    <3> QED  BY <1>3, <2>4, <3>1, ReplyProgress
  <2> QED  BY <1>4, <2>2, <2>3, <2>4 DEF GetLocal, n
<1>5. ASSUME GetRedirect(c) PROVE UploadProgress'
  <2>1. file_to_server[n] \in Subs
    BY <1>5 DEF GetRedirect, Handling, Connections, ConnTyped, Tables
  <2>2. <<<<"OK">>, <<"REDIRECT", file_to_server[n]>>>> \in Seq(Messages)
    BY <2>1, MessageFacts, ShortSequences
  <2> QED  BY <1>1, <1>5, <2>2, ReplyProgress DEF GetRedirect
<1>6. ASSUME GetMissing(c) PROVE UploadProgress'
  BY <1>1, <1>2, <1>6, ReplyProgress DEF GetMissing
<1>7. ASSUME PutRedirect(c) PROVE UploadProgress'
  <2> DEFINE target == mini_servers[current_server_index]
  <2>1. target \in Subs  BY <1>7 DEF PutRedirect, OwnTurn, Tables
  <2>2. Finish(c, "DONE", Reply(c, <<<<"REDIRECT", target>>>>))
    BY <1>7 DEF PutRedirect
  <2> HIDE DEF target
  <2>3. <<<<"REDIRECT", target>>>> \in Seq(Messages)
    BY <2>1, MessageFacts, ShortSequences
  <2> QED  BY <1>1, <2>2, <2>3, ReplyProgress
<1>8. ASSUME DeleteFile(c) PROVE UploadProgress'
  BY <1>1, <1>2, <1>8, ReplyProgress DEF DeleteFile
<1>9. ASSUME DeleteMissing(c) PROVE UploadProgress'
  <2>1. sock[c] \in SockType /\ sock[c].taken <= sock[c].body
    BY DEF Connections, UploadProgress
  <2> QED  BY <1>1, <1>9, <2>1, FinishProgress DEF DeleteMissing
<1>10. ASSUME ListFiles(c) PROVE UploadProgress'
  <2> DEFINE listing ==
        ToSet(files) \cup {m \in Names : file_to_server[m] # None}
  <2>1. listing \in SUBSET Names  BY DEF Tables, ToSet
  <2>2. \/ Finish(c, "DONE", Reply(c, <<<<"OK">>, <<"LISTING", listing>>>>))
        \/ Finish(c, "INCORRECT_DATA_AMOUNT", Reply(c, <<<<"OK">>>>))
    BY <1>10 DEF ListFiles
  <2> HIDE DEF listing
  <2>3. <<<<"OK">>, <<"LISTING", listing>>>> \in Seq(Messages)
    BY <2>1, MessageFacts, ShortSequences
  <2>4. "INCORRECT_DATA_AMOUNT" \in Finals  BY DEF Finals
  <2> QED  BY <1>1, <1>2, <2>2, <2>3, <2>4, ReplyProgress
<1>11. ASSUME AddServer(c) PROVE UploadProgress'
  BY <1>1, <1>2, <1>11, ReplyProgress DEF AddServer
<1> QED
  BY <1>4, <1>5, <1>6, <1>7, <1>8, <1>9, <1>10, <1>11 DEF Get, Delete

-----------------------------------------------------------------------------
(* The invariant of types, dispatch and progress.                          *)

Core == Tables /\ Connections /\ UploadProgress

LEMMA CoreInit == Init => Core
BY TypedInit, TypedParts, ProgressInit DEF Core

LEMMA CorePut ==
  ASSUME Core, NEW c \in Conns, Put(c) PROVE Core'
<1> USE DEF Core
<1>1. CASE PutRedirect(c)  BY <1>1, TypedPutRedirect, ProgressAnswer
<1>2. CASE PutOpen(c)  BY <1>2, TypedPutOpen, ProgressPutOpen
<1>3. CASE ReadSize(c)
  <2>1. sock[c].taken <= sock[c].body  BY DEF UploadProgress
  <2> QED  BY <1>3, <2>1, TypedReadSize, ProgressReadSize
<1>4. CASE ReadData(c)
  <2>1. sock[c].taken <= sock[c].body  BY DEF UploadProgress
  <2>2. Start(c) >= SizeBytes /\ (info[c].size_read => sock[c].taken >= SizeBytes)
    BY <1>4, ReadDataCases, StartFacts
  <2> QED  BY <1>4, <2>1, <2>2, TypedReadData, ProgressReadData
<1> QED  BY <1>1, <1>2, <1>3, <1>4 DEF Put

LEMMA CoreStep == Core /\ [Next]_vars => Core'
<1> SUFFICES ASSUME Core, [Next]_vars PROVE Core'  OBVIOUS
<1> USE DEF Core
<1>1. ASSUME NEW c \in Conns, NEW r \in Requests, Accept(c, r) PROVE Core'
  BY <1>1, TypedAccept, ProgressAccept
<1>2. ASSUME NEW c \in Conns, AcceptFails(c) PROVE Core'
  BY <1>2, TypedLose, ProgressLose DEF AcceptFails
<1>3. ASSUME NEW c \in Conns, Peer(c) PROVE Core'
  BY <1>3, TypedPeer, ProgressPeer
<1>4. ASSUME NEW c \in Conns, Event(c) PROVE Core'
  <2>1. CASE ParseVerb(c)  BY <2>1, TypedParseVerb, ProgressHeader
  <2>2. CASE ReadFileName(c)  BY <2>2, TypedReadFileName, ProgressHeader
  <2>3. CASE Get(c)  BY <2>3, TypedGet, ProgressAnswer
  <2>4. CASE Put(c)  BY <2>4, CorePut
  <2>5. CASE Delete(c)  BY <2>5, TypedDelete, ProgressAnswer
  <2>6. CASE ListFiles(c)  BY <2>6, TypedListFiles, ProgressAnswer
  <2>7. CASE AddServer(c)  BY <2>7, TypedAddServer, ProgressAnswer
  <2> QED  BY <1>4, <2>1, <2>2, <2>3, <2>4, <2>5, <2>6, <2>7 DEF Event
<1>5. CASE Stop  BY <1>5, TypedLose, ProgressLose DEF Stop
<1>6. CASE Restart
  <2>1. UploadProgress'
    BY <1>6 DEF Restart, peers, UploadProgress, Uploading, Handling
  <2> QED  BY <1>6, <2>1, TypedRestart
<1>7. CASE UNCHANGED vars
  BY <1>7 DEF vars, Tables, Connections, UploadProgress, Uploading, Handling
<1> QED  BY <1>1, <1>2, <1>3, <1>4, <1>5, <1>6, <1>7 DEF Next

LEMMA CoreInvariant == Spec => []Core
<1>1. Init => Core  BY CoreInit
<1>2. Core /\ [Next]_vars => Core'  BY CoreStep
<1> QED  BY <1>1, <1>2, PTL DEF Spec

(* The variables of a server process keep their types; in particular put() *)
(* never indexes mini_servers past its end, however registrations and      *)
(* uploads are ordered.                                                    *)
THEOREM TypeCorrect == Spec => []TypeOK
<1>1. Core => TypeOK  BY TypedParts DEF Core, Typed
<1> QED  BY <1>1, CoreInvariant, PTL

(* A handler only ever runs for the verb the peer sent, on the kind of     *)
(* header it takes for granted: the comment in the dispatch of main().     *)
THEOREM DispatchIsSound == Spec => []DispatchSound
<1>1. Core => DispatchSound  BY TypedParts DEF Core, Typed
<1> QED  BY <1>1, CoreInvariant, PTL

(* The offset on the disk and the bytes taken from the socket differ by    *)
(* less than the size field, through every call of put().                  *)
THEOREM UploadsProgress == Spec => []UploadProgress
<1>1. Core => UploadProgress  BY DEF Core
<1> QED  BY <1>1, CoreInvariant, PTL


-----------------------------------------------------------------------------
(* Bytes on the disk.                                                      *)

(* A chunk of a body written where its progress puts it keeps every byte   *)
(* of the file in place.                                                   *)
LEMMA WriteInPlace ==
  ASSUME NEW c \in Conns, NEW content \in Seq(Byte), InPlace(content),
         NEW pos \in Nat, NEW first \in Nat \ {0}, NEW k \in Nat,
         first - 1 - pos \in 0..(SizeBytes - 1)
  PROVE  InPlace(WriteAt(content, pos, Sent(c, first, first - 1 + k)))
<1> DEFINE bytes == Sent(c, first, first - 1 + k)
<1>1. /\ bytes \in Seq(Byte) /\ Len(bytes) = k
      /\ \A m \in 1..k : bytes[m] = <<c, first + m - 1>>
  <2>1. first - 1 + k \in Int /\ first <= first - 1 + k + 1
        /\ (first - 1 + k) - first + 1 = k
    OBVIOUS
  <2> QED  BY <2>1, SentType
<1> HIDE DEF bytes
<1> DEFINE last == pos + Len(bytes)
           new == IF last > Len(content) THEN last ELSE Len(content)
           at(p) == IF pos < p /\ p <= last THEN bytes[p - pos]
                    ELSE IF p <= Len(content) THEN content[p] ELSE Hole
<1>2. CASE bytes = <<>>  BY <1>2 DEF WriteAt, bytes
<1>3. CASE bytes # <<>>
  <2>1. WriteAt(content, pos, bytes) = [p \in 1..new |-> at(p)]
    BY <1>3 DEF WriteAt
  <2>2. new \in Nat /\ last = pos + k  BY <1>1
  <2>3. ASSUME NEW p \in 1..new, at(p)[1] # None
        PROVE  at(p)[2] - p \in 0..(SizeBytes - 1)
    <3>1. CASE pos < p /\ p <= last
      <4>1. p - pos \in 1..k  BY <1>1, <2>2, <3>1
      <4>2. at(p) = <<c, first + (p - pos) - 1>>  BY <1>1, <3>1, <4>1
      <4>3. at(p)[2] = first + (p - pos) - 1  BY <4>2
      <4>4. (first + (p - pos) - 1) - p = first - 1 - pos  BY <2>2
      <4> QED  BY <4>3, <4>4
    <3>2. CASE ~(pos < p /\ p <= last) /\ p <= Len(content)
      <4>1. p \in DOMAIN content /\ at(p) = content[p]  BY <2>2, <3>2
      <4> QED  BY <2>3, <4>1 DEF InPlace
    <3>3. CASE ~(pos < p /\ p <= last) /\ ~(p <= Len(content))
      <4>1. at(p) = Hole  BY <3>3
      <4> QED  BY <2>3, <4>1 DEF Hole
    <3> QED  BY <3>1, <3>2, <3>3
  <2> HIDE DEF at, new, last
  <2>4. InPlace([p \in 1..new |-> at(p)])  BY <2>3 DEF InPlace
  <2> QED  BY <2>1, <2>4 DEF bytes
<1> QED  BY <1>2, <1>3

LEMMA BytesInit == Init => BytesInPlace
<1> SUFFICES ASSUME Init PROVE BytesInPlace  OBVIOUS
<1>1. PICK S \in SUBSET Names :
        data = [i \in Inodes |-> IF i \in S THEN Old(i) ELSE <<>>]
  BY DEF Init
<1>2. ASSUME NEW i \in Inodes PROVE InPlace(Old(i)) /\ InPlace(<<>>)
  <2>1. /\ DOMAIN Old(i) = 1..2
        /\ Old(i)[1] = <<i, 1>> /\ Old(i)[2] = <<i, 2>>
    BY DEF Old
  <2>2. Old(i)[1][2] = 1 /\ Old(i)[2][2] = 2  BY <2>1
  <2>3. \A p \in DOMAIN Old(i) : Old(i)[p][2] - p = 0  BY <2>1, <2>2
  <2>4. 0 \in 0..(SizeBytes - 1)  BY BoundsAssumption
  <2> QED  BY <2>3, <2>4 DEF InPlace
<1> QED  BY <1>1, <1>2 DEF BytesInPlace

LEMMA BytesStep == Core /\ BytesInPlace /\ [Next]_vars => BytesInPlace'
<1> SUFFICES ASSUME Core, BytesInPlace, [Next]_vars PROVE BytesInPlace'
  OBVIOUS
<1>1. ASSUME UNCHANGED data PROVE BytesInPlace'
  BY <1>1 DEF BytesInPlace
<1>2. ASSUME NEW c \in Conns, PutOpen(c) PROVE BytesInPlace'
  <2> DEFINE inode == OpenInode(info[c].header, c)
  <2>1. UNCHANGED data \/ data' = [data EXCEPT ![inode] = <<>>]
    BY <1>2 DEF PutOpen, Truncate
  <2> HIDE DEF inode
  <2>2. InPlace(<<>>)  BY DEF InPlace
  <2> QED  BY <1>1, <2>1, <2>2 DEF BytesInPlace, Core, Tables
<1>3. ASSUME NEW c \in Conns, ReadData(c) PROVE BytesInPlace'
  <2>1. /\ Uploading(c) /\ SizeComplete(c)
        /\ data' = IF info[c].local_file = -1 THEN data
                   ELSE [data EXCEPT ![info[c].local_file] =
                           WriteAt(@, info[c].local_file_pos, Bytes(c))]
    BY <1>3, ReadDataCases
  <2>2. info[c] \in ClientInfo /\ Registered(c) /\ sock[c].taken <= sock[c].body
    BY <2>1 DEF Core, Connections, UploadProgress, Uploading, Handling, Registered
  <2>3. /\ Start(c) \in Nat /\ Start(c) >= SizeBytes
        /\ Start(c) - SizeBytes - info[c].local_file_pos \in 0..(SizeBytes - 1)
    BY <2>1, StartFacts DEF Core
  <2>4. Chunk(c) \in Nat  BY <2>2, ChunkFacts DEF Core
  <2> DEFINE first == Start(c) - SizeBytes + 1
             i == info[c].local_file
             pos == info[c].local_file_pos
  <2>5. /\ first \in Nat \ {0}
        /\ first - 1 - pos \in 0..(SizeBytes - 1)
        /\ Start(c) - SizeBytes + Chunk(c) = first - 1 + Chunk(c)
        /\ pos \in Nat
    BY <2>2, <2>3, <2>4, BoundsAssumption DEF ClientInfo
  <2>6. Bytes(c) = Sent(c, first, first - 1 + Chunk(c))  BY <2>5 DEF Bytes
  <2>7. CASE i = -1  BY <1>1, <2>1, <2>7
  <2>8. CASE i # -1
    <3>1. i \in Inodes
      BY <2>1, <2>2, <2>8 DEF ClientInfo, Uploading
    <3>2. data[i] \in Seq(Byte) /\ InPlace(data[i])
      BY <3>1 DEF Core, Tables, BytesInPlace
    <3>3. InPlace(WriteAt(data[i], pos, Bytes(c)))
      BY <2>4, <2>5, <2>6, <3>2, WriteInPlace
    <3> QED  BY <2>1, <2>8, <3>1, <3>3 DEF BytesInPlace, Core, Tables
  <2> QED  BY <2>7, <2>8
<1>4. ASSUME NEW c \in Conns, Event(c) PROVE BytesInPlace'
  <2>1. CASE ParseVerb(c) \/ ReadFileName(c)
    BY <1>1, <2>1 DEF ParseVerb, ReadFileName, store
  <2>2. CASE Get(c)
    BY <1>1, <2>2 DEF Get, GetLocal, GetRedirect, GetMissing, store
  <2>3. CASE PutRedirect(c) \/ ReadSize(c)
    BY <1>1, <2>3 DEF PutRedirect, ReadSize, store
  <2>4. CASE Delete(c) \/ ListFiles(c) \/ AddServer(c)
    BY <1>1, <2>4 DEF Delete, DeleteFile, DeleteMissing, ListFiles, AddServer, store
  <2> QED  BY <1>2, <1>3, <1>4, <2>1, <2>2, <2>3, <2>4 DEF Event, Put
<1>5. CASE \E c \in Conns : Peer(c) \/ AcceptFails(c)
                              \/ \E r \in Requests : Accept(c, r)
  BY <1>1, <1>5 DEF Peer, AcceptFails, Lose, Accept, store
<1>6. CASE Stop \/ Restart \/ UNCHANGED vars
  BY <1>1, <1>6 DEF Stop, Lose, Restart, vars
<1> QED  BY <1>4, <1>5, <1>6 DEF Next

(* However uploads interleave, and however their bytes arrive, a byte on   *)
(* the disk lies at its own offset or less than SizeBytes before it.       *)
THEOREM BytesStayInPlace == Spec => []BytesInPlace
<1>1. Init => BytesInPlace  BY BytesInit
<1>2. Core /\ BytesInPlace /\ [Next]_vars => BytesInPlace'  BY BytesStep
<1> QED  BY <1>1, <1>2, CoreInvariant, PTL DEF Spec

-----------------------------------------------------------------------------
(* Routing.                                                                *)

LEMMA RoutesStep ==
  Core /\ RedirectsGoToRegistered /\ [Next]_vars => RedirectsGoToRegistered'
<1> SUFFICES ASSUME Core, RedirectsGoToRegistered, [Next]_vars
             PROVE  RedirectsGoToRegistered'
  OBVIOUS
<1>1. ASSUME UNCHANGED <<file_to_server, mini_servers>>
      PROVE  RedirectsGoToRegistered'
  BY <1>1 DEF RedirectsGoToRegistered
<1>2. ASSUME NEW c \in Conns, PutRedirect(c) PROVE RedirectsGoToRegistered'
  <2> DEFINE target == mini_servers[current_server_index]
  <2>1. target \in ToSet(mini_servers)
    BY <1>2 DEF PutRedirect, OwnTurn, Core, Tables, ToSet
  <2>2. /\ file_to_server' = [file_to_server EXCEPT ![info[c].header] = target]
        /\ UNCHANGED mini_servers
    BY <1>2 DEF PutRedirect
  <2> HIDE DEF target
  <2> QED  BY <2>1, <2>2 DEF RedirectsGoToRegistered, Core, Tables
<1>3. ASSUME NEW c \in Conns, AddServer(c) PROVE RedirectsGoToRegistered'
  <2> DEFINE s == info[c].header
  <2>1. s \in Subs
    BY <1>3 DEF AddServer, Handling, Core, Connections, ConnTyped
  <2>2. mini_servers' = Append(mini_servers, s)
    BY <1>3 DEF AddServer, Register
  <2>3. PICK listed \in SUBSET Names :
          file_to_server' = [n \in Names |-> IF n \in listed THEN s
                                             ELSE file_to_server[n]]
    BY <1>3 DEF AddServer
  <2> HIDE DEF s
  <2>4. ToSet(mini_servers') = ToSet(mini_servers) \cup {s}
    BY <2>1, <2>2, AppendToSet DEF Core, Tables
  <2> QED  BY <2>3, <2>4 DEF RedirectsGoToRegistered
<1>4. ASSUME NEW c \in Conns, Event(c) PROVE RedirectsGoToRegistered'
  <2>1. CASE ParseVerb(c) \/ ReadFileName(c)
    BY <1>1, <2>1 DEF ParseVerb, ReadFileName, routing
  <2>2. CASE Get(c)
    BY <1>1, <2>2 DEF Get, GetLocal, GetRedirect, GetMissing, routing
  <2>3. CASE PutOpen(c) \/ ReadSize(c) \/ ReadData(c)
    BY <1>1, <2>3 DEF PutOpen, ReadSize, ReadData, routing
  <2>4. CASE Delete(c) \/ ListFiles(c)
    BY <1>1, <2>4 DEF Delete, DeleteFile, DeleteMissing, ListFiles, routing
  <2> QED  BY <1>2, <1>3, <1>4, <2>1, <2>2, <2>3, <2>4 DEF Event, Put
<1>5. CASE \E c \in Conns : Peer(c) \/ \E r \in Requests : Accept(c, r)
  BY <1>1, <1>5 DEF Peer, Accept, routing
<1>6. CASE Stop \/ \E c \in Conns : AcceptFails(c)
  BY <1>6 DEF Stop, AcceptFails, Lose, RedirectsGoToRegistered
<1>7. CASE Restart \/ UNCHANGED vars
  BY <1>1, <1>7 DEF Restart, routing, vars
<1> QED  BY <1>4, <1>5, <1>6, <1>7 DEF Next

(* A redirected name always leads to a sub-server that registered.         *)
THEOREM RoutesAreRegistered == Spec => []RedirectsGoToRegistered
<1>1. Init => RedirectsGoToRegistered  BY DEF Init, RedirectsGoToRegistered
<1>2. Core /\ RedirectsGoToRegistered /\ [Next]_vars => RedirectsGoToRegistered'
  BY RoutesStep
<1> QED  BY <1>1, <1>2, CoreInvariant, PTL DEF Spec


-----------------------------------------------------------------------------
(* The catalogue.                                                          *)

LEMMA CatalogueInit == Init => CatalogueMatchesDirectory
<1> SUFFICES ASSUME Init PROVE CatalogueMatchesDirectory  OBVIOUS
<1>1. PICK S \in SUBSET Names :
        /\ dir = [n \in Names |-> IF n \in S THEN n ELSE None]
        /\ files \in SetToSeqs(S)
  BY DEF Init
<1>2. Present = S  BY <1>1, NoneApart DEF Present
<1>3. ToSet(files) = S /\ \A p, q \in DOMAIN files : files[p] = files[q] => p = q
  BY <1>1, ScrapeFacts
<1>4. unopened = {}  BY DEF Init
<1> QED  BY <1>2, <1>3, <1>4 DEF CatalogueMatchesDirectory

LEMMA CatalogueStep ==
  Core /\ CatalogueMatchesDirectory /\ [Next]_vars => CatalogueMatchesDirectory'
<1> SUFFICES ASSUME Core, CatalogueMatchesDirectory, [Next]_vars
             PROVE  CatalogueMatchesDirectory'
  OBVIOUS
<1>1. files \in Seq(Names)  BY DEF Core, Tables
<1>2. ASSUME UNCHANGED <<process, files, dir, unopened>>
      PROVE  CatalogueMatchesDirectory'
  <2>1. Present' = Present  BY <1>2 DEF Present
  <2> QED  BY <1>2, <2>1 DEF CatalogueMatchesDirectory
<1>3. ASSUME process' # "running" PROVE CatalogueMatchesDirectory'
  BY <1>3 DEF CatalogueMatchesDirectory
<1>4. ASSUME NEW c \in Conns, PutOpen(c), process = "running"
      PROVE  CatalogueMatchesDirectory'
  <2> DEFINE n == info[c].header
             inode == OpenInode(n, c)
  <2>1. n \in Names
    BY <1>4 DEF PutOpen, Handling, Core, Connections, ConnTyped
  <2>2. inode # None
    BY <2>1, OpenInodeType, ValuesAssumption DEF Core, Tables
  <2>3. /\ \A p, q \in DOMAIN files : files[p] = files[q] => p = q
        /\ Present \subseteq ToSet(files)
        /\ ToSet(files) \subseteq Present \cup unopened
        /\ unopened \subseteq ToSet(files)
    BY <1>4 DEF CatalogueMatchesDirectory
  <2>4. files' = Enlist(files, n)  BY <1>4 DEF PutOpen
  <2>5. /\ ToSet(files') = ToSet(files) \cup {n}
        /\ \A p, q \in DOMAIN files' : files'[p] = files'[q] => p = q
    BY <1>1, <2>1, <2>3, <2>4, EnlistFacts
  <2>6. CASE /\ dir' = [dir EXCEPT ![n] = inode]
             /\ unopened' = unopened \ {n}
    <3> HIDE DEF inode, n
    <3>1. Present' = Present \cup {n}
      BY <2>1, <2>2, <2>6 DEF Present, Core, Tables
    <3> QED  BY <2>3, <2>5, <2>6, <3>1 DEF CatalogueMatchesDirectory
  <2>7. CASE UNCHANGED dir /\ unopened' = unopened \cup {n}
    <3>1. Present' = Present  BY <2>7 DEF Present
    <3> HIDE DEF n
    <3> QED  BY <2>3, <2>5, <2>7, <3>1 DEF CatalogueMatchesDirectory
  <2> QED  BY <1>4, <2>6, <2>7 DEF PutOpen
<1>5. ASSUME NEW c \in Conns, DeleteFile(c), process = "running"
      PROVE  CatalogueMatchesDirectory'
  <2> DEFINE n == info[c].header
  <2>1. n \in Names
    BY <1>5 DEF DeleteFile, Handling, Core, Connections, ConnTyped
  <2>2. PICK p \in DOMAIN files : files[p] = n /\ files' = RemoveAt(files, p)
    BY <1>5 DEF DeleteFile
  <2>3. /\ \A i, j \in DOMAIN files : files[i] = files[j] => i = j
        /\ Present \subseteq ToSet(files)
        /\ ToSet(files) \subseteq Present \cup unopened
        /\ unopened \subseteq ToSet(files)
    BY <1>5 DEF CatalogueMatchesDirectory
  <2>4. /\ ToSet(files') = ToSet(files) \ {n}
        /\ \A i, j \in DOMAIN files' : files'[i] = files'[j] => i = j
    BY <1>1, <2>2, <2>3, RemoveAtFacts
  <2>5. dir' = [dir EXCEPT ![n] = None] /\ unopened' = unopened \ {n}
    BY <1>5 DEF DeleteFile
  <2> HIDE DEF n
  <2>6. Present' = Present \ {n}
    BY <2>1, <2>5 DEF Present, Core, Tables
  <2> QED  BY <2>3, <2>4, <2>5, <2>6 DEF CatalogueMatchesDirectory
<1>6. ASSUME Restart PROVE CatalogueMatchesDirectory'
  <2>1. Present \in SUBSET Names /\ files' \in SetToSeqs(Present)
    BY <1>6 DEF Present, Restart
  <2>2. /\ ToSet(files') = Present
        /\ \A i, j \in DOMAIN files' : files'[i] = files'[j] => i = j
    BY <2>1, ScrapeFacts
  <2>3. Present' = Present /\ unopened' = {}  BY <1>6 DEF Restart, Present
  <2> QED  BY <2>2, <2>3 DEF CatalogueMatchesDirectory
<1>7. ASSUME NEW c \in Conns, Event(c) PROVE CatalogueMatchesDirectory'
  <2>1. CASE ParseVerb(c) \/ ReadFileName(c)
    BY <1>2, <2>1 DEF ParseVerb, ReadFileName, store
  <2>2. CASE GetLocal(c)
    BY <1>2, <2>2 DEF GetLocal, store
  <2>3. CASE GetRedirect(c) \/ GetMissing(c)
    BY <1>2, <2>3 DEF GetRedirect, GetMissing, store
  <2>4. CASE PutRedirect(c) \/ ReadSize(c) \/ ReadData(c)
    BY <1>2, <2>4 DEF PutRedirect, ReadSize, ReadData, store
  <2>5. CASE DeleteMissing(c) \/ ListFiles(c) \/ AddServer(c)
    BY <1>2, <2>5 DEF DeleteMissing, ListFiles, AddServer, store
  <2> QED
    BY <1>4, <1>5, <1>7, <2>1, <2>2, <2>3, <2>4, <2>5
    DEF Event, Get, Put, Delete
<1>8. CASE \E c \in Conns : Peer(c) \/ \E r \in Requests : Accept(c, r)
  BY <1>2, <1>8 DEF Peer, Accept, store
<1>9. CASE Stop \/ \E c \in Conns : AcceptFails(c)
  BY <1>3, <1>9 DEF Stop, AcceptFails
<1>10. CASE UNCHANGED vars  BY <1>2, <1>10 DEF vars
<1> QED  BY <1>6, <1>7, <1>8, <1>9, <1>10 DEF Next

(* The names a running server lists are, each once, those of the files in  *)
(* its directory and those put() listed and could not open, whatever       *)
(* uploads, deletions, crashes and restarts it has been through.           *)
THEOREM CatalogueIsDirectory == Spec => []CatalogueMatchesDirectory
<1>1. Init => CatalogueMatchesDirectory  BY CatalogueInit
<1>2. Core /\ CatalogueMatchesDirectory /\ [Next]_vars
        => CatalogueMatchesDirectory'
  BY CatalogueStep
<1> QED  BY <1>1, <1>2, CoreInvariant, PTL DEF Spec

=============================================================================
