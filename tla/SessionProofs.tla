---------------------------- MODULE SessionProofs ----------------------------
(***************************************************************************)
(* For every set of requests, directories and files, every size of socket  *)
(* and buffers: a whole connection keeps what modules Request and Listing  *)
(* promise, and the client knows of a download or a list that is not whole.*)
(***************************************************************************)
EXTENDS Session, RequestProofs, ListingProofs, SequenceTheorems, WellFoundedInduction

(* What the size of a registration leaves alone. *)
LEMMA SizeReadOnce ==
  ASSUME ReadSizeOnce
  PROVE  /\ job.step = "idle" /\ ~shut /\ job' = [job EXCEPT !.step = "names"]
         /\ UNCHANGED <<file, down, shut, filled, cut, clientVars, requestVars, listVars>>
         /\ state = "HANDLING_VERB" /\ action = "ADD_SERVER"
BY DEF ReadSizeOnce, Handling

(* What it takes for the size. *)
LEMMA SizeRead ==
  ASSUME ReadSizeOnce
  PROVE  \E n \in SizeValues :
           reg' = [reg EXCEPT !.size = n, !.eaten = Least(Width, There)]
BY Zenon DEF ReadSizeOnce

(* The request is read as in module Request, whatever is done besides.     *)
LEMMA RequestStep == [Next]_vars => [RequestNext]_requestVars
<1> SUFFICES ASSUME [Next]_vars PROVE RequestNext \/ UNCHANGED requestVars
  OBVIOUS
<1>1. CASE Deliveries
  BY <1>1 DEF Deliveries, RequestNext
<1>2. CASE ServerStep
  <2>1. CASE ReadRequest  BY <2>1 DEF RequestNext
  <2>2. CASE AnswerStep
    <3>1. \A units : Conclude(units) => UNCHANGED requestVars  BY DEF Conclude
    <3>2. \A step, n : Announce(step, n) => UNCHANGED requestVars  BY <3>1 DEF Announce
    <3> QED  BY <2>2, <3>1, <3>2
                DEF AnswerStep, Refuse, AnswerDelete, AnswerMissing, AnswerGet, ListName,
                    AnswerList, WriteSome, WriteFails, WriteEnds
  <2>3. CASE ReadSizeOnce  BY <2>3, SizeReadOnce
  <2>4. CASE ReadName  BY <2>4 DEF ReadName
  <2>5. CASE AddServer  BY <2>5 DEF AddServer, Conclude
  <2> QED  BY <1>2, <2>1, <2>2, <2>3, <2>4, <2>5 DEF ServerStep
<1>3. CASE Client
  BY <1>3 DEF Client, Collect, SendNames, ClientStep
<1>4. CASE Failures
  BY <1>4 DEF Failures, Kill, ServerDies
<1>5. CASE UNCHANGED vars  BY <1>5 DEF vars
<1> QED  BY <1>1, <1>2, <1>3, <1>4, <1>5 DEF Next

LEMMA SessionReads == Spec => RequestSpec
<1>1. SessionInit => Init  BY DEF SessionInit
<1> QED  BY <1>1, RequestStep, PTL DEF Spec, RequestSpec

(* In a connection that is answered while it is read, too, the outcome of  *)
(* a request does not depend on how its bytes are cut up.                  *)
THEOREM SessionReadsWholeLines == Spec => JudgesWholeLines
BY SessionReads, ReadsWholeLines, PTL

(* A handler begins exactly behind the header, whoever fails meanwhile.    *)
THEOREM SessionHeadersExact == Spec => []HeaderExact
BY SessionReads, HeadersExact, PTL

-----------------------------------------------------------------------------
(***************************************************************************)
(* The invariant: what the server has written and what the client has read *)
(* of it.                                                                  *)
(***************************************************************************)
(* The units an answer is made of. *)
Units ==
  {Unit(u) : u \in {"OK", "HERE", "ERROR", "NO_SUCH_FILE", "BAD_REQUEST", "BAD_FILE_SIZE"}}
    \cup ({"SIZE", "BYTE"} \X Nat)

(* What the server writes before the content. *)
Preface == Announcement(job.size)

Answering == job.step \in {"content", "unopened"}

Jobs == [step : {"idle", "content", "unopened", "names"},
         size : Nat, pos : Nat, written : Nat]

AnswerTypeOK ==
  /\ file \in Nat \cup {-1}
  /\ down \in Seq(Units)
  /\ shut \in BOOLEAN /\ filled \in BOOLEAN /\ cut \in BOOLEAN
  /\ job \in Jobs
  /\ pc \in Steps
  /\ got \in 0..Len(down)
  /\ block \in Seq(Units) /\ local \in Seq(Units)

(* Before get() or list() announces the content the server writes nothing, *)
(* or it ends with what is no OK; and its loops have not begun.            *)
NoContent ==
  ~Answering =>
    /\ ~shut => down = <<>>
    /\ job.pos = 0 /\ job.written = 0 /\ ~filled
    /\ req.verb \in {"GET", "LIST"} /\ down # <<>> => down[1] # Unit("OK")

(* Afterwards the stream is the preface and, as long as the socket never   *)
(* filled up, the content up to job.pos.  There is none of a file that     *)
(* could not be opened, and nothing that fills the socket.                 *)
Streams ==
  Answering =>
    /\ state = "HANDLING_VERB" /\ action \in {"GET", "LIST"}
    /\ action = "LIST" => copied = Len(names)
    /\ ContentLen \in Nat /\ job.pos <= ContentLen
    /\ job.step = "content" => job.size = ContentLen
    /\ job.step = "unopened" => action = "GET" /\ ~filled
    /\ \A k \in 1..Len(down) : k <= Len(Preface) => down[k] = Preface[k]
    /\ ~cut => Len(down) >= Len(Preface)
    /\ ~filled =>
         /\ job.written = 0
         /\ \A k \in 1..Len(down) : k > Len(Preface) => down[k] = <<"BYTE", k - Len(Preface)>>
         /\ Len(down) <= Len(Preface) + job.pos
         /\ ~cut => /\ Len(down) = Len(Preface) + job.pos
                    /\ shut => job.pos = ContentLen

(* The client is where it has read to. *)
InBlock ==
  /\ size = job.size
  /\ got = Len(Preface) + Len(local) + Len(block)
  /\ Len(local) <= size
  /\ req.verb = "LIST" => local = <<>>
  /\ ~filled =>
       /\ \A k \in 1..Len(local) : local[k] = <<"BYTE", k>>
       /\ \A k \in 1..Len(block) : block[k] = <<"BYTE", Len(local) + k>>

ReadsOn ==
  /\ pc \in {"asking", "status"} => got = 0
  /\ pc = "asking" => req.verb = "ADD_SERVER"
  /\ pc \in {"address", "size", "payload"} => Answering /\ req.verb \in {"GET", "LIST"}
  /\ pc = "address" => got = 1 /\ req.verb = "GET"
  /\ pc = "size" => got = Len(Preface) - 1
  /\ pc \in {"asking", "status", "address", "size"} => block = <<>> /\ local = <<>>
  /\ pc = "payload" => InBlock

(* It says something only when it ends. *)
Says ==
  /\ ~ClientGone => said = {}
  /\ "LIST" \in said => Answering /\ action = "LIST"
  /\ said \cap {"TOO_LITTLE", "CLOSED"} # {} => Answering
  /\ pc = "end" /\ req.verb = "GET" => Answering

(* add_server() comes to its end once. *)
Registers ==
  /\ reg = [size |-> reg.size, bytes_read |-> reg.bytes_read, buffer |-> reg.buffer,
            names |-> reg.names, eaten |-> reg.eaten, pushed |-> reg.pushed]
  /\ reg.bytes_read \in 0..(Base^Width - 1)
  /\ reg.eaten \in Nat
  /\ reg.pushed \in 0..1
  /\ ~shut => reg.pushed = 0
  /\ job.step = "names" => req.verb = "ADD_SERVER"

AnswerInv ==
  /\ AnswerTypeOK
  /\ cut => shut
  /\ NoContent /\ Streams /\ ReadsOn /\ Says
  /\ DownloadIntact /\ ListIntact /\ ComplaintsHaveACause

(* Until the list is announced each name counts for a byte at least. *)
CountsNames == ~Answering /\ ~shut => copied <= total_bytes

SessionInv == RequestInv /\ ListInv /\ CountsNames /\ AnswerInv /\ Registers

LEMMA SessionInvInit == SessionInit => SessionInv
<1> SUFFICES ASSUME SessionInit PROVE SessionInv  OBVIOUS
<1>1. RequestInv /\ ListInv  BY RequestInvInit, ListInvInit DEF SessionInit
<1>2. /\ req \in Requests /\ req.verb \in Verbs
      /\ copied = 0 /\ total_bytes = 0
      /\ file \in Nat \cup {-1}
      /\ down = <<>> /\ shut = FALSE /\ filled = FALSE /\ cut = FALSE
      /\ job = [step |-> "idle", size |-> 0, pos |-> 0, written |-> 0]
      /\ pc = (IF req.verb = "ADD_SERVER" THEN "asking" ELSE "status")
      /\ got = 0 /\ block = <<>> /\ local = <<>> /\ said = {}
  BY RequestsAssumption, AnswerAssumption
     DEF SessionInit, Init, ListInit, AnswerInit, RequestType
<1>3. ~Answering /\ ~ClientGone /\ CountsNames
  BY <1>2 DEF Answering, ClientGone, Final, CountsNames
<1>4. AnswerTypeOK
  <2>1. pc \in Steps  BY <1>2 DEF Steps
  <2>2. job \in Jobs
    BY <1>2 DEF Jobs
  <2>3. /\ down \in Seq(Units) /\ block \in Seq(Units) /\ local \in Seq(Units)
        /\ got \in 0..Len(down)
    BY <1>2, EmptySeq
  <2>4. file \in Nat \cup {-1} /\ shut \in BOOLEAN /\ filled \in BOOLEAN /\ cut \in BOOLEAN
    BY <1>2
  <2> QED  BY <2>1, <2>2, <2>3, <2>4 DEF AnswerTypeOK
<1>5. NoContent /\ Streams /\ ReadsOn /\ Says
  BY <1>2, <1>3 DEF NoContent, Streams, ReadsOn, Says, ClientGone, Final
<1>6. DownloadIntact /\ ListIntact /\ ComplaintsHaveACause
  BY <1>2 DEF DownloadIntact, ListIntact, ComplaintsHaveACause
<1>7. Registers
  <2>1. 0 \in 0..(Base^Width - 1)  BY SizeAssumption, PowerAssumption
  <2>2. reg = [size |-> 0, bytes_read |-> 0, buffer |-> <<>>, names |-> {},
               eaten |-> 0, pushed |-> 0]
    BY DEF SessionInit
  <2> QED  BY <1>2, <2>1, <2>2 DEF Registers
<1> QED  BY <1>1, <1>2, <1>3, <1>4, <1>5, <1>6, <1>7 DEF SessionInv, AnswerInv

(* The first part of a concatenation, and the second. *)
LEMMA ConcatFacts ==
  ASSUME NEW S, NEW s \in Seq(S), NEW t \in Seq(S)
  PROVE  /\ s \o t \in Seq(S) /\ Len(s \o t) = Len(s) + Len(t)
         /\ \A k \in 1..Len(s) : (s \o t)[k] = s[k]
         /\ \A k \in 1..Len(t) : (s \o t)[Len(s) + k] = t[k]
<1> DEFINE m == Len(s)
           n == Len(t)
<1>1. /\ s \o t \in Seq(S) /\ Len(s \o t) = m + n /\ m \in Nat /\ n \in Nat
      /\ \A k \in 1..(m + n) : (s \o t)[k] = IF k <= m THEN s[k] ELSE t[k - m]
  BY ConcatProperties, LenProperties
<1> HIDE DEF m, n
<1>2. \A k \in 1..m : k \in 1..(m + n) /\ k <= m  BY <1>1
<1>3. \A k \in 1..n : m + k \in 1..(m + n) /\ ~(m + k <= m) /\ (m + k) - m = k
  BY <1>1
<1>4. \A k \in 1..n : (s \o t)[m + k] = t[k]
  <2> SUFFICES ASSUME NEW k \in 1..n PROVE (s \o t)[m + k] = t[k]  OBVIOUS
  <2> QED  BY <1>1, <1>3
<1> QED  BY <1>1, <1>2, <1>4 DEF m, n

-----------------------------------------------------------------------------
(* The pieces of an answer. *)
LEMMA BytesFacts ==
  ASSUME NEW i \in Nat, NEW j \in Nat, i <= j + 1
  PROVE  /\ Bytes(i, j) \in Seq({"SIZE", "BYTE"} \X Nat)
         /\ Bytes(i, j) \in Seq(Units)
         /\ Len(Bytes(i, j)) = j - i + 1
         /\ \A k \in 1..(j - i + 1) : Bytes(i, j)[k] = <<"BYTE", i + k - 1>>
<1> DEFINE n == j - i + 1
<1>1. n \in Nat /\ Bytes(i, j) = [k \in 1..n |-> <<"BYTE", i + k - 1>>]
  BY DEF Bytes
<1> HIDE DEF n
<1>2. \A k \in 1..n : <<"BYTE", i + k - 1>> \in {"SIZE", "BYTE"} \X Nat
  BY <1>1
<1>3. Bytes(i, j) \in Seq({"SIZE", "BYTE"} \X Nat) /\ Len(Bytes(i, j)) = n
  BY <1>1, <1>2
<1>4. \A k \in 1..n : Bytes(i, j)[k] = <<"BYTE", i + k - 1>>  BY <1>1
<1>5. Bytes(i, j) \in Seq(Units)  BY <1>1, <1>2 DEF Units
<1> QED  BY <1>3, <1>4, <1>5 DEF n

LEMMA BytesAre ==
  ASSUME NEW n \in Nat, NEW s \in Seq(Units), Len(s) = n,
         \A k \in 1..n : s[k] = <<"BYTE", k>>
  PROVE  s = Bytes(1, n)
<1>1. 1 \in Nat /\ 1 <= n + 1 /\ n - 1 + 1 = n /\ \A k \in 1..n : 1 + k - 1 = k
  OBVIOUS
<1>2. /\ Bytes(1, n) \in Seq(Units) /\ Len(Bytes(1, n)) = n - 1 + 1
      /\ \A k \in 1..(n - 1 + 1) : Bytes(1, n)[k] = <<"BYTE", 1 + k - 1>>
  BY <1>1, BytesFacts
<1>3. /\ Len(Bytes(1, n)) = n
      /\ \A k \in 1..n : Bytes(1, n)[k] = <<"BYTE", k>>
  BY <1>1, <1>2
<1> QED  BY <1>2, <1>3, SeqEqual

LEMMA DeliverFacts ==
  ASSUME AnswerTypeOK, NEW units \in Seq(Units)
  PROVE  /\ Deliver(units) \in Seq(Units)
         /\ Len(Deliver(units)) >= Len(down)
         /\ \A k \in 1..Len(down) : Deliver(units)[k] = down[k]
         /\ down = <<>> /\ Deliver(units) # <<>> => Deliver(units)[1] = units[1]
         /\ ~ClientGone /\ down = <<>> /\ got = 0 /\ Len(units) <= 3 => Deliver(units) = units
         /\ units = <<>> => Deliver(units) = down
<1> DEFINE n == Least(Len(units), Room)
           s == SubSeq(units, 1, n)
<1>1. n \in Int /\ n <= Len(units) /\ down \in Seq(Units)
  BY AnswerAssumption DEF Least, Room, AnswerTypeOK
<1>2. /\ s \in Seq(Units) /\ Len(s) = IF 1 <= n THEN n ELSE 0
      /\ \A k \in 1..n : s[k] = units[k]
  <2>1. \A k \in 1..n : units[k] \in Units  BY <1>1
  <2> HIDE DEF n
  <2> QED  BY <1>1, <2>1, SubSeqProperties
<1>3. ~ClientGone /\ down = <<>> /\ got = 0 /\ Len(units) <= 3 => n = Len(units)
  BY AnswerAssumption DEF Least, Room
<1> HIDE DEF n, s
<1>4. Deliver(units) = IF ClientGone THEN down ELSE down \o s
  BY DEF Deliver, n, s
<1>5. CASE ClientGone  BY <1>1, <1>4, <1>5
<1>6. CASE ~ClientGone
  <2>1. /\ Deliver(units) = down \o s /\ Deliver(units) \in Seq(Units)
        /\ Len(Deliver(units)) = Len(down) + Len(s)
        /\ \A k \in 1..Len(down) : Deliver(units)[k] = down[k]
    <3>1. down \in Seq(Units) /\ s \in Seq(Units)  BY <1>1, <1>2
    <3>2. /\ down \o s \in Seq(Units) /\ Len(down \o s) = Len(down) + Len(s)
          /\ \A k \in 1..Len(down) : (down \o s)[k] = down[k]
      BY ONLY <3>1, ConcatFacts
    <3>3. Deliver(units) = down \o s  BY <1>4, <1>6
    <3> QED  BY <3>2, <3>3
  <2>2. ASSUME down = <<>>
        PROVE  Deliver(units) = s
    BY <1>2, <2>1, <2>2
  <2>3. down = <<>> /\ Deliver(units) # <<>> => Deliver(units)[1] = units[1]
    <3>1. s # <<>> => 1 \in 1..n  BY <1>1, <1>2
    <3> QED  BY <1>2, <2>2, <3>1
  <2>4. n = Len(units) => s = units  BY <1>1, <1>2
  <2>5. units = <<>> => s = <<>>  BY <1>1, <1>2
  <2> QED  BY <1>1, <1>3, <2>1, <2>2, <2>3, <2>4, <2>5
<1> QED  BY <1>5, <1>6

LEMMA PrefaceFacts ==
  ASSUME RequestInv, AnswerInv, Answering
  PROVE  /\ req.verb = action /\ action \in {"GET", "LIST"}
         /\ ContentLen \in Nat /\ job.size \in Nat /\ ContentLen <= job.size
         /\ Preface \in Seq(Units) /\ Len(Preface) \in {2, 3}
         /\ Preface[1] = Unit("OK")
         /\ Preface[Len(Preface)] = <<"SIZE", job.size>>
         /\ action = "GET" => Len(Preface) = 3
         /\ action = "GET" /\ job.step = "content" => job.size = file
         /\ action = "LIST" => /\ Len(Preface) = 2 /\ job.step = "content"
                               /\ job.size = total_bytes /\ ContentLen = total_bytes
         /\ job.step = "content" => ContentLen = job.size
         /\ job.step = "unopened" => ContentLen = 0 /\ ~filled
<1>1. /\ state = "HANDLING_VERB" /\ action \in {"GET", "LIST"} /\ ContentLen \in Nat
      /\ job.step = "content" => job.size = ContentLen
      /\ job.step = "unopened" => action = "GET" /\ ~filled
      /\ job \in Jobs
  BY DEF AnswerInv, Streams, AnswerTypeOK
<1>2. req.verb = action  BY <1>1 DEF RequestInv, HeaderExact
<1>3. job.size \in Nat  BY <1>1 DEF Jobs
<1>4. Unit("OK") \in Units /\ Unit("HERE") \in Units /\ <<"SIZE", job.size>> \in Units
  BY <1>3 DEF Units
<1>5. /\ job.step = "unopened" => ContentLen = 0
      /\ action = "GET" /\ job.step = "content" => ContentLen = file
      /\ action = "LIST" => ContentLen = total_bytes
  BY <1>1 DEF ContentLen, FileLen
<1>6. ContentLen <= job.size
  <2>1. job.step = "content" \/ job.step = "unopened"  BY DEF Answering
  <2> QED  BY <1>1, <1>3, <1>5, <2>1
<1>7. CASE action = "GET"
  <2>1. Preface = <<Unit("OK"), Unit("HERE"), <<"SIZE", job.size>>>>
    BY <1>7 DEF Preface, Announcement
  <2> HIDE DEF Unit, Units, ContentLen, Preface
  <2>2. /\ Preface \in Seq(Units) /\ Len(Preface) = 3 /\ Preface[1] = Unit("OK")
        /\ Preface[Len(Preface)] = <<"SIZE", job.size>>
    BY <1>4, <2>1
  <2> QED  BY <1>1, <1>2, <1>3, <1>5, <1>6, <1>7, <2>2
<1>8. CASE action = "LIST"
  <2>1. Preface = <<Unit("OK"), <<"SIZE", job.size>>>>
    BY <1>8 DEF Preface, Announcement
  <2> HIDE DEF Unit, Units, ContentLen, Preface
  <2>2. /\ Preface \in Seq(Units) /\ Len(Preface) = 2 /\ Preface[1] = Unit("OK")
        /\ Preface[Len(Preface)] = <<"SIZE", job.size>>
    BY <1>4, <2>1
  <2>3. job.step = "content"  BY <1>1, <1>8 DEF Answering
  <2> QED  BY <1>1, <1>2, <1>3, <1>5, <1>6, <1>8, <2>2, <2>3
<1> QED  BY <1>1, <1>7, <1>8

LEMMA SamePreface ==
  ASSUME UNCHANGED <<action, file, total_bytes, job.step, job.size>>
  PROVE  Preface' = Preface /\ ContentLen' = ContentLen
BY DEF Preface, Announcement, ContentLen, FileLen

(***************************************************************************)
(* A step of the client alone, and one of everything else.                 *)
(***************************************************************************)
LEMMA ClientChange ==
  ASSUME SessionInv, UNCHANGED <<serverVars, requestVars, listVars>>,
         pc' \in Steps, got' \in 0..Len(down),
         block' \in Seq(Units), local' \in Seq(Units),
         ReadsOn', Says', DownloadIntact', ListIntact', ComplaintsHaveACause'
  PROVE  AnswerInv'
<1>1. AnswerInv  BY DEF SessionInv
<1>2. /\ UNCHANGED <<file, down, shut, job, filled, cut, req, state, action>>
      /\ UNCHANGED <<names, copied, total_bytes, overrun>>
  BY DEF serverVars, requestVars, listVars
<1>3. AnswerTypeOK'  BY <1>1, <1>2 DEF AnswerInv, AnswerTypeOK
<1>4. NoContent' /\ (cut' => shut')
  BY <1>1, <1>2 DEF AnswerInv, NoContent, Answering
<1>5. Preface' = Preface /\ ContentLen' = ContentLen  BY <1>2, SamePreface
<1>6. Streams'
  BY <1>1, <1>2, <1>5 DEF AnswerInv, Streams, Answering
<1> QED  BY <1>3, <1>4, <1>6 DEF AnswerInv

LEMMA ServerChange ==
  ASSUME SessionInv, UNCHANGED <<clientVars, req, file>>,
         Answering => /\ UNCHANGED <<state, action, names, copied, total_bytes, overrun>>
                      /\ UNCHANGED <<job.step, job.size>>,
         job' \in Jobs,
         down' \in Seq(Units), Len(down') >= got,
         shut' \in BOOLEAN, cut' => shut',
         filled' \in BOOLEAN, filled => filled',
         cut' \in BOOLEAN, cut => cut',
         NoContent', Streams'
  PROVE  AnswerInv'
<1>1. AnswerInv  BY DEF SessionInv
<1>2. UNCHANGED <<pc, got, block, local, opened, size, said>>  BY DEF clientVars
<1>3. AnswerTypeOK'
  <2>1. got \in Nat /\ Len(down') \in Nat  BY <1>1, LenProperties DEF AnswerInv, AnswerTypeOK
  <2> QED  BY <1>1, <1>2, <2>1 DEF AnswerInv, AnswerTypeOK
<1>4. Answering => /\ Answering' /\ Preface' = Preface /\ ContentLen' = ContentLen
                   /\ UNCHANGED <<job.step, job.size>>
  BY SamePreface DEF Answering
<1>5. ReadsOn'
  <2>1. ReadsOn /\ filled \in BOOLEAN  BY <1>1 DEF AnswerInv, AnswerTypeOK
  <2>2. pc = "size" => Answering  BY <2>1 DEF ReadsOn
  <2>3. pc = "payload" => InBlock'
    BY <1>2, <1>4, <2>1 DEF ReadsOn, InBlock
  <2>4. pc = "size" => got = Len(Preface')  - 1
    BY <1>4, <2>1, <2>2 DEF ReadsOn
  <2> QED  BY <1>2, <1>4, <2>1, <2>3, <2>4 DEF ReadsOn
<1>6. Says'  BY <1>1, <1>2, <1>4 DEF AnswerInv, Says, ClientGone
<1>7. DownloadIntact'
  <2>1. pc = "end" /\ req.verb = "GET" => Answering  BY <1>1 DEF AnswerInv, Says
  <2>2. DownloadIntact /\ LocalFile' = LocalFile  BY <1>1, <1>2 DEF AnswerInv, LocalFile
  <2> QED  BY <1>2, <1>4, <2>1, <2>2 DEF DownloadIntact
<1>8. ComplaintsHaveACause'
  <2>1. said \cap {"TOO_LITTLE", "CLOSED"} # {} => Answering  BY <1>1 DEF AnswerInv, Says
  <2> QED  BY <1>1, <1>2, <1>4, <2>1 DEF AnswerInv, ComplaintsHaveACause
<1>9. ListIntact'
  BY <1>1, <1>2 DEF AnswerInv, ListIntact, Says
<1> QED  BY <1>3, <1>5, <1>6, <1>7, <1>8, <1>9 DEF AnswerInv

(* The steps that write nothing and begin no content. *)
LEMMA QuietChange ==
  ASSUME SessionInv, UNCHANGED <<clientVars, req, file, down, shut, filled, cut>>,
         Answering => UNCHANGED <<job, state, action, names, copied, total_bytes, overrun>>,
         ~Answering => /\ ~Answering'
                       /\ job' \in Jobs
                       /\ UNCHANGED <<job.pos, job.written>>
  PROVE  AnswerInv'
<1>1. AnswerInv  BY DEF SessionInv
<1>2. /\ job' \in Jobs
      /\ down' \in Seq(Units) /\ shut' \in BOOLEAN /\ filled' \in BOOLEAN /\ cut' \in BOOLEAN
      /\ cut' => shut'
  BY <1>1 DEF AnswerInv, AnswerTypeOK
<1>3. Len(down') >= got
  BY <1>1, LenProperties DEF AnswerInv, AnswerTypeOK
<1>4. Answering' => Answering  OBVIOUS
<1>5. Answering => /\ UNCHANGED <<state, action, names, copied, total_bytes, overrun>>
                   /\ UNCHANGED <<job.step, job.size>> /\ Answering'
  BY DEF Answering
<1>6. NoContent'  BY <1>1, <1>5 DEF AnswerInv, NoContent
<1>7. Streams'
  <2>1. SUFFICES ASSUME Answering PROVE Streams'  BY <1>4 DEF Streams
  <2>2. Preface' = Preface /\ ContentLen' = ContentLen  BY <2>1, SamePreface
  <2> QED  BY <1>1, <2>1, <2>2 DEF AnswerInv, Streams
<1> QED  BY <1>2, <1>3, <1>5, <1>6, <1>7, ServerChange

LEMMA ReadingQuiet ==
  ASSUME SessionInv, ReadRequest \/ Arrive \/ PeerEnds,
         UNCHANGED <<listVars, answerVars>>
  PROVE  AnswerInv'
<1>1. AnswerInv  BY DEF SessionInv
<1>2. UNCHANGED <<req, file, down, shut, filled, cut, job, names, copied, total_bytes, overrun>>
  BY DEF ReadRequest, ParseVerb, ReadFileName, Take, Arrive, PeerEnds,
         listVars, answerVars, serverVars
<1>3. Answering => UNCHANGED <<state, action>>
  <2>1. Answering => state = "HANDLING_VERB"  BY <1>1 DEF AnswerInv, Streams
  <2> QED  BY <2>1 DEF ReadRequest, ParseVerb, ReadFileName, Arrive, PeerEnds
<1>4. UNCHANGED clientVars  BY DEF answerVars
<1>5. ~Answering => ~Answering' BY <1>2 DEF Answering
<1>6. job' \in Jobs
  BY <1>1, <1>2 DEF AnswerInv, AnswerTypeOK
<1> QED  BY <1>2, <1>3, <1>4, <1>5, <1>6, QuietChange

LEMMA NamesQuiet ==
  ASSUME SessionInv, Collect \/ ListName \/ ReadSizeOnce \/ ReadName
  PROVE  AnswerInv'
<1>1. AnswerInv  BY DEF SessionInv
<1>2. job \in Jobs
  BY <1>1 DEF AnswerInv, AnswerTypeOK
<1>3. UNCHANGED <<clientVars, req, file, down, shut, filled, cut>>
  <2>1. CASE ReadSizeOnce  BY <2>1, SizeReadOnce DEF requestVars
  <2>2. CASE Collect \/ ListName \/ ReadName
    BY <2>2 DEF Collect, ListName, ReadName, answerVars, serverVars, requestVars
  <2> QED  BY <2>1, <2>2
<1>4. ~Answering
  <2>1. CASE Collect
    <3>1. req.verb = "ADD_SERVER"  BY <1>1, <2>1 DEF Collect, AnswerInv, ReadsOn
    <3>2. Answering => req.verb = action /\ action \in {"GET", "LIST"}
      BY <1>1, PrefaceFacts DEF SessionInv
    <3> QED  BY <3>1, <3>2
  <2>2. CASE ListName  BY <2>2 DEF ListName, Handling, Answering
  <2>3. CASE ReadSizeOnce  BY <2>3, SizeReadOnce DEF Answering
  <2>4. CASE ReadName  BY <2>4 DEF ReadName, Registering, Answering
  <2> QED  BY <2>1, <2>2, <2>3, <2>4
<1>5. CASE ReadSizeOnce
  <2>1. job' = [job EXCEPT !.step = "names"]  BY <1>5, SizeReadOnce
  <2>2. /\ job' \in Jobs
        /\ job'.step = "names" /\ UNCHANGED <<job.pos, job.written>>
    BY <1>2, <2>1 DEF Jobs
  <2> QED  BY <1>3, <1>4, <2>2, QuietChange DEF Answering
<1>6. CASE Collect \/ ListName \/ ReadName
  <2>1. UNCHANGED job
    BY <1>6 DEF Collect, ListName, ReadName, answerVars, serverVars
  <2> QED  BY <1>2, <1>3, <1>4, <2>1, QuietChange DEF Answering
<1> QED  BY <1>5, <1>6

(* The server's last write without a content. *)
LEMMA ConcludeChange ==
  ASSUME SessionInv, NEW units \in Seq(Units), Conclude(units), ~Answering, ~shut,
         req.verb \in {"GET", "LIST"} => ClientGone \/ (units # <<>> => units[1] # Unit("OK"))
  PROVE  AnswerInv'
<1>1. AnswerInv /\ AnswerTypeOK  BY DEF SessionInv, AnswerInv
<1>2. /\ UNCHANGED <<file, job, filled, cut, clientVars, req>>
      /\ down' = Deliver(units) /\ shut' = TRUE
  BY DEF Conclude, requestVars
<1>3. /\ Deliver(units) \in Seq(Units)
      /\ Len(Deliver(units)) >= Len(down)
      /\ down = <<>> /\ Deliver(units) # <<>> => Deliver(units)[1] = units[1]
  BY <1>1, DeliverFacts
<1>4. down = <<>> /\ job.pos = 0 /\ job.written = 0 /\ ~filled
  BY <1>1 DEF AnswerInv, NoContent
<1>5. got \in Nat /\ got <= Len(down) /\ Len(down) \in Nat
  BY <1>1, LenProperties DEF AnswerTypeOK
<1>6. Len(down') \in Nat /\ Len(down') >= got
  BY <1>2, <1>3, <1>5, LenProperties
<1>7. req.verb \in {"GET", "LIST"} /\ down' # <<>> => down'[1] # Unit("OK")
  <2>1. ClientGone => Deliver(units) = <<>>  BY <1>4 DEF Deliver
  <2>2. units = <<>> => Deliver(units) = <<>>  BY <1>1, <1>4, DeliverFacts
  <2> QED  BY <1>2, <1>3, <1>4, <2>1, <2>2
<1>8. ~Answering'  BY <1>2 DEF Answering
<1>9. NoContent'  BY <1>2, <1>4, <1>7, <1>8 DEF NoContent
<1>10. Streams'  BY <1>8 DEF Streams
<1>11. /\ job' \in Jobs
       /\ down' \in Seq(Units) /\ shut' \in BOOLEAN /\ (cut' => shut')
       /\ filled' \in BOOLEAN /\ (filled => filled') /\ cut' \in BOOLEAN /\ (cut => cut')
  BY <1>1, <1>2, <1>3 DEF AnswerTypeOK
<1> QED  BY <1>2, <1>6, <1>9, <1>10, <1>11, ServerChange

(* The short answers. *)
LEMMA UnitFacts ==
  /\ \A u \in {"OK", "HERE", "ERROR", "NO_SUCH_FILE", "BAD_REQUEST", "BAD_FILE_SIZE"} :
       Unit(u) \in Units /\ <<Unit(u)>> \in Seq(Units)
  /\ <<Unit("ERROR"), Unit("BAD_REQUEST")>> \in Seq(Units)
  /\ <<Unit("ERROR"), Unit("BAD_FILE_SIZE")>> \in Seq(Units)
  /\ <<Unit("ERROR"), Unit("NO_SUCH_FILE")>> \in Seq(Units)
  /\ Unit("ERROR") # Unit("OK") /\ Unit("NO_SUCH_FILE") # Unit("OK")
<1>1. \A u \in {"OK", "HERE", "ERROR", "NO_SUCH_FILE", "BAD_REQUEST", "BAD_FILE_SIZE"} :
        Unit(u) \in Units
  BY DEF Units
<1>2. Unit("ERROR") # Unit("OK") /\ Unit("NO_SUCH_FILE") # Unit("OK")  BY DEF Unit
<1> HIDE DEF Unit, Units
<1> QED  BY <1>1, <1>2

LEMMA ShortAnswers ==
  ASSUME SessionInv, Refuse \/ AnswerDelete \/ AnswerMissing \/ AddServer
  PROVE  AnswerInv'
<1>1. RequestInv /\ AnswerInv  BY DEF SessionInv
<1>2. Answering => state = "HANDLING_VERB" /\ action \in {"GET", "LIST"}
  BY <1>1 DEF AnswerInv, Streams
<1>3. CASE Refuse
  <2>1. ~Answering /\ ~shut  BY <1>2, <1>3 DEF Refuse
  <2>2. PICK units \in {<<Unit("ERROR"), Unit("BAD_REQUEST")>>,
                        <<Unit("ERROR"), Unit("BAD_FILE_SIZE")>>} : Conclude(units)
    BY <1>3 DEF Refuse
  <2> HIDE DEF Unit, Units
  <2>3. units \in Seq(Units) /\ units[1] = Unit("ERROR")
    <3>1. CASE units = <<Unit("ERROR"), Unit("BAD_REQUEST")>>  BY <3>1, UnitFacts
    <3>2. CASE units = <<Unit("ERROR"), Unit("BAD_FILE_SIZE")>>  BY <3>2, UnitFacts
    <3> QED  BY <2>2, <3>1, <3>2
  <2>4. units[1] # Unit("OK")  BY <2>3, UnitFacts
  <2> QED  BY <2>1, <2>2, <2>3, <2>4, ConcludeChange
<1>4. CASE AnswerDelete
  <2>1. ~Answering /\ ~shut /\ state = "HANDLING_VERB" /\ action = "DELETE"
    BY <1>4 DEF AnswerDelete, Handling, Answering
  <2>2. req.verb = "DELETE"  BY <1>1, <2>1 DEF RequestInv, HeaderExact
  <2>3. PICK units \in {<<Unit("ERROR"), Unit("NO_SUCH_FILE")>>, <<Unit("OK")>>} :
          Conclude(units)
    BY <1>4 DEF AnswerDelete
  <2>4. units \in Seq(Units)  BY UnitFacts
  <2> QED  BY <2>1, <2>2, <2>3, <2>4, ConcludeChange
<1>5. CASE AnswerMissing
  <2>1. ~Answering /\ ~shut  BY <1>5 DEF AnswerMissing, Handling, Answering
  <2>2. Conclude(<<Unit("NO_SUCH_FILE")>>)  BY <1>5 DEF AnswerMissing
  <2>3. <<Unit("NO_SUCH_FILE")>> \in Seq(Units) /\ <<Unit("NO_SUCH_FILE")>>[1] # Unit("OK")
    BY UnitFacts
  <2> QED  BY <2>1, <2>2, <2>3, ConcludeChange
<1>6. CASE AddServer
  <2>1. ~Answering /\ ~shut /\ Conclude(<<Unit("OK")>>)
    BY <1>6 DEF AddServer, Registering, Answering
  <2>2. req.verb \notin {"GET", "LIST"}
    BY <1>6 DEF SessionInv, Registers, AddServer, Registering
  <2>3. <<Unit("OK")>> \in Seq(Units)  BY UnitFacts
  <2> QED  BY <2>1, <2>2, <2>3, ConcludeChange
<1> QED  BY <1>3, <1>4, <1>5, <1>6

-----------------------------------------------------------------------------
(* The content: what is left of it. *)
LEMMA ChunkFacts ==
  ASSUME SessionInv, Answering
  PROVE  /\ Chunk \in Nat /\ job.pos \in Nat /\ job.pos + Chunk <= ContentLen
         /\ Chunk = 0 => job.pos = ContentLen
         /\ ContentLen \in Nat
         /\ action = "LIST" => job.pos + Chunk = ContentLen
         /\ Chunk > 0 => job.step = "content"
<1>1. RequestInv /\ AnswerInv  BY DEF SessionInv
<1>2. /\ ContentLen \in Nat /\ job.pos <= ContentLen
      /\ job.step = "unopened" => ContentLen = 0
  BY <1>1, PrefaceFacts DEF AnswerInv, Streams
<1>3. job.pos \in Nat  BY <1>1 DEF AnswerInv, AnswerTypeOK, Jobs
<1>4. job.step = "content" \/ job.step = "unopened"  BY DEF Answering
<1> HIDE DEF ContentLen
<1> QED  BY <1>2, <1>3, <1>4, AnswerAssumption DEF Chunk, Least

LEMMA WriteEndsChange ==
  ASSUME SessionInv, WriteEnds
  PROVE  AnswerInv'
<1>1. AnswerInv /\ AnswerTypeOK  BY DEF SessionInv, AnswerInv
<1>2. /\ UNCHANGED <<file, job, filled, cut, clientVars, req>>
      /\ UNCHANGED <<state, action, names, copied, total_bytes, overrun>>
      /\ shut' = TRUE /\ Answering /\ ~shut
  BY DEF WriteEnds, Writing, Conclude, requestVars, listVars, Answering
<1>3. UNCHANGED down
  <2>1. <<>> \in Seq(Units)  BY EmptySeq
  <2>2. down' = Deliver(<<>>)  BY DEF WriteEnds, Conclude
  <2> QED  BY <1>1, <2>1, <2>2, DeliverFacts
<1>4. job.pos = ContentLen  BY <1>2, ChunkFacts DEF WriteEnds
<1>5. Answering' /\ Preface' = Preface /\ ContentLen' = ContentLen
  BY <1>2, SamePreface DEF Answering
<1>6. NoContent'  BY <1>5 DEF NoContent
<1>7. Streams'  BY <1>1, <1>2, <1>3, <1>4, <1>5 DEF AnswerInv, Streams
<1>8. Len(down') >= got  BY <1>1, <1>3, LenProperties DEF AnswerTypeOK
<1>9. /\ job' \in Jobs
      /\ down' \in Seq(Units) /\ shut' \in BOOLEAN /\ (cut' => shut')
      /\ filled' \in BOOLEAN /\ (filled => filled') /\ cut' \in BOOLEAN /\ (cut => cut')
  BY <1>1, <1>2, <1>3 DEF AnswerTypeOK
<1> QED  BY <1>2, <1>5, <1>6, <1>7, <1>8, <1>9, ServerChange

LEMMA ServerDiesChange ==
  ASSUME SessionInv, ServerDies
  PROVE  AnswerInv'
<1>1. AnswerInv /\ AnswerTypeOK  BY DEF SessionInv, AnswerInv
<1>2. /\ UNCHANGED <<file, job, filled, clientVars, req>>
      /\ UNCHANGED <<state, action, names, copied, total_bytes, overrun>>
      /\ shut' = TRUE /\ cut' = TRUE
  BY DEF ServerDies, requestVars, listVars
<1>3. PICK k \in got..Len(down) : down' = SubSeq(down, 1, k)
  BY DEF ServerDies
<1>4. got \in Nat /\ Len(down) \in Nat /\ down \in Seq(Units)
  BY <1>1, LenProperties DEF AnswerTypeOK
<1>5. /\ down' \in Seq(Units) /\ Len(down') = k
      /\ \A i \in 1..k : down'[i] = down[i]
  <2>1. k \in Nat /\ k <= Len(down) /\ \A i \in 1..k : down[i] \in Units
    BY <1>3, <1>4
  <2>2. k = 0 \/ 1 <= k  BY <2>1
  <2> QED  BY <1>3, <1>4, <2>1, <2>2, SubSeqProperties
<1>6. /\ Len(down') >= got /\ Len(down') <= Len(down)
      /\ \A i \in 1..Len(down') : i \in 1..Len(down) /\ down'[i] = down[i]
  BY <1>3, <1>4, <1>5
<1>7. Answering' <=> Answering  BY <1>2 DEF Answering
<1>8. NoContent'
  <2>1. down' # <<>> => down # <<>> /\ down'[1] = down[1]
    <3>1. down' # <<>> => Len(down') >= 1  BY <1>5, LenProperties, EmptySeq
    <3> QED  BY <1>4, <1>5, <1>6, <3>1
  <2> QED  BY <1>1, <1>2, <1>7, <2>1 DEF AnswerInv, NoContent
<1>9. Streams'
  <2>1. SUFFICES ASSUME Answering PROVE Streams'  BY <1>7 DEF Streams
  <2>2. Preface' = Preface /\ ContentLen' = ContentLen  BY <1>2, SamePreface
  <2>3. /\ job.pos \in Nat /\ Len(Preface) \in Nat
        /\ Len(down) \in Nat /\ Len(down') \in Nat
    BY <1>1, <1>4, <1>5, <2>1, PrefaceFacts, LenProperties DEF SessionInv, AnswerTypeOK, Jobs
  <2>4. ~filled => Len(down') <= Len(Preface) + job.pos
    BY <1>1, <1>6, <2>1, <2>3 DEF AnswerInv, Streams
  <2>5. \A i \in 1..Len(down') : i <= Len(Preface) => down'[i] = Preface[i]
    BY <1>1, <1>6, <2>1 DEF AnswerInv, Streams
  <2>6. ~filled => \A i \in 1..Len(down') :
                     i > Len(Preface) => down'[i] = <<"BYTE", i - Len(Preface)>>
    BY <1>1, <1>6, <2>1 DEF AnswerInv, Streams
  <2> QED  BY <1>1, <1>2, <2>1, <2>2, <2>4, <2>5, <2>6 DEF AnswerInv, Streams
<1>10. /\ job' \in Jobs
       /\ shut' \in BOOLEAN /\ (cut' => shut')
       /\ filled' \in BOOLEAN /\ (filled => filled') /\ cut' \in BOOLEAN /\ (cut => cut')
  BY <1>1, <1>2 DEF AnswerTypeOK
<1> QED  BY <1>2, <1>5, <1>6, <1>7, <1>8, <1>9, <1>10, ServerChange

LEMMA WriteFailsChange ==
  ASSUME SessionInv, WriteFails
  PROVE  AnswerInv'
<1>1. AnswerInv /\ AnswerTypeOK  BY DEF SessionInv, AnswerInv
<1>2. /\ UNCHANGED <<file, cut, clientVars, req>>
      /\ UNCHANGED <<state, action, names, copied, total_bytes, overrun>>
      /\ filled' = TRUE /\ Answering /\ ~shut /\ ~cut
      /\ (action = "GET" /\ UNCHANGED <<down, shut>>) \/ (shut' = TRUE /\ UNCHANGED job)
  BY <1>1 DEF WriteFails, Writing, requestVars, listVars, Answering, AnswerInv
<1>3. /\ Chunk \in Nat /\ job.pos \in Nat /\ job.pos + Chunk <= ContentLen
      /\ ContentLen \in Nat
  BY <1>2, ChunkFacts
<1>4. /\ job' \in Jobs
      /\ job.step = "content" /\ UNCHANGED <<job.step, job.size>>
      /\ job'.pos <= ContentLen
  <2>1. job' = job \/ job' = [job EXCEPT !.pos = @ + Chunk, !.written = 0]
    BY DEF WriteFails
  <2>2. job \in Jobs
    BY <1>1 DEF AnswerTypeOK
  <2>3. job.step = "content" /\ job.pos <= ContentLen
    BY <1>1, <1>2, ChunkFacts DEF AnswerInv, Streams, WriteFails
  <2> HIDE DEF Chunk, ContentLen
  <2>4. CASE job' = job  BY <2>2, <2>3, <2>4
  <2>5. CASE job' = [job EXCEPT !.pos = @ + Chunk, !.written = 0]
    <3>1. /\ UNCHANGED <<job.step, job.size>>
          /\ job'.pos = job.pos + Chunk /\ job'.written = 0
      BY <2>2, <2>5 DEF Jobs
    <3>2. job' \in Jobs
      <4> DEFINE p == job.pos + Chunk
      <4>1. p \in Nat /\ job' = [job EXCEPT !.pos = p, !.written = 0]
        BY <1>3, <2>5
      <4> HIDE DEF p
      <4> QED  BY <2>2, <4>1 DEF Jobs
    <3> QED  BY <1>3, <2>3, <3>1, <3>2
  <2> QED  BY <2>1, <2>4, <2>5
<1>5. /\ down' \in Seq(Units) /\ Len(down') >= Len(down)
      /\ \A k \in 1..Len(down) : down'[k] = down[k]
  <2>1. <<Unit("ERROR"), Unit("BAD_FILE_SIZE")>> \in Seq(Units)  BY UnitFacts
  <2>2. CASE UNCHANGED down  BY <1>1, <2>2, LenProperties DEF AnswerTypeOK
  <2>3. CASE down' = Deliver(<<Unit("ERROR"), Unit("BAD_FILE_SIZE")>>)
    BY <1>1, <2>1, <2>3, DeliverFacts
  <2> QED  BY <2>2, <2>3 DEF WriteFails
<1>6. got \in Nat /\ got <= Len(down) /\ Len(down) \in Nat /\ Len(down') \in Nat
  BY <1>1, <1>5, LenProperties DEF AnswerTypeOK
<1>7. Answering' /\ Preface' = Preface /\ ContentLen' = ContentLen
  BY <1>2, <1>4, SamePreface DEF Answering
<1>8. NoContent'  BY <1>7 DEF NoContent
<1>9. Streams'
  <2>1. Len(down) >= Len(Preface) /\ Len(Preface) \in Nat
    BY <1>1, <1>2, PrefaceFacts DEF SessionInv, AnswerInv, Streams
  <2>2. \A k \in 1..Len(down') : k <= Len(Preface) => down'[k] = Preface[k]
    BY <1>1, <1>2, <1>5, <1>6, <2>1 DEF AnswerInv, Streams
  <2>3. Len(down') >= Len(Preface)  BY <1>5, <1>6, <2>1
  <2> QED  BY <1>1, <1>2, <1>4, <1>7, <2>2, <2>3 DEF AnswerInv, Streams
<1>10. /\ shut' \in BOOLEAN /\ (cut' => shut')
       /\ filled' \in BOOLEAN /\ (filled => filled') /\ cut' \in BOOLEAN /\ (cut => cut')
  BY <1>1, <1>2 DEF AnswerTypeOK
<1>11. Len(down') >= got  BY <1>5, <1>6
<1> QED  BY <1>2, <1>4, <1>5, <1>7, <1>8, <1>9, <1>10, <1>11, ServerChange

(* The answer begins. *)
LEMMA AnnounceChange ==
  ASSUME SessionInv, NEW step \in {"content", "unopened"}, NEW n \in Nat,
         Announce(step, n),
         ~Answering, ~shut, state = "HANDLING_VERB", action \in {"GET", "LIST"},
         action = "LIST" => step = "content" /\ copied' = Len(names') /\ n = total_bytes',
         action = "GET" /\ step = "content" => n = file
  PROVE  AnswerInv'
<1> DEFINE units == Announcement(n)
<1>1. AnswerInv /\ AnswerTypeOK  BY DEF SessionInv, AnswerInv
<1>2. units \in Seq(Units) /\ Len(units) <= 3
  <2>1. Unit("OK") \in Units /\ Unit("HERE") \in Units /\ <<"SIZE", n>> \in Units
    BY DEF Units
  <2> HIDE DEF Unit, Units
  <2>2. CASE action = "GET"  BY <2>1, <2>2 DEF Announcement
  <2>3. CASE action = "LIST"  BY <2>1, <2>3 DEF Announcement
  <2> QED  BY <2>2, <2>3
<1> HIDE DEF units
<1>3. CASE ClientGone
  <2>1. Conclude(units)  BY <1>3 DEF Announce, units
  <2> QED  BY <1>2, <1>3, <2>1, ConcludeChange
<1>4. CASE ~ClientGone
  <2>1. /\ UNCHANGED <<shut, file, filled, cut, clientVars, req, state, action>>
        /\ down' = Deliver(units) /\ job' = [job EXCEPT !.step = step, !.size = n]
    BY <1>4 DEF Announce, requestVars, units
  <2>2. /\ job' \in Jobs /\ job'.step = step /\ job'.size = n
        /\ job'.pos = 0 /\ job'.written = 0
    <3>1. job.pos = 0 /\ job.written = 0  BY <1>1 DEF AnswerInv, NoContent
    <3>2. job \in Jobs  BY <1>1 DEF AnswerTypeOK
    <3> QED  BY <2>1, <3>1, <3>2 DEF Jobs
  <2>3. down = <<>> /\ got = 0
    <3>1. down = <<>>  BY <1>1 DEF AnswerInv, NoContent
    <3> QED  BY <1>1, <3>1 DEF AnswerTypeOK
  <2>4. down' = units /\ units = Preface'
    <3>1. Deliver(units) = units  BY <1>1, <1>2, <1>4, <2>3, DeliverFacts
    <3> QED  BY <2>1, <2>2, <3>1 DEF Preface, Announcement, units
  <2>5. Answering'  BY <2>2 DEF Answering
  <2>6. NoContent'  BY <2>5 DEF NoContent
  <2>7. cut = FALSE /\ (cut' => shut') /\ filled = FALSE
    BY <1>1, <2>1 DEF AnswerInv, AnswerTypeOK, NoContent
  <2>8. Streams'
    <3>1. down' = Preface' /\ Len(Preface') \in Nat  BY <1>2, <2>4, LenProperties
    <3>2. /\ Len(down') = Len(Preface') + job'.pos
          /\ \A k \in 1..Len(down') : ~(k > Len(Preface'))
      BY <2>2, <3>1
    <3>3. /\ ContentLen' \in Nat /\ job'.pos <= ContentLen'
          /\ job'.step = "content" => job'.size = ContentLen'
      <4>1. CASE action = "LIST"  BY <2>1, <2>2, <4>1 DEF ContentLen
      <4>2. CASE action = "GET" /\ step = "content"
        BY <2>1, <2>2, <4>2 DEF ContentLen, FileLen
      <4>3. CASE action = "GET" /\ step = "unopened"
        BY <2>1, <2>2, <4>3 DEF ContentLen, FileLen
      <4> QED  BY <4>1, <4>2, <4>3
    <3>4. /\ shut' = FALSE /\ state' = "HANDLING_VERB" /\ action' = action
          /\ job'.step = "unopened" => action' = "GET" /\ ~filled'
      BY <1>1, <2>1, <2>2, <2>7 DEF AnswerTypeOK
    <3>5. Len(down') <= Len(Preface') + job'.pos /\ Len(down') >= Len(Preface')
      BY <2>2, <3>1, <3>2
    <3> QED  BY <2>2, <3>1, <3>2, <3>3, <3>4, <3>5 DEF Streams
  <2>9. Len(down') >= got  BY <1>2, <2>3, <2>4, LenProperties
  <2>10. /\ shut' \in BOOLEAN /\ filled' \in BOOLEAN /\ (filled => filled')
         /\ cut' \in BOOLEAN /\ (cut => cut') /\ down' \in Seq(Units)
    BY <1>1, <1>2, <2>1, <2>4 DEF AnswerTypeOK
  <2> QED  BY <2>1, <2>2, <2>6, <2>7, <2>8, <2>9, <2>10, ServerChange
<1> QED  BY <1>3, <1>4

LEMMA AnswersBegin ==
  ASSUME SessionInv, AnswerGet \/ AnswerList
  PROVE  AnswerInv'
<1>1. AnswerInv /\ AnswerTypeOK /\ ListTypeOK /\ CountsNames
  BY DEF SessionInv, AnswerInv, ListInv
<1>2. CASE AnswerGet
  <2>1. /\ ~Answering /\ ~shut /\ state = "HANDLING_VERB" /\ action = "GET" /\ file # -1
    BY <1>2 DEF AnswerGet, Handling, Answering
  <2>2. file \in Nat  BY <1>1, <2>1 DEF AnswerTypeOK
  <2>3. CASE Announce("content", file)
    BY <2>1, <2>2, <2>3, AnnounceChange
  <2>4. CASE \E n \in Garbage : Announce("unopened", n)
    <3>1. PICK n \in Garbage : Announce("unopened", n)  BY <2>4
    <3>2. n \in Nat  BY AnswerAssumption
    <3> QED  BY <2>1, <3>1, <3>2, AnnounceChange
  <2> QED  BY <1>2, <2>3, <2>4 DEF AnswerGet
<1>3. CASE AnswerList
  <2>1. /\ Announce("content", total_bytes') /\ ~More /\ UNCHANGED <<names, copied>>
        /\ total_bytes' \in {total_bytes} \cup (IF names = <<>> THEN {} ELSE {total_bytes - 1})
        /\ ~Answering /\ ~shut /\ state = "HANDLING_VERB" /\ action = "LIST"
    BY <1>3 DEF AnswerList, Handling, Answering
  <2>2. copied = Len(names)
    BY <1>1, <2>1 DEF ListTypeOK, More
  <2>3. total_bytes' \in Nat
    <3>1. total_bytes \in Nat /\ names \in Seq(Nat \ {0})  BY <1>1 DEF ListTypeOK
    <3>2. CASE names # <<>>
      <4>1. Len(names) \in Nat /\ Len(names) # 0  BY <3>1, <3>2, EmptySeq, LenProperties
      <4>2. copied <= total_bytes  BY <1>1, <2>1 DEF CountsNames
      <4> QED  BY <2>1, <2>2, <3>1, <4>1, <4>2
    <3> QED  BY <2>1, <3>1, <3>2
  <2>4. copied' = Len(names')  BY <2>1, <2>2
  <2> QED  BY <2>1, <2>3, <2>4, AnnounceChange
<1> QED  BY <1>2, <1>3

LEMMA WriteSomeChange ==
  ASSUME SessionInv, WriteSome
  PROVE  AnswerInv'
<1> DEFINE n == Chunk
           res == Least(n, Room)
           more == Bytes(job.pos + 1, job.pos + res)
<1>1. AnswerInv /\ AnswerTypeOK  BY DEF SessionInv, AnswerInv
<1>2. /\ UNCHANGED <<file, shut, cut, clientVars, req>>
      /\ UNCHANGED <<state, action, names, copied, total_bytes, overrun>>
      /\ Answering /\ ~shut /\ ~cut /\ n > 0 /\ res > 0
      /\ down' = down \o more /\ filled' = (filled \/ res < n)
      /\ job' = IF job.written + res = n
                THEN [job EXCEPT !.pos = @ + n, !.written = 0]
                ELSE [job EXCEPT !.written = @ + res]
  BY <1>1 DEF WriteSome, Writing, requestVars, listVars, Answering, AnswerInv
<1>3. /\ n \in Nat /\ job.pos \in Nat /\ job.pos + n <= ContentLen
      /\ ContentLen \in Nat
  BY <1>2, ChunkFacts
<1>4. /\ got \in Nat /\ got <= Len(down) /\ Len(down) \in Nat /\ down \in Seq(Units)
      /\ job \in Jobs
      /\ job.written \in Nat
  BY <1>1, LenProperties DEF AnswerTypeOK, Jobs
<1>5. res \in Nat /\ res <= n
  <2>1. Room \in Int  BY <1>4, AnswerAssumption DEF Room
  <2>2. res = IF n <= Room THEN n ELSE Room  BY DEF Least
  <2> HIDE DEF n, res
  <2> QED  BY <1>2, <1>3, <2>1, <2>2
<1>6. /\ more \in Seq(Units) /\ Len(more) = res
      /\ \A k \in 1..res : more[k] = <<"BYTE", job.pos + k>>
  <2> DEFINE p == job.pos
  <2>1. /\ p + 1 \in Nat /\ p + res \in Nat /\ p + 1 <= (p + res) + 1
        /\ (p + res) - (p + 1) + 1 = res
        /\ \A k \in 1..res : (p + 1) + k - 1 = p + k
    BY <1>3, <1>5
  <2>2. /\ more \in Seq(Units) /\ Len(more) = (p + res) - (p + 1) + 1
        /\ \A k \in 1..((p + res) - (p + 1) + 1) : more[k] = <<"BYTE", (p + 1) + k - 1>>
    BY <2>1, BytesFacts
  <2> HIDE DEF p, res, more
  <2>3. Len(more) = res  BY <2>1, <2>2
  <2>4. \A k \in 1..res : more[k] = <<"BYTE", p + k>>  BY <2>1, <2>2
  <2> QED  BY <2>2, <2>3, <2>4 DEF p
<1> HIDE DEF n, res, more
<1>7. /\ down' \in Seq(Units) /\ Len(down') = Len(down) + res
      /\ \A k \in 1..Len(down) : down'[k] = down[k]
      /\ \A k \in 1..res : down'[Len(down) + k] = more[k]
  <2>1. down' \in Seq(Units)  BY <1>2, <1>4, <1>6
  <2>2. /\ Len(down \o more) = Len(down) + Len(more)
        /\ \A k \in 1..Len(down) : (down \o more)[k] = down[k]
        /\ \A k \in 1..Len(more) : (down \o more)[Len(down) + k] = more[k]
    <3> DEFINE d == Len(down)
               e == Len(more)
    <3>1. /\ Len(down \o more) = d + e /\ d \in Nat /\ e \in Nat
          /\ \A i \in 1..(d + e) : (down \o more)[i] =
                                   IF i <= d THEN down[i] ELSE more[i - d]
      BY <1>4, <1>6, ConcatProperties, LenProperties
    <3> HIDE DEF d, e
    <3>2. \A k \in 1..d : k \in 1..(d + e) /\ k <= d  BY <3>1
    <3>3. \A k \in 1..e : d + k \in 1..(d + e) /\ ~(d + k <= d) /\ (d + k) - d = k
      BY <3>1
    <3>4. \A k \in 1..d : (down \o more)[k] = down[k]  BY <3>1, <3>2
    <3>5. \A k \in 1..e : (down \o more)[d + k] = more[k]
      <4> SUFFICES ASSUME NEW k \in 1..e PROVE (down \o more)[d + k] = more[k]
        OBVIOUS
      <4> QED  BY <3>1, <3>3
    <3> QED  BY <3>1, <3>4, <3>5 DEF d, e
  <2>3. down' = down \o more /\ Len(more) = res  BY <1>2, <1>6
  <2> QED  BY <2>1, <2>2, <2>3
<1>8. /\ job' \in Jobs
      /\ job.step = "content" /\ UNCHANGED <<job.step, job.size>> /\ job'.pos <= ContentLen
      /\ job.written = 0 /\ res = n => job'.pos = job.pos + n /\ job'.written = 0
  <2>1. job.step = "content" /\ job.pos <= ContentLen
    BY <1>1, <1>2, ChunkFacts DEF AnswerInv, Streams, n
  <2>2. CASE job.written + res = n
    <3> DEFINE p == job.pos + n
    <3>1. p \in Nat /\ p <= ContentLen /\ job' = [job EXCEPT !.pos = p, !.written = 0]
      BY <1>2, <1>3, <2>2
    <3>2. p = job.pos + n  OBVIOUS
    <3> HIDE DEF p
    <3> QED  BY <1>4, <2>1, <3>1, <3>2 DEF Jobs
  <2>3. CASE job.written + res # n
    <3> DEFINE w == job.written + res
    <3>1. w \in Nat /\ job' = [job EXCEPT !.written = w] /\ ~(job.written = 0 /\ res = n)
      BY <1>2, <1>3, <1>4, <1>5, <2>3
    <3> HIDE DEF w
    <3> QED  BY <1>4, <2>1, <3>1 DEF Jobs
  <2> QED  BY <2>2, <2>3
<1>9. Answering' /\ Preface' = Preface /\ ContentLen' = ContentLen
  BY <1>2, <1>8, SamePreface DEF Answering
<1>10. NoContent'  BY <1>9 DEF NoContent
<1>11. Streams'
  <2>1. Len(down) >= Len(Preface) /\ Len(Preface) \in Nat
    BY <1>1, <1>2, PrefaceFacts DEF SessionInv, AnswerInv, Streams
  <2>2. \A k \in 1..Len(down') : k <= Len(Preface) => down'[k] = Preface[k]
    <3>1. \A k \in 1..Len(down) : k <= Len(Preface) => down[k] = Preface[k]
      BY <1>1, <1>2 DEF AnswerInv, Streams
    <3> QED  BY <1>4, <1>7, <2>1, <3>1
  <2>3. Len(down') >= Len(Preface)  BY <1>4, <1>5, <1>7, <2>1
  <2>4. ASSUME ~filled'
        PROVE  /\ job'.written = 0
               /\ Len(down') = Len(Preface) + job'.pos
               /\ \A k \in 1..Len(down') :
                    k > Len(Preface) => down'[k] = <<"BYTE", k - Len(Preface)>>
    <3>1. ~filled /\ res = n
      <4>1. ~filled /\ ~(res < n)
        <5>1. filled' = (filled \/ res < n)  BY <1>2
        <5> QED  BY <2>4, <5>1
      <4> QED  BY <1>3, <1>5, <4>1
    <3>2. /\ job.written = 0 /\ Len(down) = Len(Preface) + job.pos
          /\ \A k \in 1..Len(down) :
               k > Len(Preface) => down[k] = <<"BYTE", k - Len(Preface)>>
      BY <1>1, <1>2, <3>1 DEF AnswerInv, Streams
    <3>3. job'.written = 0 /\ job'.pos = job.pos + n  BY <1>8, <3>1, <3>2
    <3>4. Len(down') = Len(Preface) + job'.pos
      BY <1>3, <1>7, <2>1, <3>1, <3>2, <3>3
    <3>5. ASSUME NEW k \in 1..Len(down'), k > Len(Preface)
          PROVE  down'[k] = <<"BYTE", k - Len(Preface)>>
      <4>1. CASE k <= Len(down)
        <5>1. k \in 1..Len(down)  BY <1>4, <4>1
        <5> QED  BY <1>7, <3>2, <3>5, <5>1
      <4>2. CASE k > Len(down)
        <5> DEFINE i == k - Len(down)
        <5>1. i \in 1..res /\ Len(down) + i = k  BY <1>4, <1>5, <1>7, <4>2
        <5>2. job.pos + i = k - Len(Preface)  BY <1>3, <1>4, <2>1, <3>2
        <5> HIDE DEF i
        <5>3. down'[k] = more[i]  BY <1>7, <5>1
        <5> QED  BY <1>6, <5>1, <5>2, <5>3
      <4> QED  BY <1>4, <4>1, <4>2
    <3> QED  BY <3>3, <3>4, <3>5
  <2>5. ~filled' => Len(down') <= Len(Preface) + job'.pos
    <3>1. Len(down') \in Nat  BY <1>4, <1>5, <1>7
    <3> QED  BY <2>4, <3>1
  <2> QED  BY <1>1, <1>2, <1>3, <1>8, <1>9, <2>2, <2>3, <2>4, <2>5 DEF AnswerInv, Streams
<1>12. /\ shut' \in BOOLEAN /\ (cut' => shut')
       /\ filled' \in BOOLEAN /\ (filled => filled') /\ cut' \in BOOLEAN /\ (cut => cut')
  BY <1>1, <1>2 DEF AnswerTypeOK
<1>13. Len(down') >= got  BY <1>4, <1>5, <1>7
<1> QED  BY <1>2, <1>7, <1>8, <1>9, <1>10, <1>11, <1>12, <1>13, ServerChange

-----------------------------------------------------------------------------
(***************************************************************************)
(* The client's steps.                                                     *)
(***************************************************************************)
(* What the client knows of the stream. *)
LEMMA ClientFacts ==
  ASSUME SessionInv, UNCHANGED <<serverVars, requestVars, listVars>>
  PROVE  /\ AnswerInv /\ AnswerTypeOK /\ RequestInv
         /\ UNCHANGED <<file, down, shut, job, filled, cut, req, state, action>>
         /\ UNCHANGED <<names, copied, total_bytes, overrun>>
         /\ UNCHANGED <<Answering, Preface, ContentLen>>
         /\ down \in Seq(Units) /\ Len(down) \in Nat /\ got \in Nat /\ got <= Len(down)
         /\ block \in Seq(Units) /\ local \in Seq(Units)
         /\ Len(block) \in Nat /\ Len(local) \in Nat
         /\ pc \in Steps
<1>1. AnswerInv /\ AnswerTypeOK /\ RequestInv  BY DEF SessionInv, AnswerInv
<1>2. /\ UNCHANGED <<file, down, shut, job, filled, cut, req, state, action>>
      /\ UNCHANGED <<names, copied, total_bytes, overrun>>
  BY DEF serverVars, requestVars, listVars
<1>3. UNCHANGED <<Answering, Preface, ContentLen>>
  BY <1>2, SamePreface DEF Answering
<1> QED  BY <1>1, <1>2, <1>3, LenProperties DEF AnswerTypeOK

(* A client that ends with nothing to say, or with an error it was told. *)
LEMMA ClientQuits ==
  ASSUME SessionInv, UNCHANGED <<serverVars, requestVars, listVars>>,
         ~ClientGone, pc' \in Final, pc' # "end" \/ req.verb # "GET",
         got' \in 0..Len(down), UNCHANGED <<block, local>>,
         said' \in {{}, {"ERROR"}, {"SUCCESS"}}
  PROVE  AnswerInv'
<1>1. /\ AnswerInv /\ AnswerTypeOK
      /\ UNCHANGED req
      /\ block' \in Seq(Units) /\ local' \in Seq(Units)
  BY ClientFacts
<1>2. pc' \in Steps /\ ClientGone'  BY DEF Steps, ClientGone
<1>3. ReadsOn'  BY <1>2 DEF ClientGone, Final, ReadsOn
<1>4. Says'  BY <1>1, <1>2 DEF Says
<1>5. DownloadIntact' /\ ListIntact' /\ ComplaintsHaveACause'
  BY <1>1 DEF DownloadIntact, ListIntact, ComplaintsHaveACause
<1> QED  BY <1>1, <1>2, <1>3, <1>4, <1>5, ClientChange

(* A client that reads on has said nothing yet, and nothing is claimed. *)
LEMMA ClientGoesOn ==
  ASSUME SessionInv, UNCHANGED <<serverVars, requestVars, listVars>>,
         ~ClientGone, UNCHANGED said, pc' \in Steps \ Final,
         got' \in 0..Len(down), block' \in Seq(Units), local' \in Seq(Units),
         ReadsOn'
  PROVE  AnswerInv'
<1>1. said = {}  BY DEF SessionInv, AnswerInv, Says
<1>2. Says'  BY <1>1 DEF Says, Final
<1>3. DownloadIntact' /\ ListIntact' /\ ComplaintsHaveACause'
  BY <1>1 DEF DownloadIntact, ListIntact, ComplaintsHaveACause, Final
<1> QED  BY <1>2, <1>3, ClientChange

LEMMA KillChange ==
  ASSUME SessionInv, Kill
  PROVE  AnswerInv'
<1>1. said = {}  BY DEF SessionInv, AnswerInv, Says, Kill
<1>2. UNCHANGED <<serverVars, requestVars, listVars>>  BY DEF Kill
<1>3. got' \in 0..Len(down)
  BY <1>2, ClientFacts DEF Kill, AnswerTypeOK
<1> QED  BY <1>1, <1>2, <1>3, ClientQuits DEF Kill, Final

LEMMA SendNamesChange ==
  ASSUME SessionInv, SendNames
  PROVE  AnswerInv'
<1>1. UNCHANGED <<serverVars, requestVars, listVars>>  BY DEF SendNames
<1>2. ~ClientGone /\ pc' \in Steps \ Final
  BY DEF SendNames, ClientGone, Final, Steps
<1>3. /\ got' \in 0..Len(down) /\ block' \in Seq(Units) /\ local' \in Seq(Units)
      /\ AnswerInv /\ UNCHANGED req
  BY <1>1, ClientFacts DEF SendNames, AnswerTypeOK
<1>4. ReadsOn'
  BY <1>3 DEF SendNames, AnswerInv, ReadsOn
<1> QED  BY <1>1, <1>2, <1>3, <1>4, ClientGoesOn DEF SendNames

LEMMA ReadStatusChange ==
  ASSUME SessionInv, ReadStatus, UNCHANGED <<serverVars, requestVars, listVars>>
  PROVE  AnswerInv'
<1>1. /\ AnswerInv /\ AnswerTypeOK /\ UNCHANGED <<req, down>>
      /\ UNCHANGED <<Answering, Preface, ContentLen>>
      /\ down \in Seq(Units) /\ Len(down) \in Nat /\ got \in Nat /\ got <= Len(down)
      /\ block \in Seq(Units) /\ local \in Seq(Units)
  BY ClientFacts
<1>2. ~ClientGone /\ pc = "status"  BY DEF ReadStatus, ClientGone, Final
<1>3. got = 0 /\ block = <<>> /\ local = <<>> /\ said = {}
  BY <1>1, <1>2 DEF AnswerInv, ReadsOn, Says
<1>4. UNCHANGED <<block, local>>  BY DEF ReadStatus
<1>5. AfterFailure \in Final /\ (AfterFailure = "end" => req.verb # "GET")
  BY DEF AfterFailure, Final
<1>6. CASE Arrives /\ NextUnit = Unit("OK") /\ got' = got + 1 /\ pc' = AfterOK
           /\ said' = IF req.verb \in {"DELETE", "ADD_SERVER"} THEN {"SUCCESS"} ELSE said
  <2>1. got' = 1 /\ got' \in 0..Len(down) /\ down # <<>> /\ down[1] = Unit("OK")
    <3>1. got' = 1 /\ Len(down) > 0 /\ down[1] = Unit("OK")
      BY <1>1, <1>3, <1>6 DEF Arrives, NextUnit
    <3> QED  BY <1>1, <3>1, EmptySeq
  <2>2. CASE req.verb \in {"GET", "LIST"}
    <3>1. Answering  BY <1>1, <2>1, <2>2 DEF AnswerInv, NoContent
    <3>2. Len(Preface) = 2 \/ req.verb = "GET"
      BY <1>1, <2>2, <3>1, PrefaceFacts DEF SessionInv
    <3>3. UNCHANGED said /\ pc' = IF req.verb = "GET" THEN "address" ELSE "size"
      BY <1>6, <2>2 DEF AfterOK
    <3>4. ReadsOn'
      <4>1. pc' = "size" => got' = Len(Preface') - 1
        BY <1>1, <2>1, <2>2, <3>2, <3>3
      <4> QED  BY <1>1, <1>3, <1>4, <2>1, <2>2, <3>1, <3>3, <4>1 DEF ReadsOn
    <3>5. pc' \in Steps \ Final  BY <3>3 DEF Steps, Final
    <3> QED  BY <1>1, <1>2, <1>4, <2>1, <3>3, <3>4, <3>5, ClientGoesOn
  <2>3. CASE req.verb \notin {"GET", "LIST"}
    <3>1. pc' \in Final /\ said' \in {{}, {"ERROR"}, {"SUCCESS"}}
      BY <1>3, <1>6, <2>3 DEF AfterOK, Final
    <3> QED  BY <1>1, <1>2, <1>4, <2>1, <2>3, <3>1, ClientQuits
  <2> QED  BY <2>2, <2>3
<1>7. CASE got' = Len(down) /\ pc' = AfterFailure /\ said' = {"ERROR"}
  <2>1. got' \in 0..Len(down)  BY <1>1, <1>7
  <2> QED  BY <1>2, <1>4, <1>5, <1>7, <2>1, ClientQuits
<1>8. CASE pc' = AfterFailure /\ UNCHANGED <<got, said>>
  <2>1. got' \in 0..Len(down) /\ said' = {}  BY <1>1, <1>3, <1>8
  <2>2. pc' # "end" \/ req.verb # "GET"  BY <1>5, <1>8
  <2> QED  BY <1>2, <1>4, <1>5, <1>8, <2>1, <2>2, ClientQuits
<1> QED  BY <1>6, <1>7, <1>8 DEF ReadStatus

LEMMA ReadAddressChange ==
  ASSUME SessionInv, ReadAddress, UNCHANGED <<serverVars, requestVars, listVars>>
  PROVE  AnswerInv'
<1>1. /\ AnswerInv /\ AnswerTypeOK /\ UNCHANGED <<req, down>>
      /\ UNCHANGED <<Answering, Preface, ContentLen>>
      /\ down \in Seq(Units) /\ Len(down) \in Nat /\ got \in Nat /\ got <= Len(down)
      /\ block \in Seq(Units) /\ local \in Seq(Units)
  BY ClientFacts
<1>2. ~ClientGone /\ pc = "address"  BY DEF ReadAddress, ClientGone, Final
<1>3. got = 1 /\ block = <<>> /\ local = <<>> /\ said = {} /\ Answering /\ req.verb = "GET"
  BY <1>1, <1>2 DEF AnswerInv, ReadsOn, Says
<1>4. UNCHANGED <<block, local, said>>  BY DEF ReadAddress
<1>5. CASE Arrives /\ got' = got + 1 /\ pc' = "size"
  <2>1. got' = 2 /\ got' \in 0..Len(down)  BY <1>1, <1>3, <1>5 DEF Arrives
  <2>2. Len(Preface) = 3
    BY <1>1, <1>3, PrefaceFacts DEF SessionInv
  <2>3. ReadsOn'
    <3>1. got' = Len(Preface') - 1  BY <1>1, <2>1, <2>2
    <3> QED  BY <1>1, <1>3, <1>4, <1>5, <3>1 DEF ReadsOn
  <2>4. pc' \in Steps \ Final  BY <1>5 DEF Steps, Final
  <2> QED  BY <1>1, <1>2, <1>4, <2>1, <2>3, <2>4, ClientGoesOn
<1>6. CASE pc' = "exit1" /\ UNCHANGED got
  <2>1. got' \in 0..Len(down) /\ said' = {} /\ pc' \in Final /\ pc' # "end"
    BY <1>1, <1>3, <1>4, <1>6 DEF Final
  <2> QED  BY <1>2, <1>4, <2>1, ClientQuits
<1> QED  BY <1>5, <1>6 DEF ReadAddress

LEMMA ReadSizeChange ==
  ASSUME SessionInv, ReadSize, UNCHANGED <<serverVars, requestVars, listVars>>
  PROVE  AnswerInv'
<1>1. /\ AnswerInv /\ AnswerTypeOK /\ UNCHANGED <<req, down, filled, job>>
      /\ UNCHANGED <<Answering, Preface, ContentLen>>
      /\ down \in Seq(Units) /\ Len(down) \in Nat /\ got \in Nat /\ got <= Len(down)
      /\ block \in Seq(Units) /\ local \in Seq(Units)
  BY ClientFacts
<1>2. ~ClientGone /\ pc = "size"  BY DEF ReadSize, ClientGone, Final
<1>3. /\ block = <<>> /\ local = <<>> /\ said = {} /\ Answering
      /\ req.verb \in {"GET", "LIST"} /\ got = Len(Preface) - 1
  BY <1>1, <1>2 DEF AnswerInv, ReadsOn, Says
<1>4. UNCHANGED <<block, local, said>>  BY DEF ReadSize
<1>5. CASE Arrives /\ got' = got + 1 /\ size' = NextUnit[2] /\ pc' = "payload"
  <2>1. /\ Len(Preface) \in Nat /\ Len(Preface) > 0
        /\ Preface[Len(Preface)] = <<"SIZE", job.size>> /\ job.size \in Nat
    BY <1>1, <1>3, PrefaceFacts DEF SessionInv
  <2>2. got' = Len(Preface) /\ got' \in 1..Len(down) /\ got' \in 0..Len(down)
    BY <1>1, <1>3, <1>5, <2>1 DEF Arrives
  <2>3. down[got'] = Preface[Len(Preface)]
    BY <1>1, <1>3, <2>1, <2>2 DEF AnswerInv, Streams
  <2>4. size' = job.size  BY <1>5, <2>1, <2>3 DEF NextUnit
  <2>5. ReadsOn'
    <3>1. Len(local') = 0 /\ Len(block') = 0  BY <1>3, <1>4, EmptySeq
    <3>2. got' = Len(Preface') + Len(local') + Len(block')  BY <1>1, <2>1, <2>2, <3>1
    <3>3. InBlock'  BY <1>1, <1>3, <1>4, <2>1, <2>4, <3>1, <3>2 DEF InBlock
    <3> QED  BY <1>1, <1>3, <1>5, <3>3 DEF ReadsOn
  <2>6. pc' \in Steps \ Final  BY <1>5 DEF Steps, Final
  <2> QED  BY <1>1, <1>2, <1>4, <2>2, <2>5, <2>6, ClientGoesOn
<1>6. CASE pc' = "exit1" /\ UNCHANGED <<got, size>>
  <2>1. got' \in 0..Len(down) /\ said' = {} /\ pc' \in Final /\ pc' # "end"
    BY <1>1, <1>3, <1>4, <1>6 DEF Final
  <2> QED  BY <1>2, <1>4, <2>1, ClientQuits
<1> QED  BY <1>5, <1>6 DEF ReadSize

(* A client that reads the content, while the socket never filled up.      *)
LEMMA PayloadFacts ==
  ASSUME SessionInv, pc = "payload"
  PROVE  /\ InBlock /\ Answering /\ req.verb \in {"GET", "LIST"} /\ req.verb = action
         /\ said = {} /\ size = job.size /\ size \in Nat
         /\ Len(Preface) \in Nat
         /\ Len(down) \in Nat /\ got \in Nat /\ got <= Len(down)
         /\ Len(block) \in Nat /\ Len(local) \in Nat
         /\ got = Len(Preface) + Len(local) + Len(block)
         /\ action = "GET" /\ job.step = "content" => size = file
         /\ action = "LIST" => size = total_bytes /\ job.step = "content"
         /\ job.step = "unopened" => Len(local) = 0
         /\ ~filled => /\ Len(local) + Len(block) <= size
                       /\ Len(down) <= Len(Preface) + size
                       /\ AtEnd /\ ~cut /\ job.step = "content" =>
                            Len(local) + Len(block) = size
                       /\ Arrives => NextUnit = <<"BYTE", Len(local) + Len(block) + 1>>
<1>1. AnswerInv /\ AnswerTypeOK /\ RequestInv  BY DEF SessionInv, AnswerInv
<1>2. /\ Answering /\ InBlock /\ req.verb \in {"GET", "LIST"} /\ said = {}
  BY <1>1 DEF AnswerInv, ReadsOn, Says, ClientGone, Final
<1>3. /\ req.verb = action /\ ContentLen \in Nat /\ Len(Preface) \in Nat
      /\ job.size \in Nat /\ ContentLen <= job.size
      /\ action = "GET" /\ job.step = "content" => job.size = file
      /\ action = "LIST" => job.size = total_bytes /\ job.step = "content"
      /\ job.step = "content" => ContentLen = job.size
      /\ job.step = "unopened" => ContentLen = 0 /\ ~filled
  BY <1>1, <1>2, PrefaceFacts
<1>4. /\ Len(down) \in Nat /\ got \in Nat /\ got <= Len(down)
      /\ Len(block) \in Nat /\ Len(local) \in Nat /\ job.pos \in Nat
  BY <1>1, LenProperties DEF AnswerTypeOK, Jobs
<1>5. got = Len(Preface) + Len(local) + Len(block) /\ size = job.size
  BY <1>2 DEF InBlock
<1>6. ASSUME ~filled
      PROVE  /\ Len(local) + Len(block) <= ContentLen
             /\ Len(down) <= Len(Preface) + ContentLen
             /\ AtEnd /\ ~cut => Len(local) + Len(block) = ContentLen
             /\ Arrives => NextUnit = <<"BYTE", Len(local) + Len(block) + 1>>
  <2>1. /\ job.pos <= ContentLen /\ Len(down) <= Len(Preface) + job.pos
        /\ ~cut => /\ Len(down) = Len(Preface) + job.pos
                   /\ shut => job.pos = ContentLen
        /\ \A k \in 1..Len(down) : k > Len(Preface) => down[k] = <<"BYTE", k - Len(Preface)>>
    BY <1>1, <1>2, <1>6 DEF AnswerInv, Streams
  <2> DEFINE a == Len(local)
             b == Len(block)
             c == ContentLen
             d == Len(down)
             p == Len(Preface)
             e == job.pos
  <2>2. /\ a \in Nat /\ b \in Nat /\ c \in Nat /\ d \in Nat /\ p \in Nat /\ e \in Nat
        /\ e <= c /\ d <= p + e /\ got = p + a + b /\ got <= d
        /\ ~cut => d = p + e /\ (shut => e = c)
    BY <1>3, <1>4, <1>5, <2>1
  <2>3. AtEnd <=> shut /\ got = d  BY DEF AtEnd
  <2> HIDE DEF a, b, c, d, p, e
  <2>5. a + b <= c /\ d <= p + c  BY <2>2
  <2>6. AtEnd /\ ~cut => a + b = c  BY <2>2, <2>3
  <2>4. ASSUME Arrives PROVE NextUnit = <<"BYTE", Len(local) + Len(block) + 1>>
    <3>1. /\ got + 1 \in 1..Len(down) /\ got + 1 > Len(Preface)
          /\ (got + 1) - Len(Preface) = Len(local) + Len(block) + 1
      BY <1>3, <1>4, <1>5, <2>4 DEF Arrives
    <3> QED  BY <2>1, <3>1 DEF NextUnit
  <2> QED  BY <2>4, <2>5, <2>6 DEF a, b, c, d, p
<1>7. job.step = "unopened" => Len(local) = 0
  <2> HIDE DEF ContentLen
  <2> QED  BY <1>3, <1>4, <1>6
<1>8. ~filled => /\ Len(local) + Len(block) <= size
                 /\ Len(down) <= Len(Preface) + size
                 /\ AtEnd /\ ~cut /\ job.step = "content" => Len(local) + Len(block) = size
  <2> SUFFICES ASSUME ~filled
               PROVE  /\ Len(local) + Len(block) <= size
                      /\ Len(down) <= Len(Preface) + size
                      /\ AtEnd /\ ~cut /\ job.step = "content" =>
                           Len(local) + Len(block) = size
    OBVIOUS
  <2> DEFINE c == ContentLen
             x == Len(local) + Len(block)
  <2>1. /\ x <= c /\ Len(down) <= Len(Preface) + c /\ (AtEnd /\ ~cut => x = c)
        /\ x \in Nat /\ c \in Nat /\ size \in Nat /\ c <= size
        /\ Len(down) \in Nat /\ Len(Preface) \in Nat
        /\ job.step = "content" => c = size
    BY <1>3, <1>4, <1>5, <1>6
  <2> HIDE DEF c, x
  <2>2. x <= size /\ Len(down) <= Len(Preface) + size  BY <2>1
  <2>3. AtEnd /\ ~cut /\ job.step = "content" => x = size  BY <2>1
  <2> QED  BY <2>2, <2>3 DEF x
<1> QED  BY <1>2, <1>3, <1>4, <1>5, <1>6, <1>7, <1>8

LEMMA ReadByteChange ==
  ASSUME SessionInv, ReadByte, UNCHANGED <<serverVars, requestVars, listVars>>
  PROVE  AnswerInv'
<1>1. /\ UNCHANGED <<req, down, filled, job>> /\ UNCHANGED <<Answering, Preface, ContentLen>>
      /\ down \in Seq(Units) /\ block \in Seq(Units) /\ local \in Seq(Units)
  BY ClientFacts
<1>2. /\ pc = "payload" /\ ~ClientGone /\ Arrives /\ UNCHANGED <<pc, local, size, said>>
      /\ got' = got + 1 /\ block' = Append(block, NextUnit)
  BY DEF ReadByte, ClientGone, Final
<1>3. /\ InBlock /\ Answering /\ req.verb \in {"GET", "LIST"}
      /\ Len(Preface) \in Nat
      /\ Len(down) \in Nat /\ got \in Nat /\ got <= Len(down)
      /\ Len(block) \in Nat /\ Len(local) \in Nat
      /\ got = Len(Preface) + Len(local) + Len(block)
      /\ ~filled => NextUnit = <<"BYTE", Len(local) + Len(block) + 1>>
  BY <1>2, PayloadFacts
<1>4. got' \in 0..Len(down)  BY <1>2, <1>3 DEF Arrives
<1>5. NextUnit \in Units
  <2>1. got + 1 \in 1..Len(down)  BY <1>2, <1>3 DEF Arrives
  <2> QED  BY <1>1, <2>1 DEF NextUnit
<1>6. /\ block' \in Seq(Units) /\ Len(block') = Len(block) + 1
      /\ \A k \in 1..Len(block) : block'[k] = block[k]
      /\ block'[Len(block) + 1] = NextUnit
  <2> HIDE DEF NextUnit, Units
  <2> QED  BY <1>1, <1>2, <1>5, AppendProperties
<1>7. InBlock'
  <2>1. got' = Len(Preface') + Len(local') + Len(block')
    BY <1>1, <1>2, <1>3, <1>6
  <2>2. ASSUME ~filled, NEW k \in 1..Len(block')
        PROVE  block'[k] = <<"BYTE", Len(local) + k>>
    <3>1. CASE k <= Len(block)
      <4>1. k \in 1..Len(block)  BY <1>3, <1>6, <3>1
      <4> QED  BY <1>3, <1>6, <2>2, <4>1 DEF InBlock
    <3>2. CASE k > Len(block)
      <4>1. k = Len(block) + 1 /\ Len(local) + Len(block) + 1 = Len(local) + k
        BY <1>3, <1>6, <3>2
      <4> QED  BY <1>3, <1>6, <2>2, <4>1
    <3> QED  BY <1>3, <1>6, <3>1, <3>2
  <2> QED  BY <1>1, <1>2, <1>3, <2>1, <2>2 DEF InBlock
<1>8. ReadsOn'  BY <1>1, <1>2, <1>3, <1>7 DEF ReadsOn
<1>9. pc' \in Steps \ Final  BY <1>2 DEF Steps, Final
<1> QED  BY <1>1, <1>2, <1>4, <1>6, <1>8, <1>9, ClientGoesOn

LEMMA SaveBlockChange ==
  ASSUME SessionInv, SaveBlock, UNCHANGED <<serverVars, requestVars, listVars>>
  PROVE  AnswerInv'
<1>1. /\ UNCHANGED <<req, down, filled, job>> /\ UNCHANGED <<Answering, Preface, ContentLen>>
      /\ down \in Seq(Units) /\ block \in Seq(Units) /\ local \in Seq(Units)
  BY ClientFacts
<1>2. pc = "payload" /\ ~ClientGone /\ UNCHANGED <<got, size>> /\ req.verb = "GET"
  BY DEF SaveBlock, ClientGone, Final
<1>3. /\ InBlock /\ Answering /\ said = {} /\ size \in Nat
      /\ Len(Preface) \in Nat
      /\ Len(down) \in Nat /\ got \in Nat /\ got <= Len(down)
      /\ Len(block) \in Nat /\ Len(local) \in Nat
      /\ got = Len(Preface) + Len(local) + Len(block)
      /\ ~filled => Len(local) + Len(block) <= size
  BY <1>2, PayloadFacts
<1>4. got' \in 0..Len(down)  BY <1>2, <1>3
<1>5. CASE /\ Len(local) + Len(block) > size
           /\ pc' = "exit1" /\ said' = {"TOO_MUCH"} /\ UNCHANGED <<block, local>>
  <2>1. filled
    <3> SUFFICES ASSUME ~filled PROVE FALSE  OBVIOUS
    <3> QED  BY <1>3, <1>5
  <2>2. filled'  BY <1>1, <2>1
  <2>3. pc' \in Steps /\ ClientGone'  BY <1>5 DEF Steps, Final, ClientGone
  <2>4. ReadsOn' /\ Says'
    BY <1>5, <2>3 DEF ReadsOn, Says
  <2>5. DownloadIntact' /\ ListIntact' /\ ComplaintsHaveACause'
    BY <1>5, <2>2 DEF DownloadIntact, ListIntact, ComplaintsHaveACause
  <2> QED  BY <1>1, <1>4, <1>5, <2>3, <2>4, <2>5, ClientChange
<1>6. CASE /\ ~(Len(local) + Len(block) > size)
           /\ local' = local \o block /\ block' = <<>> /\ UNCHANGED <<pc, said>>
  <2>1. /\ local' \in Seq(Units) /\ Len(local') = Len(local) + Len(block)
        /\ \A i \in 1..(Len(local) + Len(block)) :
             local'[i] = IF i <= Len(local) THEN local[i] ELSE block[i - Len(local)]
    BY <1>1, <1>6, ConcatProperties
  <2>2. block' \in Seq(Units) /\ Len(block') = 0  BY <1>6, EmptySeq
  <2>3. InBlock'
    <3>1. got' = Len(Preface') + Len(local') + Len(block') /\ Len(local') <= size'
      BY <1>1, <1>2, <1>3, <1>6, <2>1, <2>2
    <3>2. ASSUME ~filled, NEW k \in 1..Len(local')
          PROVE  local'[k] = <<"BYTE", k>>
      <4>1. CASE k <= Len(local)
        <5>1. k \in 1..Len(local) /\ local'[k] = local[k]
          BY <1>3, <2>1, <4>1
        <5> QED  BY <1>3, <3>2, <5>1 DEF InBlock
      <4>2. CASE ~(k <= Len(local))
        <5> DEFINE i == k - Len(local)
        <5>1. i \in 1..Len(block) /\ Len(local) + i = k /\ k \in 1..(Len(local) + Len(block))
          BY <1>3, <2>1, <4>2
        <5>2. local'[k] = block[i]  BY <2>1, <4>2, <5>1
        <5> HIDE DEF i
        <5> QED  BY <1>3, <3>2, <5>1, <5>2 DEF InBlock
      <4> QED  BY <4>1, <4>2
    <3> QED  BY <1>1, <1>2, <1>3, <2>2, <3>1, <3>2 DEF InBlock
  <2>4. ReadsOn'  BY <1>1, <1>2, <1>3, <1>6, <2>3 DEF ReadsOn
  <2>5. pc' \in Steps \ Final  BY <1>2, <1>6 DEF Steps, Final
  <2> QED  BY <1>2, <1>4, <1>6, <2>1, <2>2, <2>4, <2>5, ClientGoesOn
<1> QED  BY <1>5, <1>6 DEF SaveBlock

LEMMA FinishGetChange ==
  ASSUME SessionInv, FinishGet, UNCHANGED <<serverVars, requestVars, listVars>>
  PROVE  AnswerInv'
<1>1. /\ UNCHANGED <<req, down, file, filled, cut, job>> /\ UNCHANGED Answering
      /\ block \in Seq(Units) /\ local \in Seq(Units)
  BY ClientFacts
<1>2. /\ pc = "payload" /\ UNCHANGED <<got, block, local, opened, size>> /\ req.verb = "GET"
      /\ AtEnd /\ block = <<>> /\ pc' = "end"
      /\ said' = IF Len(local) < size THEN {"TOO_LITTLE"}
                 ELSE IF Len(down) - got # 0 THEN {"TOO_MUCH"} ELSE said
  BY DEF FinishGet, TooLittle, CheckForExtraData
<1>3. /\ InBlock /\ said = {} /\ size \in Nat /\ Answering
      /\ job.step = "content" => size = file
      /\ job.step = "unopened" => Len(local) = 0
      /\ Len(down) \in Nat /\ got \in Nat /\ got <= Len(down)
      /\ Len(block) \in Nat /\ Len(local) \in Nat
      /\ ~filled /\ ~cut /\ job.step = "content" => Len(local) + Len(block) = size
  BY <1>2, PayloadFacts
<1>4. got = Len(down) /\ Len(block) = 0  BY <1>2, EmptySeq DEF AtEnd
<1>5. said' = IF Len(local) < size THEN {"TOO_LITTLE"} ELSE {}
  BY <1>2, <1>3, <1>4
<1>6. got' \in 0..Len(down) /\ pc' \in Steps /\ ClientGone'
  BY <1>2, <1>3 DEF Steps, Final, ClientGone
<1>7. ReadsOn' /\ Says' /\ ListIntact'
  BY <1>1, <1>2, <1>3, <1>5, <1>6 DEF ReadsOn, Says, ListIntact
<1>8. DownloadIntact'
  <2> SUFFICES ASSUME said' = {}
               PROVE  IF opened /\ job.step # "unopened"
                      THEN Len(local) = file /\ (~filled => local = Bytes(1, file))
                      ELSE LocalFile = <<>>
    BY <1>1, <1>2 DEF DownloadIntact, LocalFile
  <2>1. CASE ~opened  BY <2>1 DEF LocalFile
  <2>2. CASE job.step = "unopened"
    <3>1. local = <<>>  BY <1>1, <1>3, <2>2, EmptySeq
    <3> QED  BY <2>2, <3>1 DEF LocalFile
  <2>3. CASE opened /\ job.step # "unopened"
    <3>1. job.step = "content"  BY <1>3, <2>3 DEF Answering
    <3>2. ~(Len(local) < size)  BY <1>5
    <3>3. Len(local) = size  BY <1>3, <3>2 DEF InBlock
    <3>4. ~filled => \A k \in 1..Len(local) : local[k] = <<"BYTE", k>>
      BY <1>3 DEF InBlock
    <3>5. Len(local) = file /\ (~filled => local = Bytes(1, file))
      BY <1>1, <1>3, <3>1, <3>3, <3>4, BytesAre
    <3> QED  BY <2>3, <3>5
  <2> QED  BY <2>1, <2>2, <2>3
<1>9. ComplaintsHaveACause'
  <2>1. ASSUME Len(local) < size, ~filled, ~cut, job.step # "unopened" PROVE FALSE
    <3>1. job.step = "content"  BY <1>3, <2>1 DEF Answering
    <3> QED  BY <1>3, <1>4, <2>1, <3>1
  <2>2. Len(local) < size => filled \/ cut \/ job.step = "unopened"  BY <2>1
  <2> QED  BY <1>1, <1>5, <2>2 DEF ComplaintsHaveACause
<1> QED  BY <1>1, <1>2, <1>6, <1>7, <1>8, <1>9, ClientChange

LEMMA PrintListChange ==
  ASSUME SessionInv, PrintList, UNCHANGED <<serverVars, requestVars, listVars>>
  PROVE  AnswerInv'
<1>1. /\ UNCHANGED <<req, down, file, filled, cut, action, names, copied, total_bytes, overrun>>
      /\ UNCHANGED Answering
      /\ block \in Seq(Units) /\ local \in Seq(Units)
  BY ClientFacts
<1>2. pc = "payload" /\ UNCHANGED <<block, size>> /\ req.verb = "LIST"
  BY DEF PrintList
<1>3. /\ InBlock /\ Answering /\ action = "LIST" /\ size \in Nat /\ size = total_bytes
      /\ Len(down) \in Nat /\ got \in Nat /\ got <= Len(down) /\ Len(Preface) \in Nat
      /\ Len(block) \in Nat /\ Len(local) \in Nat
      /\ got = Len(Preface) + Len(local) + Len(block)
      /\ ~filled => /\ Len(down) <= Len(Preface) + size
                    /\ AtEnd /\ ~cut => Len(local) + Len(block) = size
  <2>1. action = "LIST" /\ job.step = "content"  BY <1>2, PayloadFacts
  <2> QED  BY <1>2, <2>1, PayloadFacts
<1>4. local = <<>> /\ Len(local) = 0  BY <1>2, <1>3, EmptySeq DEF InBlock
<1>5. DownloadIntact'  BY <1>1, <1>2 DEF DownloadIntact
<1>6. CASE /\ Len(block) = size /\ local' = block /\ pc' = "end" /\ got' = Len(down)
           /\ said' = {"LIST"} \cup (IF Len(down) - got # 0 THEN {"TOO_MUCH"} ELSE {})
  <2>1. got' \in 0..Len(down) /\ pc' \in Steps /\ ClientGone'
    BY <1>3, <1>6 DEF Steps, Final, ClientGone
  <2>2. ReadsOn' /\ Says'
    BY <1>1, <1>2, <1>3, <1>6, <2>1 DEF ReadsOn, Says
  <2>3. ListIntact'
    <3>1. copied = Len(names)
      BY <1>3 DEF SessionInv, AnswerInv, Streams
    <3>2. ~filled => \A k \in 1..Len(block) : block[k] = <<"BYTE", k>>
      <4> SUFFICES ASSUME ~filled, NEW k \in 1..Len(block)
                   PROVE  block[k] = <<"BYTE", k>>
        OBVIOUS
      <4>1. block[k] = <<"BYTE", Len(local) + k>>  BY <1>3 DEF InBlock
      <4>2. Len(local) + k = k  BY <1>3, <1>4
      <4> QED  BY <4>1, <4>2
    <3>3. ~filled => block = Bytes(1, total_bytes)
      BY <1>1, <1>3, <1>6, <3>2, BytesAre
    <3> QED  BY <1>1, <1>6, <3>1, <3>3 DEF ListIntact
  <2>4. ComplaintsHaveACause'
    <3>1. ASSUME Len(down) - got # 0, ~filled PROVE FALSE
      BY <1>3, <1>4, <1>6, <3>1
    <3>2. said' \cap {"TOO_LITTLE", "CLOSED"} = {}  BY <1>6
    <3>3. "TOO_MUCH" \in said' => filled  BY <1>6, <3>1
    <3> QED  BY <1>1, <3>2, <3>3 DEF ComplaintsHaveACause
  <2> QED  BY <1>1, <1>2, <1>5, <1>6, <2>1, <2>2, <2>3, <2>4, ClientChange
<1>7. CASE /\ Len(block) < size /\ AtEnd /\ said' = {"TOO_LITTLE", "CLOSED"}
           /\ pc' = "exit1" /\ UNCHANGED <<local, got>>
  <2>1. got' \in 0..Len(down) /\ pc' \in Steps /\ ClientGone'
    BY <1>3, <1>7 DEF Steps, Final, ClientGone
  <2>2. ReadsOn' /\ Says' /\ ListIntact'
    BY <1>1, <1>3, <1>7, <2>1 DEF ReadsOn, Says, ListIntact
  <2>3. ComplaintsHaveACause'
    <3>1. ASSUME ~filled, ~cut PROVE FALSE  BY <1>3, <1>4, <1>7, <3>1
    <3>2. filled \/ cut  BY <3>1
    <3> QED  BY <1>1, <1>7, <3>2 DEF ComplaintsHaveACause
  <2> QED  BY <1>1, <1>2, <1>5, <1>7, <2>1, <2>2, <2>3, ClientChange
<1> QED  BY <1>6, <1>7 DEF PrintList, CheckForExtraData

-----------------------------------------------------------------------------
(* What is written and read, whatever is done.                             *)
LEMMA AnswerInvStep == SessionInv /\ [Next]_vars => AnswerInv'
<1> SUFFICES ASSUME SessionInv, [Next]_vars PROVE AnswerInv'
  OBVIOUS
<1>1. CASE Deliveries
  BY <1>1, ReadingQuiet DEF Deliveries
<1>2. CASE ServerStep
  <2>1. CASE ReadRequest /\ UNCHANGED <<listVars, answerVars>>
    BY <2>1, ReadingQuiet
  <2>2. CASE AnswerStep
    BY <2>2, ShortAnswers, AnswersBegin, NamesQuiet, WriteSomeChange, WriteFailsChange,
       WriteEndsChange
       DEF AnswerStep
  <2>3. CASE ReadSizeOnce \/ ReadName \/ AddServer
    BY <2>3, ShortAnswers, NamesQuiet
  <2> QED  BY <1>2, <2>1, <2>2, <2>3 DEF ServerStep
<1>3. CASE Client
  BY <1>3, NamesQuiet, SendNamesChange, ReadStatusChange, ReadAddressChange,
     ReadSizeChange, ReadByteChange, SaveBlockChange, FinishGetChange, PrintListChange
     DEF Client, ClientStep
<1>4. CASE Failures
  BY <1>4, KillChange, ServerDiesChange DEF Failures
<1>5. CASE UNCHANGED vars
  <2>1. AnswerInv /\ AnswerTypeOK  BY DEF SessionInv, AnswerInv
  <2>2. UNCHANGED <<clientVars, req, file, down, shut, filled, cut>>
    BY <1>5 DEF vars, answerVars, serverVars, requestVars
  <2>3. UNCHANGED <<job, state, action, names, copied, total_bytes, overrun>>
    BY <1>5 DEF vars, answerVars, serverVars, requestVars, listVars
  <2>4. job' \in Jobs
    BY <2>1, <2>3 DEF AnswerTypeOK
  <2> QED  BY <2>2, <2>3, <2>4, QuietChange DEF Answering
<1> QED  BY <1>1, <1>2, <1>3, <1>4, <1>5 DEF Next

-----------------------------------------------------------------------------
(* Nothing takes back that the server answers or is done.                  *)
LEMMA AnsweringStays ==
  ASSUME SessionInv, [Next]_vars
  PROVE  /\ Answering => Answering'
         /\ shut => shut'
         /\ job'.step = "names" => job.step = "names" \/ ReadSizeOnce
<1> DEFINE Stays == /\ Answering => Answering'
                    /\ shut => shut'
                    /\ job'.step = "names" => job.step = "names" \/ ReadSizeOnce
<1>1. job \in Jobs
  BY DEF SessionInv, AnswerInv, AnswerTypeOK
<1>2. CASE UNCHANGED job /\ (shut' = TRUE \/ UNCHANGED shut)
  BY <1>2 DEF Answering
<1>3. ASSUME NEW units, Conclude(units) PROVE Stays
  BY <1>2, <1>3 DEF Conclude
<1>4. CASE Deliveries \/ Client \/ Failures \/ UNCHANGED vars
  <2>1. UNCHANGED <<job, shut>> \/ ServerDies
    BY <1>4 DEF Deliveries, Client, Collect, SendNames, ClientStep, Failures, Kill,
                vars, answerVars, serverVars
  <2> QED  BY <1>2, <2>1 DEF ServerDies
<1>5. CASE ServerStep
  <2>1. CASE ReadRequest /\ UNCHANGED <<listVars, answerVars, reg, prompt>>
    BY <1>2, <2>1 DEF answerVars, serverVars
  <2>2. CASE Refuse \/ AnswerDelete \/ AnswerMissing \/ WriteEnds \/ AddServer
    BY <1>3, <2>2 DEF Refuse, AnswerDelete, AnswerMissing, WriteEnds, AddServer
  <2>3. ASSUME NEW step \in {"content", "unopened"}, NEW n, Announce(step, n), job.step = "idle"
        PROVE  Stays
    <3>1. CASE Conclude(Announcement(n))  BY <1>3, <3>1
    <3>2. CASE job' = [job EXCEPT !.step = step, !.size = n] /\ UNCHANGED shut
      <4>1. job'.step = step  BY <1>1, <3>2 DEF Jobs
      <4> QED  BY <2>3, <3>2, <4>1 DEF Answering
    <3> QED  BY <2>3, <3>1, <3>2 DEF Announce
  <2>4. CASE AnswerGet \/ AnswerList
    BY <2>3, <2>4 DEF AnswerGet, AnswerList, Handling
  <2>5. CASE ListName \/ ReadName
    BY <1>2, <2>5 DEF ListName, ReadName, answerVars, serverVars
  <2>6. CASE ReadSizeOnce
    BY <2>6, SizeReadOnce DEF Answering
  <2>7. CASE WriteSome
    <3>1. UNCHANGED shut /\ Answering  BY <2>7 DEF WriteSome, Writing, Answering
    <3>2. job'.step = job.step  BY <1>1, <2>7 DEF WriteSome, Jobs
    <3> QED  BY <3>1, <3>2 DEF Answering
  <2>8. CASE WriteFails
    <3>1. (shut' = TRUE \/ UNCHANGED shut) /\ Answering
      BY <2>8 DEF WriteFails, Writing, Answering
    <3>2. job'.step = job.step  BY <1>1, <2>8 DEF WriteFails, Jobs
    <3> QED  BY <3>1, <3>2 DEF Answering
  <2> QED  BY <1>5, <2>1, <2>2, <2>4, <2>5, <2>6, <2>7, <2>8 DEF ServerStep, AnswerStep
<1> QED  BY <1>4, <1>5 DEF Next

(* Names are copied, and list() may drop the last newline.                 *)
LEMMA ListingSteps ==
  [Next]_vars => CopyName \/ UNCHANGED listVars \/ AnswerList
<1> SUFFICES ASSUME [Next]_vars PROVE CopyName \/ UNCHANGED listVars \/ AnswerList
  OBVIOUS
<1>1. CASE Deliveries \/ Client \/ Failures \/ UNCHANGED vars
  BY <1>1 DEF Deliveries, Client, Collect, SendNames, ClientStep, Failures, Kill, ServerDies, vars
<1>2. CASE ServerStep
  <2>1. CASE ReadSizeOnce  BY <2>1, SizeReadOnce
  <2>2. CASE ReadName \/ AddServer  BY <2>2 DEF ReadName, AddServer
  <2> QED  BY <1>2, <2>1, <2>2
              DEF ServerStep, AnswerStep, Refuse, AnswerDelete, AnswerMissing, AnswerGet,
                  ListName, WriteSome, WriteFails, WriteEnds
<1> QED  BY <1>1, <1>2 DEF Next

LEMMA ListingInvStep ==
  ASSUME SessionInv, [Next]_vars
  PROVE  ListInv' /\ CountsNames'
<1>1. ListInv /\ CountsNames  BY DEF SessionInv
<1>2. ~Answering' /\ ~shut' => ~Answering /\ ~shut  BY AnsweringStays
<1>3. CASE UNCHANGED listVars
  <2>1. ListInv'  BY <1>1, <1>3, ListInvStep
  <2>2. CountsNames'  BY <1>1, <1>2, <1>3 DEF CountsNames, listVars
  <2> QED  BY <2>1, <2>2
<1>4. CASE CopyName
  <2>1. ListInv'  BY <1>1, <1>4, ListInvStep
  <2>2. CountsNames'
    <3>1. /\ copied \in Nat /\ total_bytes \in Nat /\ names[copied + 1] \in Nat
      <4> DEFINE i == copied + 1
      <4>1. i \in 1..Len(names) /\ names \in Seq(Nat \ {0})
            /\ copied \in Nat /\ total_bytes \in Nat
        BY <1>1, <1>4 DEF CopyName, More, ListInv, ListTypeOK
      <4> HIDE DEF i
      <4>2. names[i] \in Nat \ {0}  BY <4>1, ElementOfSeq
      <4> QED  BY <4>1, <4>2 DEF i
    <3>2. copied' = copied + 1 /\ total_bytes' = total_bytes + names[copied + 1] + 1
      BY <1>4 DEF CopyName
    <3> QED  BY <1>1, <1>2, <3>1, <3>2 DEF CountsNames
  <2> QED  BY <2>1, <2>2
<1>5. CASE AnswerList
  <2>1. UNCHANGED <<names, copied, buffer_size, overrun>> /\ ~Answering /\ ~shut /\ ~More
    BY <1>5 DEF AnswerList, Handling, Answering
  <2>2. /\ total_bytes' \in Nat /\ total_bytes' <= total_bytes
        /\ total_bytes \in Nat /\ buffer_size \in Nat
    <3>1. /\ total_bytes \in Nat /\ names \in Seq(Nat \ {0}) /\ buffer_size \in Nat
          /\ copied = Len(names)
      BY <1>1, <2>1 DEF ListInv, ListTypeOK, More
    <3>2. total_bytes' = total_bytes \/ (names # <<>> /\ total_bytes' = total_bytes - 1)
      BY <1>5 DEF AnswerList
    <3>3. names # <<>> => Len(names) \in Nat /\ Len(names) # 0
      BY <3>1, EmptySeq, LenProperties
    <3>4. copied <= total_bytes  BY <1>1, <2>1 DEF CountsNames
    <3> QED  BY <3>1, <3>2, <3>3, <3>4
  <2>3. ListInv'
    BY <1>1, <2>1, <2>2, DirsAssumption DEF ListInv, ListTypeOK, Roomy
  <2>4. Answering' \/ shut'
    <3>1. job \in Jobs
      BY DEF SessionInv, AnswerInv, AnswerTypeOK
    <3> QED  BY <1>5, <3>1 DEF AnswerList, Announce, Conclude, Answering, Jobs
  <2>5. CountsNames'  BY <2>4 DEF CountsNames
  <2> QED  BY <2>3, <2>5
<1> QED  BY <1>3, <1>4, <1>5, ListingSteps

-----------------------------------------------------------------------------
(* A set of naturals has a least one, which Min finds.                     *)
LEMMA LeastNatural ==
  ASSUME NEW T \in SUBSET Nat, T # {}
  PROVE  \E x \in T : \A y \in T : x <= y
<1> DEFINE Less == {ss \in Nat \X Nat : ss[1] < ss[2]}
<1>1. OpToRel(<, Nat) = Less  BY DEF OpToRel
<1>2. IsWellFoundedOn(Less, Nat)  BY <1>1, NatLessThanWellFounded
<1>3. \A x, y \in Nat : <<y, x>> \in Less <=> y < x  OBVIOUS
<1> HIDE DEF Less
<1>4. PICK x \in T : \A y \in T : ~(<<y, x>> \in Less)
  BY <1>2, WFMin
<1>5. ASSUME NEW y \in T
      PROVE  x <= y
  <2>1. x \in Nat /\ y \in Nat  OBVIOUS
  <2>2. ~(y < x)  BY <1>3, <1>4, <2>1
  <2> QED  BY <2>1, <2>2
<1> QED  BY <1>5

LEMMA MinFacts ==
  ASSUME NEW T \in SUBSET Nat, T # {}
  PROVE  Min(T) \in T /\ \A y \in T : Min(T) <= y
<1>1. \E x \in T : \A y \in T : x <= y  BY LeastNatural
<1> QED  BY <1>1 DEF Min

(* The newline that ends a line, of those that wait. *)
LEMMA LineEnds ==
  SelectInSeq(Waiting, LAMBDA x : x = Newline) \in Nat
<1> DEFINE I == {i \in 1..Len(Waiting) : Waiting[i] = Newline}
<1>1. SelectInSeq(Waiting, LAMBDA x : x = Newline) = IF I # {} THEN Min(I) ELSE 0
  BY DEF SelectInSeq
<1>2. I \in SUBSET Nat  OBVIOUS
<1> HIDE DEF I
<1> QED  BY <1>1, <1>2, MinFacts

LEMMA ThereFacts ==
  ASSUME RequestInv, state = "HANDLING_VERB"
  PROVE  There \in Nat
<1>1. arrived \in Nat /\ taken \in Nat /\ taken <= arrived /\ taken = HeaderLen(req)
  BY DEF RequestInv, RequestTypeOK, HeaderExact
<1> QED  BY <1>1 DEF There

LEMMA RegistersStep ==
  ASSUME SessionInv, [Next]_vars
  PROVE  Registers'
<1>1. Registers /\ RequestInv  BY DEF SessionInv
<1>2. UNCHANGED req  BY RequestStep DEF RequestNext, Arrive, PeerEnds, ReadRequest,
                                         ParseVerb, ReadFileName, Take, requestVars
<1>3. ~shut' => ~shut  BY AnsweringStays
<1>4. job'.step = "names" => job.step = "names" \/ ReadSizeOnce  BY AnsweringStays
<1>5. CASE UNCHANGED reg /\ ~ReadSizeOnce
  BY <1>1, <1>2, <1>3, <1>4, <1>5 DEF Registers
<1>6. CASE ReadSizeOnce
  <2>1. state = "HANDLING_VERB" /\ action = "ADD_SERVER"
    BY <1>6, SizeReadOnce
  <2>2. req.verb = "ADD_SERVER"  BY <1>1, <2>1 DEF RequestInv, HeaderExact
  <2>3. Least(Width, There) \in Nat
    BY <1>1, <2>1, ThereFacts, SizeAssumption DEF Least
  <2>4. PICK n \in SizeValues :
          reg' = [reg EXCEPT !.size = n, !.eaten = Least(Width, There)]
    BY Zenon, <1>6, SizeRead
  <2>5. reg' = [size |-> n, bytes_read |-> reg.bytes_read, buffer |-> reg.buffer,
                names |-> reg.names, eaten |-> Least(Width, There), pushed |-> reg.pushed]
    BY <1>1, <2>4 DEF Registers
  <2> QED  BY <1>1, <1>2, <1>3, <2>2, <2>3, <2>5 DEF Registers
<1>7. CASE ReadName
  <2> DEFINE end    == SelectInSeq(Waiting, LAMBDA x : x = Newline)
             line   == IF end = 0 THEN Waiting ELSE Append(SubSeq(Waiting, 1, end - 1), Nul)
             buffer == Overlay(line, reg.buffer)
             read   == Count(reg.bytes_read, (IF end = 0 THEN 0 ELSE end) - 1)
  <2>1. reg' = [reg EXCEPT !.bytes_read = read,
                           !.buffer = buffer,
                           !.names = @ \cup {UpToNul(buffer)},
                           !.eaten = @ + Len(line)]
    BY <1>7 DEF ReadName
  <2>2. end \in Nat  BY LineEnds
  <2>3. There \in Int /\ reg.eaten \in Nat /\ reg.bytes_read \in Nat
    <3>1. req.verb = "ADD_SERVER"  BY <1>1, <1>7 DEF Registers, ReadName, Registering
    <3>2. req \in RequestType /\ arrived \in Nat
      BY <1>1, RequestsAssumption DEF RequestInv, RequestTypeOK
    <3>3. HeaderLen(req) \in Int
      <4>1. VerbLen[req.verb] \in Nat /\ req.line \in Nat
        BY <3>1, <3>2, VerbLengths
      <4> QED  BY <3>1, <4>1 DEF HeaderLen
    <3> QED  BY <1>1, <3>2, <3>3 DEF There, Registers
  <2>4. Len(line) \in Nat
    <3>1. Len(Waiting) \in Nat  BY <2>3 DEF Waiting
    <3>2. Len(Append(SubSeq(Waiting, 1, end - 1), Nul)) \in Nat
      <4> HIDE DEF end
      <4> QED  BY <2>2
    <3> QED  BY <3>1, <3>2
  <2>5. read \in 0..(Base^Width - 1)
    <3> HIDE DEF end
    <3>1. \A m \in Nat \ {0}, k \in Int : k % m \in 0..(m - 1)  OBVIOUS
    <3>2. reg.bytes_read + ((IF end = 0 THEN 0 ELSE end) - 1) \in Int  BY <2>2, <2>3
    <3>3. Base^Width \in Nat \ {0}  BY SizeAssumption, PowerAssumption
    <3> QED  BY <3>1, <3>2, <3>3 DEF Count
  <2> HIDE DEF end, line, buffer, read
  <2>6. reg' = [size |-> reg.size, bytes_read |-> read, buffer |-> buffer,
                names |-> reg.names \cup {UpToNul(buffer)},
                eaten |-> reg.eaten + Len(line), pushed |-> reg.pushed]
    BY <1>1, <2>1 DEF Registers
  <2>7. UNCHANGED <<shut, job>>  BY <1>7 DEF ReadName, answerVars, serverVars
  <2> QED  BY <1>1, <1>2, <2>3, <2>4, <2>5, <2>6, <2>7 DEF Registers
<1>8. CASE AddServer
  <2>1. reg' = [reg EXCEPT !.pushed = @ + 1] /\ ~shut /\ shut' = TRUE /\ UNCHANGED job
    BY <1>8 DEF AddServer, Registering, Conclude
  <2>2. reg.pushed = 0  BY <1>1, <2>1 DEF Registers
  <2>3. reg' = [size |-> reg.size, bytes_read |-> reg.bytes_read, buffer |-> reg.buffer,
                names |-> reg.names, eaten |-> reg.eaten, pushed |-> 1]
    BY <1>1, <2>1, <2>2 DEF Registers
  <2> QED  BY <1>1, <1>2, <2>1, <2>3 DEF Registers
<1>9. UNCHANGED reg \/ ReadSizeOnce \/ ReadName \/ AddServer
  BY DEF Next, Deliveries, ServerStep, Client, Collect, SendNames, Failures, vars
<1> QED  BY <1>5, <1>6, <1>7, <1>8, <1>9

-----------------------------------------------------------------------------
LEMMA SessionInvStep == SessionInv /\ [Next]_vars => SessionInv'
<1> SUFFICES ASSUME SessionInv, [Next]_vars PROVE SessionInv'
  OBVIOUS
<1>1. RequestInv'  BY RequestStep, RequestInvStep DEF SessionInv
<1>2. ListInv' /\ CountsNames'  BY ListingInvStep
<1>3. AnswerInv'  BY AnswerInvStep
<1>4. Registers'  BY RegistersStep
<1> QED  BY <1>1, <1>2, <1>3, <1>4 DEF SessionInv

LEMMA SessionInvariant == Spec => []SessionInv
BY SessionInvInit, SessionInvStep, PTL DEF Spec

(* The types; with them the client never reads what was not written, and   *)
(* the count of a registration stays a size_t.                             *)
THEOREM SessionTypes == Spec => []TypeOK
<1>1. SessionInv => TypeOK
  BY DEF SessionInv, RequestInv, ListInv, AnswerInv, AnswerTypeOK, Registers, TypeOK
<1> QED  BY SessionInvariant, <1>1, PTL

(* In the connection as a whole, too, only a long name overruns the buffer *)
(* of a list, though list() of server.c takes its last newline back.       *)
THEOREM SessionOnlyLongNamesOverrun == Spec => OverrunNeedsLongName
<1>1. SessionInv /\ [Next]_vars =>
        [overrun' /\ ~overrun =>
           /\ names[copied'] > ListStart
           /\ names[copied'] < 2 * ListStart => buffer_size = ListStart]_listVars
  <2> SUFFICES ASSUME SessionInv, [Next]_vars, overrun', ~overrun
               PROVE  /\ names[copied'] > ListStart
                      /\ names[copied'] < 2 * ListStart => buffer_size = ListStart
    OBVIOUS
  <2>1. CopyName  BY ListingSteps DEF listVars, AnswerList
  <2> QED  BY <2>1, Overruns DEF SessionInv
<1> QED  BY SessionInvariant, <1>1, PTL DEF Spec, OverrunNeedsLongName

(* A download that ends without a word is whole, or empty if one of the    *)
(* programs could not open its file: for every file, every size of socket  *)
(* and block, and whoever fails meanwhile.                                 *)
THEOREM DownloadsIntact == Spec => []DownloadIntact
<1>1. SessionInv => DownloadIntact  BY DEF SessionInv, AnswerInv
<1> QED  BY SessionInvariant, <1>1, PTL

(* A list that is printed without a complaint is whole, while no buffer is *)
(* overrun and no socket filled.                                           *)
THEOREM ListsIntact == Spec => []ListIntact
<1>1. SessionInv => ListIntact  BY DEF SessionInv, AnswerInv
<1> QED  BY SessionInvariant, <1>1, PTL

(* The client never complains about the answer for a file that the server  *)
(* could open, if it came as it was sent through a socket with room for it.*)
THEOREM NoFalseComplaints == Spec => []ComplaintsHaveACause
<1>1. SessionInv => ComplaintsHaveACause  BY DEF SessionInv, AnswerInv
<1> QED  BY SessionInvariant, <1>1, PTL
=============================================================================
