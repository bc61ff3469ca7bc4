------------------------------- MODULE Session -------------------------------
(***************************************************************************)
(* One connection between client.c and server.c from its first byte to its *)
(* last: GET, DELETE and LIST as in module Answer, and ADD_SERVER, whose   *)
(* request carries the names of the files of the machine that registers.   *)
(* add_server() of the server reads a socket that does not wait, and the   *)
(* bytes that follow the header may not be there yet.                      *)
(***************************************************************************)
EXTENDS Answer

CONSTANTS Width,  \* digits of a size_t, its bytes
          Base    \* values of a digit

ASSUME SizeAssumption ==
  /\ Width \in Nat \ {0}
  /\ Base \in Nat /\ Base >= 2
  /\ <<>> \in Dirs

(* What powers are: the provers do not know.                               *)
ASSUME PowerAssumption ==
  /\ Base^0 = 1
  /\ \A k \in 1..Width : Base^k = Base * Base^(k - 1) /\ Base^k \in Nat \ {0}

VARIABLES reg,    \* the locals of add_server(), and the names it stored
          prompt  \* history: all was there when add_server() began

vars == <<requestVars, listVars, answerVars, reg, prompt>>

-----------------------------------------------------------------------------
(***************************************************************************)
(* What the client sends behind the header: the digits of the size, least  *)
(* significant first, and the names with a newline between them.  A cell   *)
(* is a byte of the stream or of a buffer: letter k of name i is <<i, k>>. *)
(***************************************************************************)
Nul == <<0>>
Newline == <<1>>
Name(i) == [k \in 1..names[i] |-> <<i, k>>]

Text ==
  [d \in Dirs |->
     LET lines == FlattenSeq([i \in 1..Len(d) |->
                     [k \in 1..d[i] |-> <<i, k>>] \o <<Newline>>])
     IN IF lines = <<>> THEN lines ELSE Front(lines)]

(* The client has the text in memory: its length is a size_t.              *)
ASSUME TextAssumption == \A d \in Dirs : Len(Text[d]) < Base^Width

(* The digits of the values of a size_t. *)
Digits ==
  [n \in 0..(Base^Width - 1) |-> [i \in 1..Width |-> (n \div Base^(i - 1)) % Base]]

DigitCell(d) == IF d = 0 THEN Nul ELSE <<-1, d>>

Sent ==
  [d \in Dirs |-> [i \in 1..Width |-> DigitCell(Digits[Len(Text[d])][i])] \o Text[d]]

(* Cells read by add_server() and those that wait. *)
There == arrived - HeaderLen(req)
Waiting == SubSeq(Sent[names], reg.eaten + 1, There)

-----------------------------------------------------------------------------
SessionInit ==
  /\ Init
  /\ ListInit
  /\ AnswerInit
  /\ reg = [size |-> 0, bytes_read |-> 0, buffer |-> <<>>, names |-> {},
             eaten |-> 0, pushed |-> 0]
  /\ prompt = FALSE
  /\ req.more = IF req.verb = "ADD_SERVER" THEN Len(Sent[names]) ELSE 0
  /\ req.verb \notin {"GET", "DELETE"} => file = -1
  /\ req.verb \notin {"LIST", "ADD_SERVER"} => names = <<>>

(* add_server() of the client: the header is written first, the names are  *)
(* collected, and then the rest is written and the direction shut down.    *)
Collect ==
  /\ pc = "asking"
  /\ CopyName
  /\ UNCHANGED <<requestVars, answerVars, reg, prompt>>

SendNames ==
  /\ pc = "asking"
  /\ ~More
  /\ pc' = "status"
  /\ UNCHANGED <<got, block, local, opened, size, said, serverVars, requestVars,
                 listVars, reg, prompt>>

Written == IF pc = "asking" THEN HeaderLen(req) ELSE StreamLen(req)

Deliveries ==
  /\ \/ Arrive /\ arrived' <= Written
     \/ /\ PeerEnds
        /\ \/ pc = "killed"
           \/ ended' = "fin" /\ pc # "asking" /\ arrived = StreamLen(req)
  /\ UNCHANGED <<listVars, answerVars, reg, prompt>>

(***************************************************************************)
(* add_server() of the server.  The size is read once: what has not come   *)
(* leaves the bytes of the variable as they happen to be.                  *)
(***************************************************************************)
SizeValues ==
  LET read == Least(Width, There)
  IN {n \in DOMAIN Digits :
        \A i \in 1..read : Digits[n][i] = Digits[Len(Text[names])][i]}

ReadSizeOnce ==
  /\ Handling("ADD_SERVER")
  /\ \E n \in SizeValues :
       reg' = [reg EXCEPT !.size = n, !.eaten = Least(Width, There)]
  /\ job' = [job EXCEPT !.step = "names"]
  /\ prompt' = (arrived = StreamLen(req))
  /\ UNCHANGED <<file, down, shut, filled, cut, clientVars, requestVars, listVars>>

(***************************************************************************)
(* read_line_from_client(): the buffer up to a newline, which a NUL        *)
(* replaces; or all that is there, -1, and no NUL.  Then dictionary_set()  *)
(* of what the buffer holds up to its first NUL, the rest of a former line *)
(* included, and the count goes on modulo the width of a size_t.           *)
(***************************************************************************)
Overlay(new, old) == new \o SubSeq(old, Len(new) + 1, Len(old))

AllCells(cells) == cells
UpToNul(cells) ==
  IF Nul \in ToSet(cells)
  THEN SubSeq(cells, 1, SelectInSeq(cells, LAMBDA x : x = Nul) - 1)
  ELSE cells

CountLine(n, result) == n + result
CountNewline(n, result) == (n + result + 1) % Base^Width
Count(n, result) == (n + result) % Base^Width

Registering == job.step = "names" /\ ~shut

ReadName ==
  LET end    == SelectInSeq(Waiting, LAMBDA x : x = Newline)
      line   == IF end = 0 THEN Waiting ELSE Append(SubSeq(Waiting, 1, end - 1), Nul)
      buffer == Overlay(line, reg.buffer)
  IN /\ Registering
     /\ reg.bytes_read < reg.size
     /\ reg' = [reg EXCEPT
                  !.bytes_read = Count(@, (IF end = 0 THEN 0 ELSE end) - 1),
                  !.buffer = buffer,
                  !.names = @ \cup {UpToNul(buffer)},
                  !.eaten = @ + Len(line)]
     /\ UNCHANGED <<requestVars, listVars, answerVars, prompt>>

AddServer ==
  /\ Registering
  /\ reg.bytes_read >= reg.size
  /\ Conclude(<<Unit("OK")>>)
  /\ reg' = [reg EXCEPT !.pushed = @ + 1]
  /\ UNCHANGED <<listVars, prompt>>

-----------------------------------------------------------------------------
ServerStep ==
  \/ /\ ~shut
     /\ ReadRequest
     /\ UNCHANGED <<listVars, answerVars, reg, prompt>>
  \/ AnswerStep /\ UNCHANGED <<reg, prompt>>
  \/ ReadSizeOnce
  \/ ReadName
  \/ AddServer

Client ==
  \/ Collect
  \/ SendNames
  \/ ClientStep /\ UNCHANGED <<reg, prompt>>

Failures == (Kill \/ ServerDies) /\ UNCHANGED <<reg, prompt>>

Next == Deliveries \/ ServerStep \/ Client \/ Failures

Spec == SessionInit /\ [][Next]_vars

(* The network delivers, the loop serves the connection, and the client    *)
(* runs.                                                                   *)
FairSpec ==
  /\ Spec
  /\ WF_vars(Deliveries)
  /\ WF_vars(ServerStep)
  /\ WF_vars(Client)

-----------------------------------------------------------------------------
TypeOK ==
  /\ RequestTypeOK
  /\ ListTypeOK
  /\ pc \in Steps
  /\ got \in 0..Len(down)
  /\ reg.bytes_read \in 0..(Base^Width - 1)
  /\ reg.eaten \in Nat
  /\ reg.pushed \in 0..1

(* A download that ends without a word to the user has the size of the     *)
(* file, and is the file itself if the socket never filled up: then        *)
(* write_n_to_client() never writes part of its buffer.  Or one of the two *)
(* programs could not open its file, and then it is empty, never a part.   *)
DownloadIntact ==
  req.verb = "GET" /\ pc = "end" /\ said = {} =>
    IF opened /\ job.step # "unopened"
    THEN /\ Len(LocalFile) = file
         /\ ~filled => LocalFile = Bytes(1, file)
    ELSE LocalFile = <<>>

(* A list that is printed without a complaint has every name, again unless *)
(* the socket filled up, or the buffer was overrun and anything may follow.*)
ListIntact ==
  said = {"LIST"} /\ ~filled /\ ~overrun =>
    /\ copied = Len(names)
    /\ local = Bytes(1, total_bytes)

(* The client complains about the amount of data only if something went    *)
(* wrong on the way: the answer did not fit the socket at once, the        *)
(* server's process ended, or it announced the size of a file that it      *)
(* could not open.                                                         *)
ComplaintsHaveACause ==
  /\ "TOO_MUCH" \in said => filled
  /\ said \cap {"TOO_LITTLE", "CLOSED"} # {} =>
       filled \/ cut \/ job.step = "unopened"

(* Of a registration that was all there when add_server() began, every     *)
(* name but the last is stored as it is, and the last one too if no other  *)
(* name is longer; nothing else is stored then.                            *)
NamesRegistered ==
  reg.pushed = 1 /\ prompt /\ names # <<>> /\ ~overrun =>
    LET last == Len(names)
    IN /\ \A i \in 1..(last - 1) : Name(i) \in reg.names
       /\ (\A i \in 1..last : names[i] <= names[last]) =>
            reg.names = {Name(i) : i \in 1..last}

(* Whatever arrives, and whoever fails: the client comes to an end, and    *)
(* the server is done with the connection.                                 *)
SessionEnds == <>(ClientGone /\ shut)
=============================================================================
