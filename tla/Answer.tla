------------------------------- MODULE Answer --------------------------------
(***************************************************************************)
(* The answer to a request over one connection: write_n_to_client() and    *)
(* get(), delete() and list() of server.c, which fill a socket buffer of   *)
(* finite size without waiting, and client.c, which reads what they write. *)
(* The request itself is read as in module Request, a list of files made   *)
(* as in module Listing.                                                   *)
(*                                                                         *)
(* The short fields of an answer (status line, address, size, error text)  *)
(* are units of the stream, as are the bytes of a file or of a list; byte  *)
(* k of the content is <<"BYTE", k>>.                                      *)
(***************************************************************************)
EXTENDS Request, Listing, SequencesExt

CONSTANTS FileSizes,  \* lengths of the file that a GET names
          Garbage,    \* what a size that was never set may be
          SockBuf,    \* units that fit between write() and the peer's read()
          ReadMax     \* bytes of a read() of get() and a block of the client

ASSUME AnswerAssumption ==
  /\ FileSizes \subseteq Nat
  /\ Garbage \subseteq Nat
  /\ SockBuf \in Nat /\ SockBuf >= 3
  /\ ReadMax \in Nat \ {0}

VARIABLES
  file,    \* length of the file the request names, -1 if there is none
  down,    \* units the server wrote
  shut,    \* the server wrote its last one
  job,     \* the loops of get(), list() and write_n_to_client()
  pc,      \* where the client is
  got,     \* units the client read
  block,   \* bytes read_all_from_server() has so far
  local,   \* the bytes passed to write(), or the list printed
  opened,  \* open() of the local file succeeded
  size,    \* what get_size() returned
  said,    \* what the client printed
  filled,  \* history: a write found less room than it asked for
  cut      \* history: the server's process ended before its answer did

serverVars == <<file, down, shut, job, filled, cut>>
clientVars == <<pc, got, block, local, opened, size, said>>
answerVars == <<serverVars, clientVars>>

Final == {"end", "exit1", "sigpipe", "server", "killed"}
ClientGone == pc \in Final

Steps == {"asking", "status", "address", "size", "payload"} \cup Final

Unit(u) == <<u>>
Bytes(i, j) == [k \in 1..(j - i + 1) |-> <<"BYTE", i + k - 1>>]

AnswerInit ==
  /\ file \in FileSizes \cup {-1}
  /\ down = <<>>
  /\ shut = FALSE
  /\ job = [step |-> "idle", size |-> 0, pos |-> 0, written |-> 0]
  /\ pc = IF req.verb = "ADD_SERVER" THEN "asking" ELSE "status"
  /\ got = 0
  /\ block = <<>>
  /\ local = <<>>
  /\ opened = FALSE
  /\ size = 0
  /\ said = {}
  /\ filled = FALSE
  /\ cut = FALSE

-----------------------------------------------------------------------------
(***************************************************************************)
(* The server.  What is written after the client is gone is lost, and the  *)
(* write fails; short fields that find no room are cut as well.            *)
(***************************************************************************)
Room == SockBuf - (Len(down) - got)

Deliver(units) ==
  IF ClientGone THEN down
  ELSE down \o SubSeq(units, 1, Least(Len(units), Room))

Handling(verb) ==
  state = "HANDLING_VERB" /\ action = verb /\ job.step = "idle" /\ ~shut

Conclude(units) ==
  /\ down' = Deliver(units)
  /\ shut' = TRUE
  /\ UNCHANGED <<file, job, filled, cut, clientVars, requestVars>>

(* main(): the error line and text of each final state. *)
Refuse ==
  /\ ~shut
  /\ \/ /\ state = "INVALID_VERB"
        /\ Conclude(<<Unit("ERROR"), Unit("BAD_REQUEST")>>)
     \/ /\ state = "INCORRECT_DATA_AMOUNT"
        /\ Conclude(<<Unit("ERROR"), Unit("BAD_FILE_SIZE")>>)
  /\ UNCHANGED listVars

AnswerDelete ==
  /\ Handling("DELETE")
  /\ Conclude(IF file = -1 THEN <<Unit("ERROR"), Unit("NO_SUCH_FILE")>>
              ELSE <<Unit("OK")>>)
  /\ UNCHANGED listVars

AnswerMissing ==
  /\ Handling("GET")
  /\ file = -1
  /\ Conclude(<<Unit("NO_SUCH_FILE")>>)
  /\ UNCHANGED listVars

(* An OK, for a GET the address of the server itself, and the size. *)
Announcement(n) ==
  IF action = "GET" THEN <<Unit("OK"), Unit("HERE"), <<"SIZE", n>>>>
  ELSE <<Unit("OK"), <<"SIZE", n>>>>

(* get() and list() go on to the content once its size is written; if the  *)
(* size cannot be written they give up.                                    *)
Announce(step, n) ==
  \/ /\ ~ClientGone
     /\ down' = Deliver(Announcement(n))
     /\ job' = [job EXCEPT !.step = step, !.size = n]
     /\ UNCHANGED <<shut, file, filled, cut, clientVars, requestVars>>
  \/ ClientGone /\ Conclude(Announcement(n))

(* If open() fails the size is what the variable happens to be, and no     *)
(* byte can be read.                                                       *)
AnswerGet ==
  /\ Handling("GET")
  /\ file # -1
  /\ \/ Announce("content", file)
     \/ \E n \in Garbage : Announce("unopened", n)
  /\ UNCHANGED listVars

ListName ==
  /\ Handling("LIST")
  /\ CopyName
  /\ UNCHANGED <<requestVars, answerVars>>

(* The names of file_to_server come last, and without the last newline. *)
AnswerList ==
  /\ Handling("LIST")
  /\ ~More
  /\ total_bytes' \in {total_bytes} \cup (IF names = <<>> THEN {} ELSE {total_bytes - 1})
  /\ Announce("content", total_bytes')
  /\ UNCHANGED <<names, copied, buffer_size, overrun>>

(***************************************************************************)
(* write_n_to_client(): each write() starts at the beginning of the n      *)
(* bytes again, and the loop ends when the bytes written add up to n or    *)
(* nothing can be written.  get() goes on to the next bytes of the file    *)
(* whatever came of it; list() writes once and reports that it failed.     *)
(***************************************************************************)
FileLen == IF job.step = "unopened" THEN 0 ELSE file

BufferLen == IF action = "LIST" THEN buffer_size ELSE FileLen
ContentLen == IF action = "LIST" THEN total_bytes ELSE FileLen

Chunk == IF action = "LIST" THEN ContentLen - job.pos
         ELSE Least(ReadMax, ContentLen - job.pos)

Writing == job.step \in {"content", "unopened"} /\ ~shut

WriteSome ==
  LET n   == Chunk
      res == Least(n, Room)
  IN /\ Writing
     /\ n > 0
     /\ ~ClientGone
     /\ res > 0
     /\ down' = down \o Bytes(job.pos + 1, job.pos + res)
     /\ job' = IF job.written + res = n
               THEN [job EXCEPT !.pos = @ + n, !.written = 0]
               ELSE [job EXCEPT !.written = @ + res]
     /\ filled' = (filled \/ res < n)
     /\ UNCHANGED <<file, shut, cut, clientVars, requestVars, listVars>>

WriteFails ==
  /\ Writing
  /\ Chunk > 0
  /\ ClientGone \/ Room = 0
  /\ \/ /\ action = "GET"
        /\ job' = [job EXCEPT !.pos = @ + Chunk, !.written = 0]
        /\ UNCHANGED <<down, shut>>
     \/ /\ action = "LIST"
        /\ down' = Deliver(<<Unit("ERROR"), Unit("BAD_FILE_SIZE")>>)
        /\ shut' = TRUE
        /\ UNCHANGED job
  /\ filled' = TRUE
  /\ UNCHANGED <<file, cut, clientVars, requestVars, listVars>>

WriteEnds ==
  /\ Writing
  /\ Chunk = 0
  /\ Conclude(<<>>)
  /\ UNCHANGED listVars

(* The server's process ends, and the kernel closes its sockets; what it   *)
(* wrote last may be lost with it.                                         *)
ServerDies ==
  /\ ~shut
  /\ \E k \in got..Len(down) : down' = SubSeq(down, 1, k)
  /\ shut' = TRUE
  /\ cut' = TRUE
  /\ UNCHANGED <<file, job, filled, clientVars, requestVars, listVars>>

AnswerStep ==
  \/ Refuse
  \/ AnswerDelete
  \/ AnswerMissing
  \/ AnswerGet
  \/ ListName
  \/ AnswerList
  \/ WriteSome
  \/ WriteFails
  \/ WriteEnds

-----------------------------------------------------------------------------
(***************************************************************************)
(* The client.  Its reads wait for the server; they end early only at the  *)
(* end of the stream.                                                      *)
(***************************************************************************)
AtEnd == shut /\ got = Len(down)
Arrives == got < Len(down)
NextUnit == down[got + 1]

(* parse_header() returned false.  get() takes the address, still empty,   *)
(* for that of another server and writes again to the socket it has shut   *)
(* for writing; add_server() starts its server all the same.               *)
AfterFailure ==
  IF req.verb = "GET" THEN "sigpipe"
  ELSE IF req.verb = "ADD_SERVER" THEN "server"
  ELSE "end"

AfterOK ==
  IF req.verb = "GET" THEN "address"
  ELSE IF req.verb = "LIST" THEN "size"
  ELSE IF req.verb = "ADD_SERVER" THEN "server"
  ELSE "end"

ReadStatus ==
  /\ pc = "status"
  /\ \/ /\ Arrives
        /\ NextUnit = Unit("OK")
        /\ got' = got + 1
        /\ pc' = AfterOK
        /\ said' = IF req.verb \in {"DELETE", "ADD_SERVER"} THEN {"SUCCESS"}
                   ELSE said
     \/ /\ Arrives
        /\ NextUnit # Unit("OK")
        /\ shut  \* an error text is read up to the end of the stream
        /\ got' = Len(down)
        /\ pc' = AfterFailure
        /\ said' = {"ERROR"}
     \/ /\ AtEnd
        /\ pc' = AfterFailure
        /\ UNCHANGED <<got, said>>
  /\ UNCHANGED <<block, local, opened, size>>

(* At the end of the stream the address stays empty and cannot be resolved. *)
ReadAddress ==
  /\ pc = "address"
  /\ \/ /\ Arrives
        /\ got' = got + 1
        /\ pc' = "size"
     \/ /\ AtEnd
        /\ pc' = "exit1"
        /\ UNCHANGED got
  /\ UNCHANGED <<block, local, opened, size, said>>

(* get() opens its local file next, and goes on if it cannot. *)
ReadSize ==
  /\ pc = "size"
  /\ \/ /\ Arrives
        /\ NextUnit[1] = "SIZE"
        /\ got' = got + 1
        /\ size' = NextUnit[2]
        /\ opened' \in IF req.verb = "GET" THEN BOOLEAN ELSE {FALSE}
        /\ pc' = "payload"
     \/ /\ AtEnd
        /\ pc' = "exit1"
        /\ UNCHANGED <<got, size, opened>>
  /\ UNCHANGED <<block, local, said>>

(* read_all_from_server(): a block of the file, or the list as a whole. *)
BlockLen == IF req.verb = "LIST" THEN size ELSE ReadMax

ReadByte ==
  /\ pc = "payload"
  /\ Arrives
  /\ Len(block) < BlockLen
  /\ got' = got + 1
  /\ block' = Append(block, NextUnit)
  /\ UNCHANGED <<pc, local, opened, size, said>>

(* get(): a block that is full, or the last one; nobody looks at what      *)
(* write() returns.                                                        *)
SaveBlock ==
  /\ pc = "payload"
  /\ req.verb = "GET"
  /\ Len(block) = ReadMax \/ (AtEnd /\ block # <<>>)
  /\ IF Len(local) + Len(block) > size
     THEN pc' = "exit1" /\ said' = {"TOO_MUCH"} /\ UNCHANGED <<block, local>>
     ELSE local' = local \o block /\ block' = <<>> /\ UNCHANGED <<pc, said>>
  /\ UNCHANGED <<got, opened, size>>

(* What of it write() stores.                                              *)
LocalFile == IF opened THEN local ELSE <<>>

(* It reads what is there already, and waits for nothing. *)
CheckForExtraData == Len(down) - got

TrustTheEnd(n) == FALSE
TooLittle(n) == n < size

FinishGet ==
  /\ pc = "payload"
  /\ req.verb = "GET"
  /\ AtEnd
  /\ block = <<>>
  /\ said' = IF TooLittle(Len(local)) THEN {"TOO_LITTLE"}
             ELSE IF CheckForExtraData # 0 THEN {"TOO_MUCH"}
             ELSE said
  /\ pc' = "end"
  /\ UNCHANGED <<got, block, local, opened, size>>

PrintList ==
  /\ pc = "payload"
  /\ req.verb = "LIST"
  /\ \/ /\ Len(block) = size
        /\ local' = block
        /\ said' = {"LIST"} \cup (IF CheckForExtraData # 0 THEN {"TOO_MUCH"} ELSE {})
        /\ pc' = "end"
        /\ got' = Len(down)
     \/ /\ Len(block) < size
        /\ AtEnd
        /\ said' = {"TOO_LITTLE", "CLOSED"}
        /\ pc' = "exit1"
        /\ UNCHANGED <<local, got>>
  /\ UNCHANGED <<block, opened, size>>

(* The user stops the client. *)
Kill ==
  /\ ~ClientGone
  /\ pc' = "killed"
  /\ UNCHANGED <<got, block, local, opened, size, said, serverVars, requestVars, listVars>>

ClientStep ==
  /\ \/ ReadStatus
     \/ ReadAddress
     \/ ReadSize
     \/ ReadByte
     \/ SaveBlock
     \/ FinishGet
     \/ PrintList
  /\ UNCHANGED <<serverVars, requestVars, listVars>>
=============================================================================
