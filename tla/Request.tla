------------------------------- MODULE Request -------------------------------
(***************************************************************************)
(* How server.c reads a request, byte by byte: read_n_from_client() and    *)
(* parse_verb(), then read_file_name(), over a stream that arrives in any  *)
(* pieces and may end anywhere.  One connection: reading a request touches *)
(* nothing but its own client_info.                                        *)
(*                                                                         *)
(* Bytes are counted, not spelled: the first n bytes of a stream are a     *)
(* verb if and only if n is the length of the verb of the request.         *)
(***************************************************************************)
EXTENDS Integers

CONSTANTS Requests,   \* the requests a peer may send
          HeaderMax   \* bytes of the header buffer of a client_info, 1024

Verbs == {"GET", "PUT", "DELETE", "LIST", "ADD_SERVER", "V_UNKNOWN"}

(* The bytes of a verb, with the blank or newline that ends it. *)
VerbLen == [GET |-> 4, PUT |-> 4, LIST |-> 5, DELETE |-> 7, ADD_SERVER |-> 11]

(***************************************************************************)
(* line: bytes before the newline of the header line, of a stream that     *)
(* matches no verb (V_UNKNOWN) all its bytes.  more: bytes that follow.    *)
(***************************************************************************)
RequestType == [verb : Verbs, line : Nat, more : Nat]

ASSUME RequestsAssumption == Requests \subseteq RequestType
ASSUME HeaderAssumption == HeaderMax \in Nat /\ HeaderMax >= 11

VARIABLES
  req,              \* what the peer sends
  arrived,          \* bytes of it that reached the socket
  ended,            \* how the peer ended its direction
  taken,            \* bytes read() returned while the request was read
  state,            \* client_info.state; a final state stays
  action,           \* client_info.action
  buffer_position   \* client_info.buffer_position

requestVars == <<req, arrived, ended, taken, state, action, buffer_position>>

HasLine(r) == r.verb \notin {"LIST", "V_UNKNOWN"}

HeaderLen(r) ==
  IF r.verb = "V_UNKNOWN" THEN r.line
  ELSE VerbLen[r.verb] + IF HasLine(r) THEN r.line + 1 ELSE 0

StreamLen(r) == HeaderLen(r) + r.more

Least(a, b) == IF a <= b THEN a ELSE b

Init ==
  /\ req \in Requests
  /\ arrived = 0
  /\ ended = "open"
  /\ taken = 0
  /\ state = "READING_VERB"
  /\ action = "V_UNKNOWN"
  /\ buffer_position = 0

Arrive ==
  /\ ended = "open"
  /\ arrived' \in (arrived + 1)..StreamLen(req)
  /\ UNCHANGED <<req, ended, taken, state, action, buffer_position>>

PeerEnds ==
  /\ ended = "open"
  /\ ended' \in {"fin", "rst"}
  /\ UNCHANGED <<req, arrived, taken, state, action, buffer_position>>

(***************************************************************************)
(* read_n_from_client(): it appends at buffer_position what is there, n    *)
(* bytes at most.  Fewer mean "not yet" (EAGAIN) or the end: -1 after a    *)
(* FIN; after a reset -2, but what was read before it is returned first.   *)
(***************************************************************************)
Readable == arrived - taken

ReadFails(n) ==
  /\ Readable < n
  /\ ended # "open"
  /\ ended = "rst" => Readable = 0

Take(n) ==
  /\ taken' = taken + Least(n, Readable)
  /\ UNCHANGED <<req, arrived, ended>>

(* parse_verb(): it looks for a verb after 4, 5, 7 and 11 bytes. *)
WantedAlways4(pos) == 4
Wanted(pos) ==
  (IF pos < 4 THEN 4 ELSE IF pos < 5 THEN 5 ELSE IF pos < 7 THEN 7 ELSE 11) - pos

Recognises(pos) == req.verb # "V_UNKNOWN" /\ pos = VerbLen[req.verb]

(* The buffer starts over for the line. *)
KeepPosition(pos) == pos
StartLine(pos) == IF HasLine(req) THEN 0 ELSE pos

ParseVerb ==
  LET wanted == Wanted(buffer_position)
      pos    == buffer_position + Least(wanted, Readable)
  IN /\ state = "READING_VERB"
     /\ \/ /\ buffer_position \notin 0..10
           /\ state' = "INVALID_VERB"
           /\ UNCHANGED <<req, arrived, ended, taken, action, buffer_position>>
        \/ /\ buffer_position \in 0..10
           /\ ReadFails(wanted)
           /\ state' = "INVALID_VERB"
           /\ Take(wanted)
           /\ buffer_position' = pos
           /\ UNCHANGED action
        \/ /\ buffer_position \in 0..10
           /\ ~ReadFails(wanted)
           /\ Take(wanted)
           /\ \/ /\ Recognises(pos)
                 /\ action' = req.verb
                 /\ state' = IF HasLine(req) THEN "READING_HEADER"
                             ELSE "HANDLING_VERB"
                 /\ buffer_position' = StartLine(pos)
              \/ /\ ~Recognises(pos)
                 /\ buffer_position' = pos
                 /\ UNCHANGED <<state, action>>

(***************************************************************************)
(* read_file_name(): byte by byte up to the newline or the end of the      *)
(* buffer; the newline gives way to a NUL.                                 *)
(***************************************************************************)
LineBytes(r) == Least(r.line + 1, HeaderMax)

ReadFileName ==
  LET wanted == LineBytes(req) - buffer_position
      pos    == buffer_position + Least(wanted, Readable)
  IN /\ state = "READING_HEADER"
     /\ Take(wanted)
     /\ \/ /\ Readable >= wanted
           /\ req.line < HeaderMax
           /\ state' = "HANDLING_VERB"
           /\ buffer_position' = pos - 1
        \/ /\ IF Readable >= wanted THEN req.line >= HeaderMax
              ELSE ended # "open"
           /\ state' = "INCORRECT_DATA_AMOUNT"
           /\ buffer_position' = pos
        \/ /\ Readable < wanted
           /\ ended = "open"
           /\ buffer_position' = pos
           /\ UNCHANGED state
     /\ UNCHANGED action

(* A turn of the loop for the connection while its request is read. *)
ReadRequest == ParseVerb \/ ReadFileName

RequestNext == Arrive \/ PeerEnds \/ ReadRequest

RequestSpec == Init /\ [][RequestNext]_requestVars

-----------------------------------------------------------------------------
(* The types; with it, what is read stays within the header buffer.        *)
RequestTypeOK ==
  /\ req \in Requests
  /\ arrived \in Nat
  /\ taken \in 0..arrived
  /\ ended \in {"open", "fin", "rst"}
  /\ state \in {"READING_VERB", "READING_HEADER", "HANDLING_VERB",
                "INVALID_VERB", "INCORRECT_DATA_AMOUNT"}
  /\ action \in Verbs
  /\ buffer_position \in 0..HeaderMax

(* However the bytes come, a handler finds the stream exactly behind the   *)
(* header: nothing of it is left to be taken for a body, and nothing of    *)
(* what follows is gone; and the name in the buffer has its full length.   *)
HeaderExact ==
  state = "HANDLING_VERB" =>
    /\ action = req.verb
    /\ taken = HeaderLen(req)
    /\ HasLine(req) => buffer_position = req.line

(***************************************************************************)
(* The pieces of RequestLine: a verb arrived with its last byte, a line    *)
(* with its newline or once it fills the buffer.                           *)
(***************************************************************************)
VerbEnd == IF req.verb = "V_UNKNOWN" THEN 11 ELSE VerbLen[req.verb]

head ==
  IF arrived < VerbEnd THEN 0
  ELSE IF HasLine(req) /\ arrived >= VerbEnd + LineBytes(req)
       THEN 2
       ELSE 1

Line == INSTANCE RequestLine WITH ended <- (ended # "open")

(* The outcome never depends on how the bytes of a request are cut up: the *)
(* byte by byte code takes the steps of a parser that sees whole verbs and *)
(* whole lines, and no others.                                             *)
JudgesWholeLines == Line!Spec
=============================================================================
