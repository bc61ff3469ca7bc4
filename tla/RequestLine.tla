----------------------------- MODULE RequestLine -----------------------------
(***************************************************************************)
(* What reading a request promises, whatever pieces its bytes come in: the *)
(* verb is judged as a whole, then the rest of the header line is.  This   *)
(* is how the actions ParseVerb and ReadFileName of module Server see a    *)
(* request; module Request shows that the byte by byte code of server.c    *)
(* implements it.                                                          *)
(***************************************************************************)
EXTENDS Naturals

CONSTANTS Requests,   \* the requests a peer may send
          HeaderMax   \* bytes of the header buffer of a client_info

VARIABLES req,      \* the request
          head,     \* pieces of it that arrived: the verb, the line
          ended,    \* the peer sends no more
          state,    \* of the client_info; final ones stay
          action    \* the verb, once it is known

vars == <<req, head, ended, state, action>>

Verbs == {"GET", "PUT", "DELETE", "LIST", "ADD_SERVER", "V_UNKNOWN"}

(* Whether a header line follows the verb. *)
HasLine(r) == r.verb \notin {"LIST", "V_UNKNOWN"}
Pieces(r) == IF HasLine(r) THEN 2 ELSE 1

(* The line and its newline fit the buffer. *)
Fits(r) == r.line < HeaderMax

Init ==
  /\ req \in Requests
  /\ head = 0
  /\ ended = FALSE
  /\ state = "READING_VERB"
  /\ action = "V_UNKNOWN"

Arrive ==
  /\ ~ended
  /\ head' \in (head + 1)..Pieces(req)
  /\ UNCHANGED <<req, ended, state, action>>

PeerEnds ==
  /\ ~ended
  /\ ended' = TRUE
  /\ UNCHANGED <<req, head, state, action>>

AcceptVerb ==
  /\ state = "READING_VERB"
  /\ head >= 1
  /\ req.verb # "V_UNKNOWN"
  /\ action' = req.verb
  /\ state' = IF HasLine(req) THEN "READING_HEADER" ELSE "HANDLING_VERB"
  /\ UNCHANGED <<req, head, ended>>

RefuseVerb ==
  /\ state = "READING_VERB"
  /\ IF head = 0 THEN ended ELSE req.verb = "V_UNKNOWN"
  /\ state' = "INVALID_VERB"
  /\ UNCHANGED <<req, head, ended, action>>

AcceptLine ==
  /\ state = "READING_HEADER"
  /\ head = 2
  /\ Fits(req)
  /\ state' = "HANDLING_VERB"
  /\ UNCHANGED <<req, head, ended, action>>

RefuseLine ==
  /\ state = "READING_HEADER"
  /\ IF head < 2 THEN ended ELSE ~Fits(req)
  /\ state' = "INCORRECT_DATA_AMOUNT"
  /\ UNCHANGED <<req, head, ended, action>>

Judge == AcceptVerb \/ RefuseVerb \/ AcceptLine \/ RefuseLine

Next == Arrive \/ PeerEnds \/ Judge

Spec == Init /\ [][Next]_vars

(* What arrived, or will never arrive, is judged. *)
FairSpec == Spec /\ WF_vars(Judge)
=============================================================================
