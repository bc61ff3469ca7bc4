---------------------------- MODULE RequestProofs ----------------------------
(***************************************************************************)
(* For every set of requests and every size of the header buffer: reading  *)
(* a request byte by byte implements module RequestLine, and hands over    *)
(* the stream exactly behind its header.                                   *)
(***************************************************************************)
EXTENDS Request, TLAPS

(* While the verb is read nothing of it is overread: a verb that could be  *)
(* recognised was.  While the line is read its end was not.                *)
Unread ==
  /\ state = "READING_VERB" =>
       /\ action = "V_UNKNOWN"
       /\ taken = buffer_position
       /\ buffer_position <= 11
       /\ req.verb # "V_UNKNOWN" => buffer_position < VerbLen[req.verb]
  /\ state = "READING_HEADER" =>
       /\ action = req.verb
       /\ HasLine(req)
       /\ taken = VerbLen[req.verb] + buffer_position
       /\ buffer_position < LineBytes(req)

RequestInv == RequestTypeOK /\ Unread /\ HeaderExact

(* The lengths at which parse_verb() looks. *)
LEMMA VerbLengths ==
  ASSUME NEW r \in RequestType
  PROVE  /\ r.verb # "V_UNKNOWN" =>
              VerbLen[r.verb] \in Nat /\ VerbLen[r.verb] \in {4, 5, 7, 11}
         /\ r.line \in Nat /\ r.more \in Nat
         /\ r.verb \in Verbs
         /\ LineBytes(r) \in 1..HeaderMax
         /\ r.line < HeaderMax => LineBytes(r) = r.line + 1
         /\ r.line >= HeaderMax => LineBytes(r) = HeaderMax
<1>1. r.verb # "V_UNKNOWN" => VerbLen[r.verb] \in {4, 5, 7, 11}
  <2>1. r.verb \in Verbs  BY DEF RequestType
  <2> QED  BY <2>1 DEF Verbs, VerbLen
<1>2. r.line \in Nat /\ r.more \in Nat /\ r.verb \in Verbs
  BY DEF RequestType
<1>3. /\ LineBytes(r) \in 1..HeaderMax
      /\ r.line < HeaderMax => LineBytes(r) = r.line + 1
      /\ r.line >= HeaderMax => LineBytes(r) = HeaderMax
  BY <1>2, HeaderAssumption DEF LineBytes, Least
<1> QED  BY <1>1, <1>2, <1>3

(* parse_verb() reads up to the next of them, and no further.             *)
LEMMA WantedFacts ==
  ASSUME NEW p \in 0..10
  PROVE  /\ Wanted(p) \in 1..4
         /\ p + Wanted(p) \in {4, 5, 7, 11}
         /\ \A n \in {4, 5, 7, 11} : p < n => p + Wanted(p) <= n
  BY DEF Wanted

LEMMA RequestInvInit == Init => RequestInv
<1> SUFFICES ASSUME Init PROVE RequestInv  OBVIOUS
<1>1. req \in RequestType  BY RequestsAssumption DEF Init
<1>2. RequestTypeOK  BY HeaderAssumption DEF Init, RequestTypeOK, Verbs
<1>3. Unread  BY <1>1, VerbLengths DEF Init, Unread
<1>4. HeaderExact  BY DEF Init, HeaderExact
<1> QED  BY <1>2, <1>3, <1>4 DEF RequestInv

-----------------------------------------------------------------------------
(* The step of parse_verb(), whether or not it recognises the verb.        *)
LEMMA ParseVerbFacts ==
  ASSUME RequestInv, ParseVerb
  PROVE  /\ RequestInv'
         /\ UNCHANGED <<req, arrived, ended>>
         /\ \/ /\ state' = state /\ action' = action
            \/ /\ state = "READING_VERB"
               /\ req.verb # "V_UNKNOWN"
               /\ arrived >= VerbLen[req.verb]
               /\ action' = req.verb
               /\ state' = IF HasLine(req) THEN "READING_HEADER" ELSE "HANDLING_VERB"
            \/ /\ state = "READING_VERB"
               /\ action' = action
               /\ state' = "INVALID_VERB"
               /\ req.verb # "V_UNKNOWN" => ended # "open" /\ arrived < VerbLen[req.verb]
               /\ req.verb = "V_UNKNOWN" => arrived >= 11 \/ ended # "open"
<1> USE HeaderAssumption
<1> DEFINE p      == buffer_position
           wanted == Wanted(p)
           pos    == p + Least(wanted, Readable)
<1>1. /\ req \in RequestType
      /\ state = "READING_VERB"
      /\ arrived \in Nat /\ taken \in Nat /\ taken <= arrived
      /\ p \in 0..11
      /\ taken = p
      /\ action = "V_UNKNOWN"
      /\ req.verb # "V_UNKNOWN" => p < VerbLen[req.verb]
  BY RequestsAssumption DEF RequestInv, RequestTypeOK, Unread, ParseVerb
<1>2. CASE p \notin 0..10
  <2>1. p = 11  BY <1>1, <1>2
  <2>2. req.verb = "V_UNKNOWN"  BY <1>1, <2>1, VerbLengths
  <2>3. state' = "INVALID_VERB" /\ UNCHANGED <<req, arrived, ended, taken, action, buffer_position>>
    BY <1>2 DEF ParseVerb
  <2>4. RequestInv'
    BY <2>3 DEF RequestInv, RequestTypeOK, Unread, HeaderExact
  <2> QED  BY <1>1, <2>1, <2>2, <2>3, <2>4
<1>3. CASE p \in 0..10
  <2>1. /\ Readable = arrived - p /\ Readable \in Nat
        /\ wanted \in 1..4
        /\ p + wanted \in {4, 5, 7, 11}
    <3>1. Readable = arrived - p /\ Readable \in Nat  BY <1>1 DEF Readable
    <3>2. wanted \in 1..4 /\ p + wanted \in {4, 5, 7, 11}  BY <1>3, WantedFacts
    <3> QED  BY <3>1, <3>2
  <2>2. req.verb # "V_UNKNOWN" =>
          /\ VerbLen[req.verb] \in {4, 5, 7, 11}
          /\ p + wanted <= VerbLen[req.verb]
    BY <1>1, <1>3, WantedFacts, VerbLengths
  <2>3. /\ pos \in Nat /\ p <= pos /\ pos <= 11 /\ pos <= arrived
        /\ Readable < wanted => arrived = pos
        /\ req.verb # "V_UNKNOWN" => pos <= VerbLen[req.verb]
    <3> HIDE DEF wanted
    <3> QED  BY <1>3, <2>1, <2>2, <1>1 DEF Least
  <2>4. /\ taken' = pos /\ UNCHANGED <<req, arrived, ended>>
    BY <1>1, <1>3, <2>1 DEF ParseVerb, Take
  <2> HIDE DEF pos, wanted
  <2>5. CASE /\ ReadFails(wanted)
             /\ state' = "INVALID_VERB" /\ buffer_position' = pos /\ UNCHANGED action
    <3>1. ended # "open" /\ Readable < wanted  BY <2>5 DEF ReadFails
    <3>2. req.verb # "V_UNKNOWN" => arrived < VerbLen[req.verb]
      BY <3>1, <2>1, <2>2, <1>1
    <3>3. RequestInv'
      BY <2>5, <2>4, <2>3, <1>1 DEF RequestInv, RequestTypeOK, Unread, HeaderExact
    <3> QED  BY <1>1, <2>4, <2>5, <3>1, <3>2, <3>3
  <2>6. CASE /\ Recognises(pos)
             /\ action' = req.verb
             /\ state' = IF HasLine(req) THEN "READING_HEADER" ELSE "HANDLING_VERB"
             /\ buffer_position' = StartLine(pos)
    <3>1. req.verb # "V_UNKNOWN" /\ pos = VerbLen[req.verb]  BY <2>6 DEF Recognises
    <3>2. req.verb \in Verbs /\ LineBytes(req) \in 1..HeaderMax  BY <1>1, VerbLengths
    <3>3. RequestTypeOK'
      BY <2>6, <2>4, <2>3, <1>1, <3>2 DEF RequestInv, RequestTypeOK, StartLine
    <3>4. Unread'
      BY <2>6, <2>4, <2>3, <1>1, <3>1, <3>2 DEF Unread, StartLine
    <3>5. HeaderExact'
      BY <2>6, <2>4, <2>3, <1>1, <2>2, <3>1 DEF HeaderExact, HeaderLen
    <3> QED  BY <1>1, <2>3, <2>4, <2>6, <3>1, <3>3, <3>4, <3>5 DEF RequestInv
  <2>7. CASE /\ ~ReadFails(wanted) /\ ~Recognises(pos)
             /\ buffer_position' = pos /\ UNCHANGED <<state, action>>
    <3>1. req.verb # "V_UNKNOWN" => pos # VerbLen[req.verb]  BY <2>7 DEF Recognises
    <3>2. req.verb # "V_UNKNOWN" => pos < VerbLen[req.verb]
      BY <3>1, <2>2, <2>3
    <3>3. RequestInv'
      BY <2>7, <2>4, <2>3, <1>1, <3>2 DEF RequestInv, RequestTypeOK, Unread, HeaderExact
    <3> QED  BY <2>4, <2>7, <3>3
  <2>8. \/ /\ ReadFails(wanted)
           /\ state' = "INVALID_VERB" /\ buffer_position' = pos /\ UNCHANGED action
        \/ /\ Recognises(pos)
           /\ action' = req.verb
           /\ state' = IF HasLine(req) THEN "READING_HEADER" ELSE "HANDLING_VERB"
           /\ buffer_position' = StartLine(pos)
        \/ /\ ~ReadFails(wanted) /\ ~Recognises(pos)
           /\ buffer_position' = pos /\ UNCHANGED <<state, action>>
    BY <1>3 DEF ParseVerb, pos, wanted
  <2> QED  BY <2>5, <2>6, <2>7, <2>8
<1> QED  BY <1>2, <1>3

(* The step of read_file_name(). *)
LEMMA ReadFileNameFacts ==
  ASSUME RequestInv, ReadFileName
  PROVE  /\ RequestInv'
         /\ state = "READING_HEADER" /\ HasLine(req)
         /\ UNCHANGED <<req, arrived, ended, action>>
         /\ \/ state' = state
            \/ /\ state' = "HANDLING_VERB"
               /\ arrived >= VerbLen[req.verb] + LineBytes(req)
               /\ req.line < HeaderMax
            \/ /\ state' = "INCORRECT_DATA_AMOUNT"
               /\ IF arrived >= VerbLen[req.verb] + LineBytes(req)
                  THEN req.line >= HeaderMax
                  ELSE ended # "open"
<1> USE HeaderAssumption
<1> DEFINE p      == buffer_position
           V      == VerbLen[req.verb]
           B      == LineBytes(req)
           wanted == B - p
           pos    == p + Least(wanted, Readable)
<1>1. /\ req \in RequestType
      /\ state = "READING_HEADER"
      /\ HasLine(req)
      /\ action = req.verb
      /\ arrived \in Nat /\ taken \in Nat /\ taken <= arrived
      /\ p \in Nat /\ taken = V + p /\ p < B
  BY RequestsAssumption DEF RequestInv, RequestTypeOK, Unread, ReadFileName
<1>2. /\ req.verb # "V_UNKNOWN" /\ V \in Nat
      /\ B \in 1..HeaderMax
      /\ req.line \in Nat
      /\ req.line < HeaderMax => B = req.line + 1
  BY <1>1, VerbLengths DEF HasLine
<1>3. /\ Readable = arrived - (V + p) /\ Readable \in Nat
      /\ wanted \in Nat \ {0}
      /\ Least(wanted, Readable) \in Nat
      /\ Readable >= wanted => Least(wanted, Readable) = wanted
      /\ Readable < wanted => Least(wanted, Readable) = Readable
  BY <1>1, <1>2 DEF Readable, Least
<1>4. /\ pos \in Nat /\ V + pos <= arrived /\ pos <= B
      /\ Readable >= wanted => pos = B
      /\ Readable < wanted => pos < B
      /\ Readable >= wanted <=> arrived >= V + B
  BY <1>1, <1>2, <1>3
<1>5. taken' = V + pos /\ UNCHANGED <<req, arrived, ended, action>>
  BY <1>1, <1>2, <1>3 DEF ReadFileName, Take
<1> HIDE DEF pos, wanted, V, B
<1>6. \/ /\ Readable >= wanted
         /\ req.line < HeaderMax
         /\ state' = "HANDLING_VERB"
         /\ buffer_position' = pos - 1
      \/ /\ IF Readable >= wanted THEN req.line >= HeaderMax ELSE ended # "open"
         /\ state' = "INCORRECT_DATA_AMOUNT"
         /\ buffer_position' = pos
      \/ /\ Readable < wanted
         /\ buffer_position' = pos
         /\ UNCHANGED state
  BY DEF ReadFileName, pos, wanted, B
<1>7. CASE /\ Readable >= wanted
           /\ req.line < HeaderMax
           /\ state' = "HANDLING_VERB"
           /\ buffer_position' = pos - 1
  <2>1. pos = req.line + 1  BY <1>2, <1>4, <1>7
  <2>2. RequestTypeOK'
    BY <1>1, <1>2, <1>4, <1>5, <1>7, <2>1 DEF RequestInv, RequestTypeOK
  <2>3. HeaderExact'
    BY <1>1, <1>2, <1>5, <1>7, <2>1 DEF HeaderExact, HeaderLen, V
  <2>4. Unread'  BY <1>7 DEF Unread
  <2> QED  BY <1>1, <1>4, <1>5, <1>7, <2>2, <2>3, <2>4 DEF RequestInv, V, B
<1>8. CASE /\ IF Readable >= wanted THEN req.line >= HeaderMax ELSE ended # "open"
           /\ state' = "INCORRECT_DATA_AMOUNT"
           /\ buffer_position' = pos
  <2>1. RequestInv'
    BY <1>1, <1>2, <1>4, <1>5, <1>8 DEF RequestInv, RequestTypeOK, Unread, HeaderExact
  <2> QED  BY <1>1, <1>4, <1>5, <1>8, <2>1 DEF V, B
<1>9. CASE /\ Readable < wanted
           /\ buffer_position' = pos
           /\ UNCHANGED state
  <2>1. RequestTypeOK'
    BY <1>1, <1>2, <1>4, <1>5, <1>9 DEF RequestInv, RequestTypeOK
  <2>2. Unread' /\ HeaderExact'
    BY <1>1, <1>4, <1>5, <1>9 DEF Unread, HeaderExact, V, B
  <2> QED  BY <1>1, <1>5, <1>9, <2>1, <2>2 DEF RequestInv
<1> QED  BY <1>6, <1>7, <1>8, <1>9

(* What the network does. *)
LEMMA EnvironmentInv ==
  ASSUME RequestInv, Arrive \/ PeerEnds \/ UNCHANGED requestVars
  PROVE  RequestInv'
<1>1. CASE Arrive
  <2>1. req \in RequestType /\ arrived \in Nat
    BY RequestsAssumption DEF RequestInv, RequestTypeOK
  <2>2. arrived' \in Nat /\ arrived' > arrived
    <3>1. StreamLen(req) \in Int
      BY <2>1, VerbLengths DEF StreamLen, HeaderLen, HasLine
    <3> QED  BY <2>1, <3>1, <1>1 DEF Arrive
  <2> QED  BY <1>1, <2>1, <2>2 DEF Arrive, RequestInv, RequestTypeOK, Unread, HeaderExact
<1>2. CASE PeerEnds
  BY <1>2 DEF PeerEnds, RequestInv, RequestTypeOK, Unread, HeaderExact
<1>3. CASE UNCHANGED requestVars
  BY <1>3 DEF requestVars, RequestInv, RequestTypeOK, Unread, HeaderExact
<1> QED  BY <1>1, <1>2, <1>3

LEMMA RequestInvStep == RequestInv /\ [RequestNext]_requestVars => RequestInv'
  BY EnvironmentInv, ParseVerbFacts, ReadFileNameFacts DEF RequestNext, ReadRequest

-----------------------------------------------------------------------------
(* The pieces that arrived. *)
LEMMA HeadFacts ==
  ASSUME RequestInv
  PROVE  /\ head \in 0..Line!Pieces(req)
         /\ req.verb # "V_UNKNOWN" => (head >= 1 <=> arrived >= VerbLen[req.verb])
         /\ req.verb = "V_UNKNOWN" => (head >= 1 <=> arrived >= 11)
         /\ HasLine(req) => (head = 2 <=> arrived >= VerbLen[req.verb] + LineBytes(req))
         /\ head = 0 \/ head = 1 \/ head = 2
<1>1. req \in RequestType /\ arrived \in Nat
  BY RequestsAssumption DEF RequestInv, RequestTypeOK
<1>2. /\ req.verb # "V_UNKNOWN" => VerbLen[req.verb] \in Nat
      /\ LineBytes(req) \in Nat \ {0}
  BY <1>1, VerbLengths, HeaderAssumption
<1>3. HasLine(req) => req.verb # "V_UNKNOWN" /\ Line!HasLine(req)
  BY DEF HasLine, Line!HasLine
<1> QED  BY <1>1, <1>2, <1>3 DEF head, VerbEnd, Line!Pieces

(* Reading a request implements RequestLine: however its bytes are cut up, *)
(* the outcome is that of judging the verb and the line as wholes.         *)
THEOREM ReadsWholeLines == RequestSpec => JudgesWholeLines
<1>1. Init => Line!Init
  <2> SUFFICES ASSUME Init PROVE head = 0
    BY DEF Init, Line!Init
  <2>1. req \in RequestType  BY RequestsAssumption DEF Init
  <2>2. VerbEnd > 0  BY <2>1, VerbLengths DEF VerbEnd
  <2> QED  BY <2>2 DEF Init, head
<1>2. RequestInv /\ RequestInv' /\ [RequestNext]_requestVars => [Line!Next]_(Line!vars)
  <2> SUFFICES ASSUME RequestInv, RequestInv', [RequestNext]_requestVars
               PROVE  Line!Next \/ UNCHANGED Line!vars
    OBVIOUS
  <2>1. CASE Arrive
    <3>1. UNCHANGED <<req, ended, state, action>> /\ ended = "open"
      BY <2>1 DEF Arrive
    <3>2. req \in RequestType /\ arrived \in Nat /\ arrived' \in Nat /\ arrived' > arrived
      <4>1. req \in RequestType /\ arrived \in Nat /\ arrived' \in Nat
        BY RequestsAssumption DEF RequestInv, RequestTypeOK
      <4>2. StreamLen(req) \in Int
        BY <4>1, VerbLengths DEF StreamLen, HeaderLen, HasLine
      <4> QED  BY <2>1, <4>1, <4>2 DEF Arrive
    <3>3. VerbEnd' = VerbEnd /\ VerbEnd \in Nat /\ LineBytes(req) \in Nat
      BY <3>1, <3>2, VerbLengths, HeaderAssumption DEF VerbEnd
    <3>4. head' >= head
      BY <3>1, <3>2, <3>3 DEF head
    <3>5. head \in 0..Line!Pieces(req) /\ head' \in 0..Line!Pieces(req)
      BY <3>1 DEF head, Line!Pieces, HasLine, Line!HasLine
    <3>6. Line!Pieces(req) \in Nat  BY DEF Line!Pieces
    <3>7. CASE head' = head
      BY <3>1, <3>7 DEF Line!vars
    <3>8. CASE head' # head
      <4>1. head' \in (head + 1)..Line!Pieces(req)
        BY <3>4, <3>5, <3>6, <3>8
      <4> QED  BY <4>1, <3>1 DEF Line!Next, Line!Arrive
    <3> QED  BY <3>7, <3>8
  <2>2. CASE PeerEnds
    <3>1. head' = head  BY <2>2 DEF PeerEnds, head, VerbEnd
    <3> QED  BY <2>2, <3>1 DEF PeerEnds, Line!Next, Line!PeerEnds
  <2>3. CASE ParseVerb
    <3>1. UNCHANGED <<req, arrived, ended>>  BY <2>3, ParseVerbFacts
    <3>2. head' = head  BY <3>1 DEF head, VerbEnd
    <3>3. HasLine(req) <=> Line!HasLine(req)  BY DEF HasLine, Line!HasLine
    <3>4. req \in RequestType /\ arrived \in Nat
      BY RequestsAssumption DEF RequestInv, RequestTypeOK
    <3>5. CASE state' = state /\ action' = action
      BY <3>1, <3>2, <3>5 DEF Line!vars
    <3>6. CASE /\ state = "READING_VERB"
               /\ req.verb # "V_UNKNOWN"
               /\ arrived >= VerbLen[req.verb]
               /\ action' = req.verb
               /\ state' = IF HasLine(req) THEN "READING_HEADER" ELSE "HANDLING_VERB"
      <4>1. head >= 1  BY <3>6, HeadFacts
      <4> QED  BY <3>1, <3>2, <3>3, <3>6, <4>1
               DEF Line!Next, Line!Judge, Line!AcceptVerb
    <3>7. CASE /\ state = "READING_VERB"
               /\ action' = action
               /\ state' = "INVALID_VERB"
               /\ req.verb # "V_UNKNOWN" => ended # "open" /\ arrived < VerbLen[req.verb]
               /\ req.verb = "V_UNKNOWN" => arrived >= 11 \/ ended # "open"
      <4>1. req.verb # "V_UNKNOWN" => VerbLen[req.verb] \in Nat
        BY <3>4, VerbLengths
      <4>2. IF head = 0 THEN ended # "open" ELSE req.verb = "V_UNKNOWN"
        BY <3>4, <3>7, <4>1, HeadFacts
      <4> QED  BY <3>1, <3>2, <3>7, <4>2
               DEF Line!Next, Line!Judge, Line!RefuseVerb
    <3> QED  BY <2>3, <3>5, <3>6, <3>7, ParseVerbFacts
  <2>4. CASE ReadFileName
    <3>1. UNCHANGED <<req, arrived, ended, action>> /\ HasLine(req) /\ state = "READING_HEADER"
      BY <2>4, ReadFileNameFacts
    <3>2. head' = head  BY <3>1 DEF head, VerbEnd
    <3>3. req \in RequestType /\ arrived \in Nat
      BY RequestsAssumption DEF RequestInv, RequestTypeOK
    <3>4. CASE state' = state  BY <3>1, <3>2, <3>4 DEF Line!vars
    <3>5. CASE /\ state' = "HANDLING_VERB"
               /\ arrived >= VerbLen[req.verb] + LineBytes(req)
               /\ req.line < HeaderMax
      <4>1. head = 2  BY <3>1, <3>5, HeadFacts
      <4> QED  BY <3>1, <3>2, <3>5, <4>1
               DEF Line!Next, Line!Judge, Line!AcceptLine, Line!Fits
    <3>6. CASE /\ state' = "INCORRECT_DATA_AMOUNT"
               /\ IF arrived >= VerbLen[req.verb] + LineBytes(req)
                  THEN req.line >= HeaderMax
                  ELSE ended # "open"
      <4>1. req.line \in Nat /\ HeaderMax \in Nat  BY <3>3, VerbLengths, HeaderAssumption
      <4>2. head = 2 <=> arrived >= VerbLen[req.verb] + LineBytes(req)
        BY <3>1, HeadFacts
      <4>3. head < 2 <=> head # 2  BY HeadFacts
      <4>4. IF head < 2 THEN ended # "open" ELSE ~Line!Fits(req)
        BY <3>6, <4>1, <4>2, <4>3 DEF Line!Fits
      <4> QED  BY <3>1, <3>2, <3>6, <4>4
               DEF Line!Next, Line!Judge, Line!RefuseLine
    <3> QED  BY <2>4, <3>4, <3>5, <3>6, ReadFileNameFacts
  <2>5. CASE UNCHANGED requestVars
    BY <2>5 DEF requestVars, Line!vars, head, VerbEnd
  <2> QED  BY <2>1, <2>2, <2>3, <2>4, <2>5 DEF RequestNext, ReadRequest
<1> QED  BY <1>1, <1>2, RequestInvInit, RequestInvStep, PTL
         DEF RequestSpec, JudgesWholeLines, Line!Spec

(* A handler begins exactly behind the header it asked for. *)
THEOREM HeadersExact == RequestSpec => []HeaderExact
<1>1. RequestInv => HeaderExact  BY DEF RequestInv
<1> QED  BY <1>1, RequestInvInit, RequestInvStep, PTL DEF RequestSpec
=============================================================================
