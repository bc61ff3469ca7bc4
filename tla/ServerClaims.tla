---------------------------- MODULE ServerClaims ----------------------------
(***************************************************************************)
(* What the comments and the README say of the server and the code of      *)
(* server.c does not do.  Each is refuted by a run of its own.             *)
(***************************************************************************)
EXTENDS Server

(* The peer sent all it has and ended its direction. *)
SentAll(c) == sock[c].body = SizeBytes + req[c].len /\ sock[c].fin = "fin"

(* format.h: the bad file size error is for too little or too much data,   *)
(* so an upload of just what was declared does not get it.                 *)
RightSizeAccepted ==
  \A c \in Conns :
    Said(c, "HERE") /\ SentAll(c) /\ req[c].len = req[c].size =>
      ~Said(c, "BAD_FILE_SIZE")

(* format.h: too little data is an error: an upload that ends early is     *)
(* answered, unless the process ends first.                                *)
TooLittleIsReported ==
  \A c \in Conns :
    (/\ Uploading(c)
     /\ sock[c].fin = "fin"
     /\ sock[c].body < SizeBytes + req[c].size)
      ~> (Said(c, "BAD_FILE_SIZE") \/ info[c].state = "LOST")

(* README: the upload is stored as that file.  A file that no upload is    *)
(* writing any more is then one upload, not parts of two.                  *)
StoredAsUploaded ==
  \A n \in Present :
    LET content == data[dir[n]]
    IN Writers(dir[n]) = {} =>
         \A p, q \in DOMAIN content : content[p][1] = content[q][1]

(* README: a GET downloads the file: what was there from the start, or all *)
(* that some PUT sent.                                                     *)
GetServesUploads ==
  \A c \in Conns, k \in 1..4 :
    k <= Len(sock[c].out) /\ sock[c].out[k][1] = "DATA" =>
      \/ \E n \in Names : sock[c].out[k][2] = Old(n)
      \/ \E d \in Conns : /\ req[d] # None
                          /\ sock[c].out[k][2] = Sent(d, 1, req[d].len)

(* README: the started server listens for incoming connections. *)
ServerSurvives == process # "exited"
=============================================================================
