------------------------------ MODULE MCClaims ------------------------------
(***************************************************************************)
(* What the comments and the README say of the storage server and the code *)
(* does not do, in the simplest of its loops; each is refuted by a run.    *)
(***************************************************************************)
EXTENDS StorageSync, MCStorage

Long == {Get(ab), Delete(ab), Put(a, 2)}

(***************************************************************************)
(* README of Lecture 4: "The server reads `PUT <filepath> <length> ` until *)
(* it has parsed the length field."  So a PUT is not acted on before its   *)
(* length has come, while its client is still sending.                     *)
(***************************************************************************)
LengthAwaited ==
  pc \in {"handle", "write"} /\ req[Conn].op = "PUT" /\ peer[Conn] = "live"
    => rcvd[Conn] >= HeaderEnd

(***************************************************************************)
(* FileStorageServer.h: <content> is "exactly <content_length> bytes of    *)
(* file data" and the response "OK" on success.  So whenever a PUT is      *)
(* answered OK, content_length units of its content are in the file.       *)
(***************************************************************************)
OkMeansStored ==
  [][\A c \in Conns :
       req[c].op = "PUT" /\ reply[c] = NoReply /\ reply'[c] = Word("OK")
         => files'[req[c].name] = Body(c, req[c].len)]_syncVars
=============================================================================
