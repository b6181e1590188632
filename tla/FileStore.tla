----------------------------- MODULE FileStore -----------------------------
(***************************************************************************)
(* What the protocol block of FileStorageServer.h promises: a store of     *)
(* files on which requests act one at a time, each at most once, with no   *)
(* sockets, loops or segments.  A PUT takes two steps, since a file that   *)
(* is being written is not whole; nobody else's request falls between      *)
(* them, and a crash can damage no file but that one.                      *)
(***************************************************************************)
EXTENDS StorageProtocol

VARIABLES
  asked,    \* the request each connection carries
  whole,    \* the connections whose request has arrived completely
  store,    \* the files
  answer,   \* the response to each connection
  writing   \* the connection whose PUT is in progress

absVars == <<asked, whole, store, answer, writing>>

Init ==
  /\ asked \in [Conns -> Requests]
  /\ whole = {}
  /\ store \in [Names -> {NoFile, OldFile}]
  /\ answer = [c \in Conns |-> NoReply]
  /\ writing = NoConn

Arrive(c) ==
  /\ c \notin whole
  /\ whole' = whole \cup {c}
  /\ UNCHANGED <<asked, store, answer, writing>>

Serving(c, op) ==
  /\ writing = NoConn
  /\ answer[c] = NoReply
  /\ asked[c].op = op

Answers(c, re) == answer' = [answer EXCEPT ![c] = re]

Stores(c, content) == store' = [store EXCEPT ![asked[c].name] = content]

\* The file's current content, or NOT_FOUND.
Get(c) ==
  /\ Serving(c, "GET")
  /\ Answers(c, IF store[asked[c].name] = NoFile
                THEN Word("NOT_FOUND") ELSE FileReply(store[asked[c].name]))
  /\ UNCHANGED <<asked, whole, store, writing>>

\* OK exactly when there was a file to remove.
Delete(c) ==
  /\ Serving(c, "DELETE")
  /\ Stores(c, NoFile)
  /\ Answers(c, Word(IF store[asked[c].name] = NoFile THEN "ERROR" ELSE "OK"))
  /\ UNCHANGED <<asked, whole, writing>>

\* An unknown command, or a file that cannot be opened: nothing changes.
Refuse(c) ==
  /\ Serving(c, "OTHER") \/ Serving(c, "PUT")
  /\ Answers(c, Word("ERROR"))
  /\ UNCHANGED <<asked, whole, store, writing>>

BeginPut(c) ==
  /\ Serving(c, "PUT")
  /\ Stores(c, Empty)
  /\ writing' = c
  /\ UNCHANGED <<asked, whole, answer>>

\* OK: the content is there, all of it unless the client cut its own request.
EndPut(c) ==
  /\ writing = c
  /\ \E n \in 0 .. asked[c].len :
       /\ n = asked[c].len \/ c \notin whole
       /\ Stores(c, Body(c, n))
  /\ Answers(c, Word("OK"))
  /\ writing' = NoConn
  /\ UNCHANGED <<asked, whole>>

\* ERROR: the disk took a part of it.
FailPut(c) ==
  /\ writing = c
  /\ \E n \in 0 .. asked[c].len : Stores(c, Body(c, n))
  /\ Answers(c, Word("ERROR"))
  /\ writing' = NoConn
  /\ UNCHANGED <<asked, whole>>

Crash(c) ==
  /\ writing = c
  /\ \E n \in 0 .. asked[c].len : Stores(c, Body(c, n))
  /\ writing' = NoConn
  /\ UNCHANGED <<asked, whole, answer>>

Next ==
  \E c \in Conns :
    \/ Arrive(c) \/ Get(c) \/ Delete(c) \/ Refuse(c)
    \/ BeginPut(c) \/ EndPut(c) \/ FailPut(c) \/ Crash(c)

Spec == Init /\ [][Next]_absVars
=============================================================================
