--------------------------- MODULE StorageHandler ---------------------------
(***************************************************************************)
(* The file storage server of Lecture 4 between two turns of its event     *)
(* loop: readRequest, handleRequest, sendAll and closeClient on one client *)
(* socket, with the clients, the kernel and the files it works on.  The    *)
(* server is one thread, so cur is the only socket it is busy with; which  *)
(* socket comes next is decided by the loop modules that extend this one.  *)
(***************************************************************************)
EXTENDS Sockets, StorageProtocol

CONSTANTS
  Asked,        \* the requests clients make
  FileBuffer,   \* units of content that stay in the ofstream's buffer until it closes
  MayCut,       \* the clients that may end their stream before the request is complete
  MayReset,     \* the clients that may disappear
  DiskMayFill,  \* a write may find the disk full
  MaxKills      \* how often the process is killed and started again

ASSUME HandlerAssumption ==
  /\ Asked \subseteq Requests
  /\ FileBuffer \in Nat
  /\ MaxKills \in Nat
  /\ MayCut \subseteq Conns
  /\ MayReset \subseteq Conns
  /\ DiskMayFill \in BOOLEAN

VARIABLES
  req,            \* what each client asks
  files,          \* the storage directory
  dirOK,          \* the storage directory exists
  reply,          \* the response string computed for each connection
  pc,             \* where the server's thread is; "down" when there is none
  cur,            \* the descriptor being served
  clientSockets,  \* clientSockets_
  kills

storeVars   == <<files, dirOK, reply>>
handlerVars == <<req, files, dirOK, reply, pc, cur, clientSockets, kills>>

LoopLabels    == {"wait", "accept", "scan"}
HandlerLabels == {"recv", "more", "handle", "write", "send", "close"}

HandlerTypeOK ==
  /\ req \in [Conns -> Requests]
  /\ files \in [Names -> Contents]
  /\ dirOK \in BOOLEAN
  /\ reply \in [Conns -> Replies]
  /\ pc \in LoopLabels \cup HandlerLabels \cup {"down"}
  /\ cur \in Fds
  /\ clientSockets \in Seq(Fds)
  /\ kills \in 0 .. MaxKills

HandlerInit ==
  /\ req \in [Conns -> Asked]
  /\ files \in [Names -> {NoFile, OldFile}]
  /\ \A n \in Nested : files[n] = NoFile
  /\ dirOK = TRUE
  /\ reply = [c \in Conns |-> NoReply]
  /\ pc = "wait"
  /\ cur = 1
  /\ clientSockets = <<>>
  /\ kills = 0

Conn == fdConn[cur]
-----------------------------------------------------------------------------
(* Clients.  They cannot connect to a server that is down. *)

Ask(c) == pc # "down" /\ Connect(c)

Say(c) == \E n \in SegmentEnds(req[c]) : Deliver(c, n)

Leave(c) == (c \in MayCut \/ sent[c] = RequestSize(req[c])) /\ EndStream(c)

Vanish(c) == c \in MayReset /\ Reset(c)

ClientStep ==
  /\ \E c \in Conns : Ask(c) \/ Say(c) \/ Leave(c) \/ Vanish(c) \/ Hear(c)
  /\ UNCHANGED handlerVars
-----------------------------------------------------------------------------
(* readRequest *)

FirstRecv ==
  /\ pc = "recv"
  /\ \/ /\ RecvData(Conn)
        /\ pc' = IF MoreToRead(req[Conn], Received(Conn)) THEN "more" ELSE "handle"
     \/ /\ RecvEnd(Conn)
        /\ pc' = "close"
  /\ UNCHANGED <<storeVars, req, cur, clientSockets, kills>>

\* An end of stream or an error breaks the loop; what was read is the request.
MoreRecv ==
  /\ pc = "more"
  /\ \/ /\ RecvData(Conn)
        /\ pc' = IF MoreToRead(req[Conn], Received(Conn)) THEN "more" ELSE "handle"
     \/ /\ RecvEnd(Conn)
        /\ pc' = "handle"
  /\ UNCHANGED <<storeVars, req, cur, clientSockets, kills>>
-----------------------------------------------------------------------------
(* handleRequest; the request string is the first rcvd[Conn] units. *)

Handling(op) ==
  /\ pc = "handle"
  /\ Dispatched(req[Conn], rcvd[Conn])
  /\ req[Conn].op = op

Answer(re) ==
  /\ reply' = [reply EXCEPT ![Conn] = re]
  /\ pc' = IF ReplySize(re) = 0 THEN "close" ELSE "send"
  /\ UNCHANGED <<netVars, req, cur, clientSockets, kills>>

UnknownCommand ==
  /\ pc = "handle"
  /\ ~Dispatched(req[Conn], rcvd[Conn])
  /\ Answer(Word("ERROR"))
  /\ UNCHANGED <<files, dirOK>>

GetFile ==
  /\ Handling("GET")
  /\ Answer(GetReply(req[Conn], rcvd[Conn], files, dirOK))
  /\ UNCHANGED <<files, dirOK>>

DeleteFile ==
  LET r == req[Conn]
      g == rcvd[Conn]
  IN /\ Handling("DELETE")
     /\ Answer(DeleteReply(r, g, files, dirOK))
     /\ files' = IF RemovesFile(r, g, files)
                 THEN [files EXCEPT ![NameSeen(r, g)] = NoFile] ELSE files
     /\ dirOK' = (dirOK /\ ~RemovesDir(g, files, dirOK))

PutRefused ==
  /\ Handling("PUT")
  /\ ~LengthUnparsable(req[Conn], rcvd[Conn])
  /\ ~PutOpens(req[Conn], dirOK)
  /\ Answer(Word("ERROR"))
  /\ UNCHANGED <<files, dirOK>>

\* Opening the ofstream truncates the file that is there.
PutOpen ==
  /\ Handling("PUT")
  /\ ~LengthUnparsable(req[Conn], rcvd[Conn])
  /\ PutOpens(req[Conn], dirOK)
  /\ files' = [files EXCEPT ![req[Conn].name] = Empty]
  /\ pc' = "write"
  /\ UNCHANGED <<netVars, req, dirOK, reply, cur, clientSockets, kills>>

Upload == PutContent(Conn, req[Conn], rcvd[Conn])

\* Mutant: OK without asking output.good().
WriteUnchecked ==
  /\ pc = "write"
  /\ \E n \in 0 .. Upload.size :
       /\ n = Upload.size \/ DiskMayFill
       /\ files' = [files EXCEPT ![req[Conn].name] = Prefix(Upload, n)]
       /\ Answer(Word("OK"))
  /\ UNCHANGED dirOK

(***************************************************************************)
(* write and the flush in the destructor.  Content that fits the buffer is *)
(* judged good before the disk has seen it; more than that goes straight   *)
(* through and its failure is noticed.                                     *)
(***************************************************************************)
Write ==
  /\ pc = "write"
  /\ \E n \in 0 .. Upload.size :
       /\ n = Upload.size \/ DiskMayFill
       /\ files' = [files EXCEPT ![req[Conn].name] = Prefix(Upload, n)]
       /\ Answer(IF n = Upload.size \/ Upload.size <= FileBuffer
                 THEN Word("OK") ELSE Word("ERROR"))
  /\ UNCHANGED dirOK
-----------------------------------------------------------------------------
(* sendAll *)

\* Mutant: one send, whatever it took.
SendOnce ==
  /\ pc = "send"
  /\ SendSome(Conn, ReplySize(reply[Conn]) - told[Conn])
  /\ pc' = "close"
  /\ UNCHANGED <<storeVars, req, cur, clientSockets, kills>>

Send ==
  LET size == ReplySize(reply[Conn])
  IN /\ pc = "send"
     /\ SendSome(Conn, size - told[Conn])
     /\ pc' = IF told'[Conn] < size THEN "send" ELSE "close"
     /\ UNCHANGED <<storeVars, req, cur, clientSockets, kills>>

SendError ==
  /\ pc = "send"
  /\ SendFails(Conn)
  /\ pc' = "close"
  /\ UNCHANGED <<storeVars, req, cur, clientSockets, kills>>

\* Mutant: close without erase.
ReleasedUntracked(i) ==
  /\ pc = "close"
  /\ i \in DOMAIN clientSockets
  /\ CloseFd(cur)
  /\ UNCHANGED <<storeVars, req, cur, clientSockets, kills>>

\* closeClient; the select loop erases the entry its index is on instead.
Released(i) ==
  /\ pc = "close"
  /\ i \in DOMAIN clientSockets
  /\ clientSockets' = SubSeq(clientSockets, 1, i - 1)
                        \o SubSeq(clientSockets, i + 1, Len(clientSockets))
  /\ CloseFd(cur)
  /\ UNCHANGED <<storeVars, req, cur, kills>>

IsFirst(i) ==
  /\ clientSockets[i] = cur
  /\ \A j \in 1 .. i - 1 : clientSockets[j] # cur

HandlerStep ==
  \/ FirstRecv \/ MoreRecv
  \/ UnknownCommand \/ GetFile \/ DeleteFile \/ PutRefused \/ PutOpen \/ Write
  \/ Send \/ SendError
-----------------------------------------------------------------------------
(* The end of the process, and its start. *)

Stopped ==
  /\ CloseAll
  /\ pc' = "down"
  /\ clientSockets' = <<>>
  /\ UNCHANGED <<req, dirOK, reply, cur>>

\* An exception nobody catches: std::terminate.
Throw ==
  /\ pc = "handle"
  /\ LengthUnparsable(req[Conn], rcvd[Conn])
  /\ Stopped
  /\ UNCHANGED <<files, kills>>

\* Nothing in the program ignores SIGPIPE.
BrokenPipe ==
  /\ pc = "send"
  /\ peer[Conn] = "gone"
  /\ Stopped
  /\ UNCHANGED <<files, kills>>

\* In the middle of a write any prefix of the content is on the disk.
Kill ==
  /\ pc # "down"
  /\ kills < MaxKills
  /\ kills' = kills + 1
  /\ IF pc = "write"
     THEN \E n \in 0 .. Upload.size :
            files' = [files EXCEPT ![req[Conn].name] = Prefix(Upload, n)]
     ELSE files' = files
  /\ Stopped

ServerFails == Throw \/ BrokenPipe

\* The constructor creates the storage directory; bind and listen succeed.
Restart ==
  /\ pc = "down"
  /\ pc' = "wait"
  /\ dirOK' = TRUE
  /\ UNCHANGED <<netVars, req, files, reply, cur, clientSockets, kills>>

\* Mutants: the listener remembered for the client; the client not remembered.
AcceptClientListener(f) ==
  /\ Accepted(f)
  /\ clientSockets' = Append(clientSockets, ListenFd)
  /\ UNCHANGED <<storeVars, req, kills>>

AcceptClientLost(f) ==
  /\ Accepted(f)
  /\ UNCHANGED <<storeVars, req, kills, clientSockets>>

\* accept, with clientSockets_.push_back, on the descriptor f the kernel picks.
AcceptClient(f) ==
  /\ Accepted(f)
  /\ clientSockets' = Append(clientSockets, f)
  /\ UNCHANGED <<storeVars, req, kills>>

\* accept fails: the queue is empty (EAGAIN) or the table is full (EMFILE).
AcceptFails == backlog = <<>> \/ TableFull

\* A server that waits for clients of which none will come any more.
AllServed == \A c \in Conns : phase[c] = "closed"
-----------------------------------------------------------------------------
(* Properties of the server that hold whichever loop drives it. *)

Arrived(c) == sent[c] = RequestSize(req[c])

Staying(c) == peer[c] \in {"live", "fin"}

(***************************************************************************)
(* Unless the process was killed, no client whose whole request the server *)
(* took, and who stayed, has its connection closed before the whole        *)
(* response is on its way: readRequest, sendAll and closeClient drop       *)
(* nobody, whatever the other clients do.  Clients whose request is still  *)
(* unread when SIGPIPE or stoi end the process are reset, and not meant.   *)
(***************************************************************************)
AnsweredInFull ==
  \A c \in Conns :
    phase[c] = "closed" /\ Arrived(c) /\ Staying(c) /\ kills = 0
      => reply[c] # NoReply /\ told[c] = ReplySize(reply[c])

(***************************************************************************)
(* When headers arrive in one piece, the process only ends if it is killed *)
(* or sends to a client that has vanished: no request makes stoi throw,    *)
(* and a client that merely ended its stream, or whose connection the      *)
(* server closed before, raises no SIGPIPE.                                *)
(***************************************************************************)
ServerSurvives ==
  [][pc # "down" /\ pc' = "down"
       => kills' # kills \/ peer[Conn] \notin {"live", "fin"}]_pc

(***************************************************************************)
(* The descriptors in clientSockets_ are the open ones, each once: nothing *)
(* leaks, nothing is closed twice, and no connection is served from a      *)
(* descriptor that now stands for another one.                             *)
(***************************************************************************)
TrackedExactly ==
  /\ \A f \in Fds : fdConn[f] # NoConn <=> \E k \in DOMAIN clientSockets : clientSockets[k] = f
  /\ \A j, k \in DOMAIN clientSockets : clientSockets[j] = clientSockets[k] => j = k
  /\ \A c \in Conns : phase[c] = "open" <=> \E f \in Fds : fdConn[f] = c

Store == INSTANCE FileStore WITH
  asked   <- req,
  whole   <- {c \in Conns : Arrived(c)},
  store   <- files,
  answer  <- reply,
  writing <- IF pc = "write" THEN Conn ELSE NoConn

(***************************************************************************)
(* With headers that arrive in one piece, and a disk whose errors the      *)
(* stream buffer does not hide, the server is the store of FileStore:      *)
(* requests of concurrent clients act one at a time, none twice, OK is     *)
(* said of a PUT only when its whole content was stored or the client cut  *)
(* it, and a crash damages only the file being written.                    *)
(***************************************************************************)
ImplementsFileStore == Store!Spec

(***************************************************************************)
(* Once the kernel has queued a connection the server eventually lets go   *)
(* of it: since a connection is queued, opened and closed once, there      *)
(* comes a time after which none is left waiting in the queue or open.     *)
(***************************************************************************)
EveryClientReleased ==
  <>[](\A c \in Conns : phase[c] \notin {"queued", "open"})

(***************************************************************************)
(* A client that stays eventually holds the whole response, unless the     *)
(* process ends on the way.                                                *)
(***************************************************************************)
EveryAnswerHeard ==
  \A c \in Conns :
    phase[c] = "queued" ~>
      \/ reply[c] # NoReply /\ heard[c] = ReplySize(reply[c])
      \/ ~Staying(c) \/ pc = "down"
=============================================================================
