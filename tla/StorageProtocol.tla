-------------------------- MODULE StorageProtocol --------------------------
(***************************************************************************)
(* Version 1 of the file storage protocol, as the server of Lecture 4      *)
(* parses it: what readRequest makes of the bytes of one connection and    *)
(* what handleRequest, getFile, putFile and deleteFile then do.            *)
(*                                                                         *)
(* A request is put on its stream in units, and every operator below takes *)
(* the prefix g of the request the server has got hold of:                 *)
(*    1  part of the verb              4  the whole name                   *)
(*    2  the verb and its space        5  ... and the space after it       *)
(*    3  ... and part of the name      6  ... and digits of the length     *)
(* GET and DELETE end at 4.  A PUT goes on: at HeaderEnd the space after   *)
(* the length has come, and each unit from there on is a piece of content. *)
(***************************************************************************)
EXTENDS Integers, Connections

CONSTANTS
  Names,       \* the file names in play
  Shorter,     \* what a name that was cut short reads as
  Nested,      \* names in a directory nobody creates
  Lengths,     \* the content_length values clients declare
  IntMax,      \* the largest int
  HeaderCuts   \* the places inside a header where a segment may end

HeaderEnd == 7
NameEnd   == 4

ASSUME ProtocolAssumption ==
  /\ Shorter \in [Names -> Names]
  /\ Nested \subseteq Names
  /\ IntMax \in Nat \ {0}
  /\ Lengths \subseteq 0 .. IntMax   \* stoi throws at a larger one
  /\ HeaderCuts \subseteq 1 .. (HeaderEnd - 1)

Ops      == {"GET", "PUT", "DELETE", "OTHER"}
Requests == [op : Ops, name : Names, len : Lengths]

RequestSize(r) ==
  CASE r.op = "PUT"             -> HeaderEnd + r.len
    [] r.op \in {"GET", "DELETE"} -> NameEnd
    [] OTHER                    -> 1

\* Where the segments that carry r may end.
SegmentEnds(r) ==
  {n \in 1 .. RequestSize(r) :
     n \in HeaderCuts \/ n >= HeaderEnd \/ n = RequestSize(r)}
-----------------------------------------------------------------------------
(***************************************************************************)
(* What a file holds: who wrote it, whether that was the content or a      *)
(* piece of the request's own header, and how much of it.                  *)
(***************************************************************************)
\* NoConn is the author of what no connection wrote.
Contents == [by : Conns \cup {NoConn}, part : {"none", "header", "body"}, size : Nat]

Content(c, part, n) == [by |-> c, part |-> part, size |-> n]
NoFile     == Content(NoConn, "none", 0)
Empty      == Content(NoConn, "body", 0)
OldFile    == Content(NoConn, "body", 1)   \* left there before the server started
Body(c, n) == IF n = 0 THEN Empty ELSE Content(c, "body", n)

Prefix(content, n) == IF n = 0 THEN Empty ELSE [content EXCEPT !.size = n]

Words   == {"none", "OK", "ERROR", "NOT_FOUND", "file"}
Replies == [tag : Words, body : Contents]

Word(w)       == [tag |-> w, body |-> NoFile]
FileReply(c)  == [tag |-> "file", body |-> c]
NoReply       == Word("none")
ReplySize(re) == CASE re.tag = "none" -> 0
                   [] re.tag = "file" -> re.body.size
                   [] OTHER           -> 1
-----------------------------------------------------------------------------
(* readRequest *)

\* Mutant: one bit fewer.
AsIntNarrow(n) ==
  LET width == IntMax + 1
  IN IF n % width < width \div 2 THEN n % width ELSE (n % width) - width

\* A size_t cut to an int: taken modulo 2^w, the upper half negative.
AsInt(n) ==
  LET width == 2 * (IntMax + 1)
  IN IF n % width <= IntMax THEN n % width ELSE (n % width) - width

\* The first recv decides: only a PUT whose length it holds is read further.
MoreToRead(r, g) == r.op = "PUT" /\ g >= HeaderEnd /\ AsInt(g - HeaderEnd) < r.len

\* A prefix that still has no verb and space is nobody's request.
Dispatched(r, g) == r.op # "OTHER" /\ g >= 2

\* The name the server sees; with no name at all the path is storagePath_ itself.
Named(g)      == g >= 3
NameSeen(r, g) == IF g >= NameEnd THEN r.name ELSE Shorter[r.name]

\* Mutant: substr past the end of a request without content throws.
LengthUnparsableEmpty(r, g) == r.op = "PUT" /\ Dispatched(r, g) /\ (g < 6 \/ r.len = 0)

\* std::stoi is given no digits, or the verb, and throws.
LengthUnparsable(r, g) == r.op = "PUT" /\ Dispatched(r, g) /\ g < 6

\* Mutant: the content taken from one place too far.
PutContentLate(c, r, g) ==
  IF r.len = 0 \/ g <= HeaderEnd THEN Empty
  ELSE Body(c, IF g - HeaderEnd - 1 < r.len THEN g - HeaderEnd - 1 ELSE r.len)

(***************************************************************************)
(* What putFile writes.  When the second space is missing fileLengthEnd is *)
(* npos, and npos + 1 is 0: the "content" is cut from the start of the     *)
(* request, its header.  Bytes beyond content_length are ignored, missing  *)
(* ones are not missed.                                                    *)
(***************************************************************************)
PutContent(c, r, g) ==
  IF r.len = 0 THEN Empty
  ELSE IF g < HeaderEnd THEN Content(c, "header", 1)
  ELSE Body(c, IF g - HeaderEnd < r.len THEN g - HeaderEnd ELSE r.len)

Present(files) == {n \in Names : files[n] # NoFile}

\* getFile: an open directory is a stream with nothing in it.
GetReply(r, g, files, dirOK) ==
  IF ~Named(g) THEN IF dirOK THEN FileReply(Empty) ELSE Word("NOT_FOUND")
  ELSE IF files[NameSeen(r, g)] = NoFile THEN Word("NOT_FOUND")
  ELSE FileReply(files[NameSeen(r, g)])

\* deleteFile: std::remove unlinks a file, and removes a directory that is empty.
RemovesFile(r, g, files) == Named(g) /\ files[NameSeen(r, g)] # NoFile
RemovesDir(g, files, dirOK) == ~Named(g) /\ dirOK /\ Present(files) = {}

DeleteReply(r, g, files, dirOK) ==
  IF RemovesFile(r, g, files) \/ RemovesDir(g, files, dirOK)
  THEN Word("OK") ELSE Word("ERROR")

\* putFile: ofstream creates the file but not the directories above it.
PutOpens(r, dirOK) == dirOK /\ r.name \notin Nested
=============================================================================
