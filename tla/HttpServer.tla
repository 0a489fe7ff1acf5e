------------------------------ MODULE HttpServer ----------------------------
(* The web server (WebServer.cpp, Parsing.cpp and the request handlers) over *)
(* its TCP sockets (NetworkServer.cpp, NetworkClient.cpp), with the firmware *)
(* update of HttpOTA as one of its upload handlers.                          *)
(*                                                                           *)
(* One sketch calls handleClient() for ever.  The calls are taken apart      *)
(* where they read from the socket, because there a peer may have sent more, *)
(* may keep silent until the read runs out, or may have closed.  A peer's    *)
(* request is a sequence of tokens: a line, or one byte of a body; reading a *)
(* line takes a token, or answers "" when the time is over.                  *)
(*                                                                           *)
(* Assumed of the sketches: a handler answers once, by send(), by streaming  *)
(* content of unknown length, or by the chunk calls (from begin to end, to   *)
(* HTTP/1.1 peers); upload handlers other than HttpOTA's do not answer.      *)
EXTENDS HttpOTA, SequencesExt

CONSTANTS
    Peers,      \* the peers, each of which makes one request
    Kinds,      \* the kinds of request they make
    MaxFile,    \* bound: bytes of an uploaded file or raw body
    Images,     \* lengths of the firmware files
    BufLen,     \* HTTP_UPLOAD_BUFLEN and HTTP_RAW_BUFLEN
    MaxPost,    \* WEBSERVER_MAX_POST_ARGS
    Sizes,      \* lengths of the pieces handlers answer with
    MaxPieces,  \* bound: pieces of an answer
    Polite,     \* assumption: a peer that goes silent or away in the middle of
                \* a request does so inside the bytes of its body
    NamedBin,   \* assumption: firmware files are named *.bin
    NoPeer

ASSUME ServerAssumption ==
    /\ {MaxFile, MaxPieces} \subseteq Nat /\ Images \subseteq Nat
    /\ {BufLen, MaxPost} \subseteq Nat \ {0}
    /\ Sizes \subseteq 0..99
    /\ {Polite, NamedBin} \subseteq BOOLEAN
    /\ NoPeer \notin Peers

-----------------------------------------------------------------------------
(* The requests.                                                             *)

Bytes == {"x", "y", "cr", "lf", "mark"}

\* "\r\n--boundary", with the dashes and the boundary as one byte.
Delim == <<"cr", "lf", "mark">>

Contents == UNION {[1..n -> {"x", "cr", "lf"}] : n \in 0..MaxFile}
Image(n) == [i \in 1..n |-> IF i % 2 = 0 THEN "y" ELSE "x"]

Request(kind, parts, file) == [kind |-> kind, parts |-> parts, file |-> file]

Requests ==
    {r \in {Request("page", <<>>, <<>>), Request("missing", <<>>, <<>>),
            Request("plain", <<>>, <<"x", "y">>)}
        \cup {Request("raw", <<>>, Image(n)) : n \in 0..MaxFile}
        \cup {Request("fields", p, <<>>) : p \in {<<"field">>, <<"field", "field">>}}
        \cup {Request("upload", <<"file">>, f) : f \in Contents}
        \cup {Request("form", p, <<"cr", "x">>) :
                p \in {<<"field", "file">>, <<"file", "field">>}}
        \cup {Request("update", <<"file">>, Image(n)) : n \in Images}
      : r.kind \in Kinds}

IsForm(r) == r.kind \in {"fields", "upload", "form", "update"}
IsPost(r) == r.kind \notin {"page", "missing"}
\* canRaw, canUpload: the handler has a second function.
TakesData(r) == IsForm(r) \/ r.kind = "raw"

PartTokens(r, i) ==
    LET last == i = Len(r.parts)
    IN  IF r.parts[i] = "field"
        THEN <<"field", "", "value", IF last THEN "last" ELSE "bound">>
        ELSE <<"file", "type", "">> \o r.file \o Delim
               \o <<IF last THEN "tail" ELSE "">>

Tokens(r) ==
    <<"request">>
    \o (IF ~IsPost(r) THEN <<"header", "">>
        ELSE IF ~IsForm(r) THEN <<"length", "">> \o r.file
        ELSE <<"form", "", "bound">>
               \o FlattenSeq([i \in DOMAIN r.parts |-> PartTokens(r, i)]))

-----------------------------------------------------------------------------
VARIABLES
    link,       \* of each peer: "none", "backlog", "open", "closed"
    \* the connection that was accepted
    asked,      \* the request its peer makes
    left,       \* tokens the peer has not sent yet
    sock,       \* tokens that arrived and wait in the socket
    fin,        \* the peer has closed its side
    \* NetworkClient _currentClient
    client,     \* the peer it is connected to, or NoPeer
    conn,       \* _connected
    rx,         \* _rxBuffer
    \* WebServer, parsing
    pc,         \* where handleClient() stands
    isForm, length,     \* what the headers said
    tries,              \* of _parseForm, for its first line
    postArgs, args,     \* _postArgs, _currentArgs: the peer each came from
    buf, total,         \* buf and totalSize of _currentUpload or _currentRaw
    matched,            \* boundaryPtr
    calls,              \* history: callbacks of the upload or raw body
    \* WebServer, answering
    contentLength, chunked,
    active,     \* _chunkedResponseActive
    answer,     \* history: what was written to the peer by its handler
    \* HttpOTA
    ota

peers   == <<link, asked, left, sock, fin>>
socket  == <<client, conn, rx>>
parsed  == <<isForm, length, tries>>
lists   == <<postArgs, args>>
body    == <<buf, total, matched, calls>>
reply   == <<contentLength, chunked, active, answer>>
vars == <<peers, socket, pc, parsed, lists, body, reply, ota>>

Unset   == -2       \* CONTENT_LENGTH_NOT_SET
Unknown == -1       \* CONTENT_LENGTH_UNKNOWN

NoRequest == Request("none", <<>>, <<>>)

Init ==
    /\ link = [p \in Peers |-> "none"]
    /\ asked = NoRequest /\ left = <<>> /\ sock = <<>> /\ fin = FALSE
    /\ client = NoPeer /\ conn = FALSE /\ rx = <<>>
    /\ pc = "idle" /\ isForm = FALSE /\ length = 0 /\ tries = 0
    /\ postArgs = <<>> /\ args = <<>>
    /\ buf = <<>> /\ total = 0 /\ matched = 0 /\ calls = <<>>
    /\ contentLength = 0 /\ chunked = FALSE /\ active = FALSE /\ answer = <<>>
    /\ ota = Factory

-----------------------------------------------------------------------------
(* The peers.                                                                *)

\* lwIP completes the connection; what it sends meanwhile is seen by nobody
\* before the connection is accepted.
Connect(p) ==
    /\ link[p] = "none"
    /\ link' = [link EXCEPT ![p] = "backlog"]
    /\ UNCHANGED <<asked, left, sock, fin, socket, pc, parsed, lists, body,
                   reply, ota>>

\* How many tokens may arrive before the next silence.
Segments ==
    {n \in 1..Len(left) : ~Polite \/ n = Len(left) \/ left[n + 1] \in Bytes}

Arrive ==
    /\ client # NoPeer /\ ~fin
    /\ \E n \in Segments : /\ sock' = sock \o SubSeq(left, 1, n)
                           /\ left' = SubSeq(left, n + 1, Len(left))
    /\ UNCHANGED <<link, asked, fin, socket, pc, parsed, lists, body, reply, ota>>

\* The peer closes, before or after it has sent everything.
Close ==
    /\ client # NoPeer /\ ~fin
    /\ fin' = TRUE
    /\ UNCHANGED <<link, asked, left, sock, socket, pc, parsed, lists, body,
                   reply, ota>>

-----------------------------------------------------------------------------
(* The socket.                                                               *)

Waiting == rx \o sock           \* available() of them

\* connected(): it peeks into the socket, not into the buffer.
StillConnected == conn /\ (sock # <<>> \/ ~fin)

\* n tokens are read; an empty buffer is filled with all the socket holds.
Take(n) ==
    IF n <= Len(rx)
    THEN rx' = SubSeq(rx, n + 1, Len(rx)) /\ UNCHANGED sock
    ELSE /\ rx' = SubSeq(Waiting, n + 1, Len(Waiting))
         /\ sock' = <<>>

\* A blocking read: the token there is, or nothing when the time is over.
Line == IF conn /\ Waiting # <<>> THEN Head(Waiting) ELSE ""

Read ==
    /\ IF conn /\ Waiting # <<>> THEN Take(1) ELSE UNCHANGED <<rx, sock>>
    /\ UNCHANGED <<link, asked, left, fin, client, conn>>

Goto(l) == pc' = l

\* NetworkClient::clear drops what has arrived.
Clear == /\ rx' = <<>>
         /\ sock' = <<>>

-----------------------------------------------------------------------------
(* handleClient.                                                             *)

Accept(p) ==
    /\ pc = "idle" /\ client = NoPeer
    /\ link[p] = "backlog"
    /\ link' = [link EXCEPT ![p] = "open"]
    /\ \E r \in Requests : asked' = r /\ left' = Tokens(r)
    /\ sock' = <<>> /\ fin' = FALSE
    /\ client' = p /\ conn' = TRUE /\ rx' = <<>>
    /\ Goto("wait")
    /\ UNCHANGED <<parsed, lists, body, reply, ota>>

\* HC_WAIT_READ: something arrived.
RequestArrived ==
    /\ pc = "wait"
    /\ StillConnected /\ Waiting # <<>>
    /\ Goto("request")
    /\ UNCHANGED <<peers, socket, parsed, lists, body, reply, ota>>

GiveUpNever ==                          \* mutant
    /\ pc = "wait" /\ ~StillConnected
    /\ Goto("drop")
    /\ UNCHANGED <<peers, socket, parsed, lists, body, reply, ota>>

\* The peer is gone, or HTTP_MAX_DATA_WAIT is over.
GiveUp ==
    /\ pc = "wait"
    /\ ~StillConnected \/ Waiting = <<>>
    /\ Goto("drop")
    /\ UNCHANGED <<peers, socket, parsed, lists, body, reply, ota>>

\* The last reference to the socket goes away, and closes it.
Drop ==
    /\ pc = "drop"
    /\ link' = [link EXCEPT ![client] = "closed"]
    /\ client' = NoPeer /\ conn' = FALSE /\ rx' = <<>>
    /\ asked' = NoRequest /\ left' = <<>> /\ sock' = <<>> /\ fin' = FALSE
    /\ buf' = <<>> /\ total' = 0 /\ matched' = 0 /\ calls' = <<>>
    /\ answer' = <<>>
    /\ Goto("idle")
    /\ UNCHANGED <<parsed, lists, contentLength, chunked, active, ota>>

-----------------------------------------------------------------------------
(* _parseRequest.                                                            *)

ParseRequest ==
    /\ pc = "request"
    /\ Read
    /\ IF Line = "request"
       THEN chunked' = FALSE /\ length' = 0 /\ isForm' = FALSE /\ Goto("headers")
       ELSE Goto("drop") /\ UNCHANGED <<chunked, length, isForm>>
    /\ UNCHANGED <<tries, lists, body, contentLength, active, answer, ota>>

\* _parseArguments: the arguments in the address, of which each request has one.
UrlArgs == <<client>>

\* The headers end at an empty line, or when the time is over.
ParseHeader ==
    /\ pc = "headers"
    /\ Read
    /\ length' = IF Line = "length" THEN Len(asked.file) ELSE length
    /\ isForm' = (isForm \/ Line = "form")
    /\ IF Line # ""
       THEN Goto(pc) /\ UNCHANGED <<args, tries>>
       ELSE /\ tries' = 0
            /\ IF ~IsPost(asked) THEN Goto("parsed") /\ args' = UrlArgs
               ELSE IF isForm THEN Goto("form") /\ args' = UrlArgs
               ELSE /\ Goto(IF TakesData(asked) THEN "raw" ELSE "plain")
                    /\ UNCHANGED args
    /\ UNCHANGED <<postArgs, body, reply, ota>>

\* readBytesWithTimeout takes all there is, more than it was asked for too.
PlainRead ==
    /\ pc = "plain"
    /\ total < length /\ conn /\ Waiting # <<>>
    /\ total' = total + Len(Waiting)
    /\ Take(Len(Waiting))
    /\ UNCHANGED <<link, asked, left, fin, client, conn, pc, parsed, lists, buf,
                   matched, calls, reply, ota>>

PlainShort ==
    /\ pc = "plain"
    /\ total < length /\ (~conn \/ Waiting = <<>>)
    /\ Goto("drop")
    /\ UNCHANGED <<peers, socket, parsed, lists, body, reply, ota>>

\* The whole body becomes one more argument.
PlainDone ==
    /\ pc = "plain"
    /\ total >= length
    /\ args' = IF length > 0 THEN Append(UrlArgs, client) ELSE UrlArgs
    /\ Goto("parsed")
    /\ UNCHANGED <<peers, socket, parsed, postArgs, body, reply, ota>>

ParseDone ==
    /\ pc = "parsed"
    /\ Clear
    /\ contentLength' = Unset
    /\ answer' = <<>>
    /\ Goto("middleware")
    /\ UNCHANGED <<link, asked, left, fin, client, conn, parsed, lists, body,
                   chunked, active, ota>>

-----------------------------------------------------------------------------
(* The callbacks of a body: raw(), or upload() of one file of a form.        *)

Called(st, data) == [st |-> st, data |-> data]

\* What may fail; bound: one flash call of an update.
FlashFaults == IF ota.status = "error" THEN {"none"} ELSE {"none", "erase", "write"}
FlagFaults  == {{}, {3}}

\* HttpOTA::handleFirmwareUpload, one callback of the route it serves.
OtaCall(o, c, fault, failed) ==
    LET o1 == [o EXCEPT !.reply = 0]
    IN  CASE c.st = "start"   -> OtaStart(o1, NamedBin)
          [] c.st = "write"   -> OtaWrite(o1, c.data, fault)
          [] c.st = "end"     -> OtaEnd(o1, failed)
          [] c.st = "aborted" -> OtaAborted(o1)

\* One callback after the other.
OtaCalls(cs, fault, failed) ==
    LET o[i \in 0..Len(cs)] ==
            IF i = 0 THEN ota ELSE OtaCall(o[i - 1], cs[i], fault, failed)
    IN  o[Len(cs)]

\* The handler's second function is called with each of `cs'.  An answer sent
\* from there still goes by the _contentLength of the request before.
CallBack(cs) ==
    /\ calls' = IF cs # <<>> /\ cs[1].st = "start" THEN cs ELSE calls \o cs
    /\ IF asked.kind # "update" THEN UNCHANGED <<ota, chunked>>
       ELSE \E fault \in FlashFaults, failed \in FlagFaults :
            /\ ota' = OtaCalls(cs, fault, failed)
            /\ chunked' = (chunked \/ (ota'.reply # 0 /\ contentLength = Unknown))

Keeping == UNCHANGED <<contentLength, active, answer>>

RawStart ==
    /\ pc = "raw"
    /\ CallBack(<<Called("start", <<>>)>>)
    /\ buf' = <<>> /\ total' = 0 /\ Goto("rawBytes")
    /\ UNCHANGED <<peers, socket, parsed, lists, matched>> /\ Keeping

\* readBytes returns when the buffer or the body is full, or the time over.
RawByte ==
    /\ pc = "rawBytes"
    /\ total < length /\ conn /\ Waiting # <<>>
    /\ Take(1)
    /\ LET got  == Append(buf, Head(Waiting))
           full == Len(got) = BufLen \/ total + Len(got) = length
       IN  IF full THEN /\ CallBack(<<Called("write", got)>>)
                        /\ buf' = <<>> /\ total' = total + Len(got)
           ELSE buf' = got /\ UNCHANGED <<total, calls, ota, chunked>>
    /\ UNCHANGED <<link, asked, left, fin, client, conn, pc, parsed, lists,
                   matched>> /\ Keeping

RawSilence ==
    /\ pc = "rawBytes"
    /\ total < length /\ (~conn \/ Waiting = <<>>)
    /\ IF buf = <<>>
       THEN CallBack(<<Called("aborted", <<>>)>>) /\ Goto("drop")
       ELSE CallBack(<<Called("write", buf)>>) /\ Goto(pc)
    /\ total' = total + Len(buf) /\ buf' = <<>>
    /\ UNCHANGED <<peers, socket, parsed, lists, matched>> /\ Keeping

RawEnd ==
    /\ pc = "rawBytes"
    /\ total >= length
    /\ CallBack(<<Called("end", <<>>)>>)
    /\ Goto("parsed")
    /\ UNCHANGED <<peers, socket, parsed, lists, buf, total, matched>> /\ Keeping

-----------------------------------------------------------------------------
(* _parseForm.                                                               *)

FormStart ==
    /\ pc = "form"
    /\ Read
    /\ tries' = tries + 1
    /\ IF Line = "" /\ tries' < 3 THEN Goto(pc) /\ UNCHANGED postArgs
       ELSE IF Line = "bound" THEN Goto("part") /\ postArgs' = <<>>
       ELSE Goto("drop") /\ UNCHANGED postArgs
    /\ UNCHANGED <<isForm, length, args, body, reply, ota>>

\* Lines that are no Content-Disposition, the empty ones of a peer that went
\* silent too, are passed over.
Part ==
    /\ pc = "part"
    /\ Read
    /\ Goto(CASE Line = "field" -> "fieldHeaders"
              [] Line = "file"  -> "fileHeaders"
              [] OTHER          -> pc)
    /\ UNCHANGED <<parsed, lists, body, reply, ota>>

FieldHeader ==
    /\ pc = "fieldHeaders"
    /\ Read
    /\ Goto(IF Line = "" THEN "value" ELSE pc)
    /\ UNCHANGED <<parsed, lists, body, reply, ota>>

Value ==
    /\ pc = "value"
    /\ Read
    /\ IF Line \notin {"bound", "last"} THEN Goto(pc) /\ UNCHANGED postArgs
       ELSE /\ postArgs' = Append(postArgs, client)
            /\ Goto(IF Line = "last" THEN "formEnd"
                    ELSE IF Len(postArgs') >= MaxPost THEN "drop" ELSE "part")
    /\ UNCHANGED <<parsed, args, body, reply, ota>>

\* The headers of a file end: its upload begins, unless the handler asks for
\* needAuthBeforeUpload.
FileHeader ==
    /\ pc = "fileHeaders"
    /\ Read
    /\ IF Line # "" THEN Goto(pc) /\ UNCHANGED <<body, ota, chunked>>
       ELSE /\ buf' = <<>> /\ total' = 0 /\ matched' = 0
            /\ \/ CallBack(<<Called("start", <<>>)>>) /\ Goto("file")
               \/ /\ asked.kind # "update"
                  /\ CallBack(<<Called("start", <<>>), Called("aborted", <<>>)>>)
                  /\ Goto("drop")
    /\ UNCHANGED <<parsed, lists>> /\ Keeping

\* What a byte that is not the next one of the delimiter adds to the file.
LosesPrefix(b) == IF b = Delim[1] THEN <<>> ELSE <<b>>          \* mutant
Emitted(b) == SubSeq(Delim, 1, matched) \o IF b = Delim[1] THEN <<>> ELSE <<b>>

\* The full buffers that make room for `more', and what stays in the buffer.
Pieces(more) ==
    LET all == buf \o more
        n   == IF more = <<>> THEN 0 ELSE (Len(all) - 1) \div BufLen
    IN  [full |-> [i \in 1..n |-> SubSeq(all, (i - 1) * BufLen + 1, i * BufLen)],
         rest |-> SubSeq(all, n * BufLen + 1, Len(all))]

FileByte ==
    /\ pc = "file"
    /\ conn /\ Waiting # <<>>
    /\ Take(1)
    /\ LET b == Head(Waiting)
       IN  IF b = Delim[matched + 1]
           THEN /\ matched' = matched + 1
                /\ Goto(IF matched' = Len(Delim) THEN "fileEnd" ELSE pc)
                /\ UNCHANGED <<buf, total, calls, ota, chunked>>
           ELSE LET p == Pieces(Emitted(b))
                IN  /\ matched' = IF b = Delim[1] THEN 1 ELSE 0
                    /\ CallBack([i \in DOMAIN p.full |-> Called("write", p.full[i])])
                    /\ buf' = p.rest
                    /\ total' = total + Len(p.full) * BufLen
                    /\ Goto(pc)
    /\ UNCHANGED <<link, asked, left, fin, client, conn, parsed, lists>> /\ Keeping

\* _uploadReadByte: the peer is gone, or its time is over.
FileAborted ==
    /\ pc = "file"
    /\ ~conn \/ Waiting = <<>>
    /\ CallBack(<<Called("aborted", <<>>)>>)
    /\ Goto("drop")
    /\ UNCHANGED <<peers, socket, parsed, lists, buf, total, matched>> /\ Keeping

\* The last piece and the end.  Whether the peer is still there is then asked of
\* the socket, though the rest of the form may wait in the buffer.
FileEnd ==
    /\ pc = "fileEnd"
    /\ LET told == <<Called("write", buf), Called("end", <<>>)>>
       IN  CallBack(IF StillConnected THEN told ELSE Append(told, Called("aborted", <<>>)))
    /\ total' = total + Len(buf)
    /\ Goto(IF asked.kind = "update" /\ ota'.reply = 200 THEN "reboot"
            ELSE IF StillConnected THEN "tail" ELSE "drop")
    /\ UNCHANGED <<peers, socket, parsed, lists, buf, matched>> /\ Keeping

Tail_ ==
    /\ pc = "tail"
    /\ Read
    /\ Goto(IF Line = "tail" THEN "formEnd" ELSE "part")
    /\ UNCHANGED <<parsed, lists, body, reply, ota>>

Smaller(a, b) == IF a < b THEN a ELSE b

\* The arguments of the form come first, then those of the address.
FormEnd ==
    /\ pc = "formEnd"
    /\ args' = postArgs \o SubSeq(args, 1, Smaller(MaxPost - Len(postArgs), Len(args)))
    /\ postArgs' = <<>>
    /\ Goto("parsed")
    /\ UNCHANGED <<peers, socket, parsed, body, reply, ota>>

-----------------------------------------------------------------------------
(* _handleRequest and the calls of the handler.  What is written is a        *)
(* sequence of parts: the head with the length it declares (Unknown when it  *)
(* announces chunks), plain data, and chunks with the size their first line  *)
(* says.                                                                     *)

HeadPart(n)     == [t |-> "head",  size |-> n, data |-> 0]
DataPart(n)     == [t |-> "data",  size |-> n, data |-> n]
ChunkPart(s, n) == [t |-> "chunk", size |-> s, data |-> n]

\* sendContent
Content(n) == IF chunked THEN ChunkPart(n, n) ELSE DataPart(n)

\* The size line of chunkWrite is printed in decimal; a peer reads it as
\* hexadecimal.
AsHex(n) == (n \div 10) * 16 + (n % 10)

Broken == /\ conn' = FALSE /\ rx' = <<>>
          /\ link' = [link EXCEPT ![client] = "closed"]

\* The parts reach the peer, or its socket is found broken and closed.
Write(parts) ==
    /\ \/ conn /\ answer' = answer \o parts /\ UNCHANGED <<link, conn, rx>>
       \/ conn /\ fin /\ Broken /\ UNCHANGED answer
       \/ ~conn /\ UNCHANGED <<answer, link, conn, rx>>
    /\ UNCHANGED <<asked, left, sock, fin, client>>

\* A middleware lets the request pass, or answers it (requestAuthentication).
Allow ==
    /\ pc = "middleware" /\ Goto("handler")
    /\ UNCHANGED <<peers, socket, parsed, lists, body, reply, ota>>

Refuse ==
    /\ pc = "middleware" /\ Goto("drop")
    /\ Write(<<HeadPart(0)>>)
    /\ UNCHANGED <<parsed, lists, body, contentLength, chunked, active, ota>>

\* send(); the answer to an address no handler takes is one too.
Send(n) ==
    /\ pc = "handler" /\ asked.kind # "update"
    /\ Write(<<HeadPart(n)>> \o IF n = 0 THEN <<>> ELSE <<Content(n)>>)
    /\ Goto("return")
    /\ UNCHANGED <<parsed, lists, body, contentLength, chunked, active, ota>>

\* streamFile(), setContentLength() and send() with the file after it.
SendFile(n) ==
    /\ pc = "handler" /\ asked.kind = "page"
    /\ contentLength' = n
    /\ Write(<<HeadPart(n), DataPart(n)>>)
    /\ Goto("return")
    /\ UNCHANGED <<parsed, lists, body, chunked, active, ota>>

\* setContentLength(CONTENT_LENGTH_UNKNOWN) and send().
SendOpen ==
    /\ pc = "handler" /\ asked.kind = "page"
    /\ contentLength' = Unknown /\ chunked' = TRUE
    /\ Write(<<HeadPart(Unknown)>>)
    /\ Goto("content")
    /\ UNCHANGED <<parsed, lists, body, active, ota>>

SendContent(n) ==
    /\ pc = "content" /\ Len(answer) <= MaxPieces
    /\ Write(<<Content(n)>>)
    /\ chunked' = (chunked /\ n # 0)
    /\ Goto(IF n = 0 \/ ~conn THEN "return" ELSE pc)
    /\ UNCHANGED <<parsed, lists, body, contentLength, active, ota>>

ChunkResponseBegin ==
    /\ pc = "handler" /\ asked.kind = "page"
    /\ IF active THEN UNCHANGED <<reply, peers, socket>>
       ELSE /\ contentLength' = Unknown /\ chunked' = TRUE /\ active' = TRUE
            /\ Write(<<HeadPart(Unknown)>>)
    /\ Goto("chunks")
    /\ UNCHANGED <<parsed, lists, body, ota>>

ChunkWrite(n) ==
    /\ pc = "chunks" /\ active /\ n > 0
    /\ Len(answer) <= MaxPieces
    /\ Write(<<ChunkPart(AsHex(n), n)>>)
    /\ active' = (conn /\ conn')
    /\ UNCHANGED <<pc, parsed, lists, body, contentLength, chunked, ota>>

ChunkResponseEnd ==
    /\ pc = "chunks"
    /\ IF ~active THEN UNCHANGED <<reply, peers, socket>>
       ELSE /\ Write(<<ChunkPart(0, 0)>>)
            /\ active' = FALSE /\ chunked' = FALSE
            /\ UNCHANGED contentLength
    /\ Goto("return")
    /\ UNCHANGED <<parsed, lists, body, ota>>

\* The handler has nothing (more) to say.
Return ==
    /\ \/ pc = "content"
       \/ pc = "handler" /\ asked.kind = "update"
    /\ Goto("return")
    /\ UNCHANGED <<peers, socket, parsed, lists, body, reply, ota>>

NeverFinal == /\ pc = "return" /\ Goto("drop")                  \* mutant
              /\ UNCHANGED <<peers, socket, parsed, lists, body, reply, ota>>

\* _finalizeResponse
Finalize ==
    /\ pc = "return"
    /\ IF chunked THEN Write(<<Content(0)>>) ELSE UNCHANGED <<peers, socket, answer>>
    /\ chunked' = FALSE
    /\ Goto("drop")
    /\ UNCHANGED <<parsed, lists, body, contentLength, active, ota>>

\* HttpOTA::reboot: the board starts again with empty hands.
Reboot ==
    /\ pc = "reboot"
    /\ ota' = OtaBoot(ota)
    /\ link' = [p \in Peers |-> IF link[p] = "none" THEN "none" ELSE "closed"]
    /\ client' = NoPeer /\ conn' = FALSE /\ rx' = <<>>
    /\ Goto("idle") /\ isForm' = FALSE /\ length' = 0 /\ tries' = 0
    /\ postArgs' = <<>> /\ args' = <<>>
    /\ buf' = <<>> /\ total' = 0 /\ matched' = 0
    /\ contentLength' = 0 /\ chunked' = FALSE /\ active' = FALSE /\ answer' = <<>>
    /\ asked' = NoRequest /\ left' = <<>> /\ sock' = <<>> /\ fin' = FALSE
    /\ calls' = <<>>

-----------------------------------------------------------------------------
HandleClient ==
    \/ \E p \in Peers : Accept(p)
    \/ RequestArrived \/ GiveUp \/ Drop
    \/ ParseRequest \/ ParseHeader
    \/ PlainRead \/ PlainShort \/ PlainDone
    \/ RawStart \/ RawByte \/ RawSilence \/ RawEnd
    \/ FormStart \/ Part \/ FieldHeader \/ Value
    \/ FileHeader \/ FileByte \/ FileAborted \/ FileEnd \/ Tail_ \/ FormEnd
    \/ ParseDone \/ Allow \/ Refuse
    \/ \E n \in Sizes : Send(n) \/ SendFile(n) \/ SendContent(n) \/ ChunkWrite(n)
    \/ SendOpen \/ ChunkResponseBegin \/ ChunkResponseEnd
    \/ Return \/ Finalize \/ Reboot

Next == HandleClient \/ (\E p \in Peers : Connect(p)) \/ Arrive \/ Close

\* The sketch calls handleClient() for ever; every wait in it is timed.
Spec == Init /\ [][Next]_vars /\ WF_vars(HandleClient)

-----------------------------------------------------------------------------
(* Properties.                                                               *)

Given == FlattenSeq([i \in DOMAIN calls |-> calls[i].data])

\* The callbacks of an upload or raw body: START, then WRITEs that carry the
\* file's bytes in order, none lost to the search for the boundary, then END
\* with the whole file or ABORTED, before the server turns to anything else.
\* ABORTED follows END only when the peer had closed.
UploadFaithful ==
    calls # <<>> =>
        LET n    == Len(calls)
            file == asked.file
            St(i) == calls[i].st
        IN  /\ St(1) = "start" /\ IsPrefix(Given, file)
            /\ \A i \in 2..n : St(i) # "start"
            /\ \A i \in 1..(n - 1) :
                  /\ St(i) # "aborted"
                  /\ St(i) = "end" => i = n - 1 /\ fin
            /\ (\E i \in 1..n : St(i) = "end") => Given = file
            /\ pc \in {"drop", "parsed", "handler"} => St(n) \in {"end", "aborted"}

\* What a whole answer makes of the peer's connection: as many bytes as the
\* head declares, or chunks whose size lines are true, up to one empty chunk.
Framed(a) ==
    LET rest == Tail(a)
        sum  == FoldLeft(LAMBDA s, x : s + x.data, 0, rest)
    IN  /\ a[1].t = "head"
        /\ IF a[1].size # Unknown
           THEN sum = a[1].size /\ \A i \in DOMAIN rest : rest[i].t = "data"
           ELSE /\ rest # <<>>
                /\ \A i \in DOMAIN rest :
                     /\ rest[i].t = "chunk" /\ rest[i].size = rest[i].data
                     /\ rest[i].data = 0 <=> i = Len(rest)

\* A peer that is still there when its request is done can tell where the
\* answer ends and gets the bytes the handler sent, however it sent them.
AnswerFramed ==
    pc = "drop" /\ conn /\ answer # <<>> /\ asked.kind # "update" => Framed(answer)

\* Whatever its peer does or leaves undone, a connection comes to an end and
\* handleClient() can turn to the next one.
EveryoneLetGo == client # NoPeer ~> client = NoPeer

\* An update erases and writes nothing but the slot that is not running.
OnlyOtherSlot ==
    [][\A a \in Cells \ SlotCells(1 - ota.running) : ota'.flash[a] = ota.flash[a]]_vars

=============================================================================
