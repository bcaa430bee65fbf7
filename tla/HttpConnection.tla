--------------------------- MODULE HttpConnection ---------------------------
(***************************************************************************)
(* One HttpKvsConnection: read(), processRead() with its two state         *)
(* machines, process() and write().  The client sends a request in pieces  *)
(* of any size and waits for the answer.  EPOLLONESHOT lets one thread at  *)
(* a time work on the connection (Reactor), so the steps of the reactor    *)
(* and of the worker are those of one process; the timers are in Reactor.  *)
(*                                                                         *)
(* A request is a sequence of tokens, which the buffers count like bytes:  *)
(* the text of a request line or of a header, "\r", "\n", and the two      *)
(* parts of a JSON body.  A text cut in two behaves like a text that has   *)
(* not arrived, because parseLineData steps over it either way.            *)
(***************************************************************************)
EXTENDS Integers, Sequences, FiniteSetsExt

CONSTANTS
    Requests,           \* sequences of tokens
    None,
    READ_BUFFER_SIZE,
    AnswerSize,         \* bytes of an answer (it fits WRITE_BUFFER_SIZE)
    MaxRequests         \* bound on the requests of the connection

ASSUME SizesAssumption ==
    /\ READ_BUFFER_SIZE \in Nat \ {0}
    /\ AnswerSize \in Nat \ {0}
    /\ MaxRequests \in Nat

(* Tokens.  A body has the fields cmd and key in its first part. *)
CR == [is |-> "cr"]
LF == [is |-> "lf"]
Fields == [is |-> "fields"]
Rest == [is |-> "rest"]
Start(method, url, version) ==
    [is |-> "start", method |-> method, url |-> url, version |-> version]
KeepAlive == [is |-> "keep-alive"]
ContentLength(n) == [is |-> "length", n |-> n]
Header == [is |-> "header"]

Tokens == {CR, LF, Fields, Rest, KeepAlive, Header}
          \cup [is : {"start"}, method : {"GET", "POST", "other"},
                url : {"/api/kv", "/api/stats", "/"}, version : {"HTTP/1.0", "HTTP/1.1"}]
          \cup [is : {"length"}, n : Nat]

ASSUME RequestsAssumption == Requests \subseteq Seq(Tokens) /\ None \notin Requests

(* What a request asks for, read off the whole of it: where its lines end, *)
(* and its blank lines; then, of the lines that end at `end` or before,    *)
(* the headers.                                                            *)
LineEnds(r) == {i \in 2..Len(r) : r[i - 1] = CR /\ r[i] = LF}
BlankLines(r) == {i \in LineEnds(r) : i - 2 \in LineEnds(r)}
HeadEnd(r) == Min(BlankLines(r))
Headers(r, end) == {i \in 2..end : i - 1 \in LineEnds(r)}
Lengths(r, end) == {i \in Headers(r, end) : r[i].is = "length"}
Declared(r, end) == IF Lengths(r, end) = {} THEN 0 ELSE r[Max(Lengths(r, end))].n
KeepsTo(r, end) == \E i \in Headers(r, end) : r[i] = KeepAlive

(* parseRequestLine reads on after the first line of these alone. *)
Good(r) == r[1].method \in {"GET", "POST"} /\ r[1].version = "HTTP/1.1"
Keeps(r) == Good(r) /\ BlankLines(r) # {} /\ KeepsTo(r, HeadEnd(r))
Framed(r) == Good(r) /\ BlankLines(r) # {} /\ Declared(r, HeadEnd(r)) # 0

(* The clients: a request starts with its request line; one that says how  *)
(* long its body is tells the truth, and one that keeps the connection     *)
(* says it when it has a body.                                             *)
ASSUME ClientAssumption == \A r \in Requests :
    /\ r # << >> /\ r[1].is = "start"
    /\ Framed(r) \/ Keeps(r) => Len(r) = HeadEnd(r) + Declared(r, HeadEnd(r))
ASSUME NoneAssumption ==
    /\ None \notin [kind : {"kv", "stats", "404"}, body : Seq(Tokens), keep : BOOLEAN]
    /\ None \notin {"/api/kv", "/api/stats"}

VARIABLES
    request,            \* client: the request it waits on, None between two
    asks,               \* client: how many requests so far
    to_send,            \* client: what it has not sent yet
    gone,               \* client: it has closed the connection
    unread,             \* socket: what has arrived and read() has not taken
    sent,               \* socket: what writev() has taken of the answer
    m_read_buf,         \* up to m_read_index
    m_checked_index,
    m_start_line,
    m_check_state,      \* "requestline", "header", "content"
    m_method,
    m_url,
    m_content_length,
    m_keep_alive,
    nul,                \* where parseRequestContent has put a NUL into m_read_buf, or 0
    m_write_buf,        \* the answer, None when there is none
    bytes_to_send,
    bytes_have_send,
    iov,                \* m_iv[0], base relative to m_write_buf
    pc,                 \* "in", "out", "blocked": armed for EPOLLIN, for EPOLLOUT with
                        \* and without room in the socket; "parse", "scan", "serve" in
                        \* process(); "more": in the loop of write(); "closed"
    executed            \* history: the commands given to kvs_handle_command

clientVars == <<request, asks, to_send, gone>>
parseVars == <<m_read_buf, m_checked_index, m_start_line, m_check_state, m_method, m_url,
               m_content_length, m_keep_alive, nul>>
writeVars == <<m_write_buf, bytes_to_send, bytes_have_send, iov, sent>>
vars == <<clientVars, unread, parseVars, writeVars, pc, executed>>

m_read_index == Len(m_read_buf)
NoIov == [base |-> 0, len |-> 0]

Init ==
    /\ request = None /\ asks = 0 /\ to_send = << >> /\ gone = FALSE
    /\ unread = << >> /\ sent = << >>
    /\ m_read_buf = << >> /\ m_checked_index = 0 /\ m_start_line = 0
    /\ m_check_state = "requestline" /\ m_method = "GET" /\ m_url = None
    /\ m_content_length = 0 /\ m_keep_alive = FALSE /\ nul = 0
    /\ m_write_buf = None /\ bytes_to_send = 0 /\ bytes_have_send = 0 /\ iov = NoIov
    /\ pc = "in" /\ executed = << >>

(* Mutant: init() does not empty the read buffer. *)
InitKeepsBuffer ==
    /\ m_checked_index' = m_read_index /\ m_start_line' = m_read_index
    /\ m_check_state' = "requestline" /\ m_method' = "GET" /\ m_url' = None
    /\ m_content_length' = 0 /\ m_keep_alive' = FALSE /\ nul' = 0
    /\ UNCHANGED m_read_buf

(* HttpConnection::init() *)
InitParser ==
    /\ m_read_buf' = << >> /\ m_checked_index' = 0 /\ m_start_line' = 0
    /\ m_check_state' = "requestline" /\ m_method' = "GET" /\ m_url' = None
    /\ m_content_length' = 0 /\ m_keep_alive' = FALSE /\ nul' = 0

-----------------------------------------------------------------------------
(* The client and the network.                                              *)

Ask(r) ==
    /\ request = None /\ asks < MaxRequests
    /\ pc # "closed" /\ ~gone
    /\ request' = r
    /\ asks' = asks + 1
    /\ to_send' = to_send \o r
    /\ UNCHANGED <<gone, unread, parseVars, writeVars, pc, executed>>

(* The next n bytes arrive. *)
Arrive(n) ==
    /\ n \in 1..Len(to_send)
    /\ ~gone /\ pc # "closed"
    /\ unread' = unread \o SubSeq(to_send, 1, n)
    /\ to_send' = SubSeq(to_send, n + 1, Len(to_send))
    /\ UNCHANGED <<request, asks, gone, parseVars, writeVars, pc, executed>>

HangUp ==
    /\ ~gone /\ pc # "closed"
    /\ gone' = TRUE
    /\ UNCHANGED <<request, asks, to_send, unread, parseVars, writeVars, pc, executed>>

(* The socket has room again: EPOLLOUT. *)
Drain ==
    /\ pc = "blocked"
    /\ pc' = "out"
    /\ UNCHANGED <<clientVars, unread, parseVars, writeVars, executed>>

-----------------------------------------------------------------------------
(* The reactor thread: a hang-up, and read().                               *)

closeConnection ==
    /\ pc' = "closed"
    /\ UNCHANGED <<clientVars, unread, parseVars, writeVars, executed>>

HandleHup == pc \in {"in", "out", "blocked"} /\ gone /\ closeConnection

(* Mutant: recv() is given one byte too many. *)
RoomPlusOne == READ_BUFFER_SIZE - m_read_index + 1

Room == READ_BUFFER_SIZE - m_read_index

(* Everything that has arrived, until recv() would block.  recv() with no   *)
(* room left returns 0, like an end of stream, if there is more to receive. *)
Read ==
    /\ pc = "in" /\ ~gone
    /\ unread # << >>
    /\ Len(unread) <= Room
    /\ m_read_buf' = m_read_buf \o unread
    /\ unread' = << >>
    /\ pc' = "parse"
    /\ UNCHANGED <<clientVars, m_checked_index, m_start_line, m_check_state, m_method, m_url,
                   m_content_length, m_keep_alive, nul, writeVars, executed>>

ReadFails ==
    /\ pc = "in"
    /\ unread # << >>
    /\ Len(unread) > Room
    /\ closeConnection

-----------------------------------------------------------------------------
(* The worker: processRead(), one turn of its loop at a time.               *)

(* parseLineData(): where the line ends that starts at m_start_line.        *)
Breaks == {i \in m_checked_index + 1 .. m_read_index : m_read_buf[i] \in {CR, LF}}
FirstBreak == Min(Breaks)

LineOpenAt ==
    IF Breaks = {} THEN {m_read_index}
    ELSE IF m_read_buf[FirstBreak] = CR /\ FirstBreak = m_read_index THEN {FirstBreak - 1}
    ELSE {}

(* The index after "\r\n".  A "\n" is never met without its "\r", which     *)
(* stops the search first.                                                  *)
LineOKAt ==
    IF Breaks = {} THEN {}
    ELSE LET b == FirstBreak IN
         IF m_read_buf[b] = CR
         THEN IF b < m_read_index /\ m_read_buf[b + 1] = LF THEN {b + 1} ELSE {}
         ELSE IF b > 2 /\ m_read_buf[b - 1] = CR THEN {b} ELSE {}

(* getLine(), without its "\r\n". *)
Line(end) == SubSeq(m_read_buf, m_start_line + 1, end - 2)

ScansLine == (pc = "parse" /\ m_check_state # "content") \/ pc = "scan"

(* NO_REQUEST: process() arms EPOLLIN again. *)
LineOpen ==
    /\ ScansLine
    /\ m_checked_index' \in LineOpenAt
    /\ pc' = "in"
    /\ UNCHANGED <<clientVars, unread, m_read_buf, m_start_line, m_check_state, m_method, m_url,
                   m_content_length, m_keep_alive, nul, writeVars, executed>>

LineBad ==
    /\ ScansLine
    /\ LineOpenAt = {} /\ LineOKAt = {}
    /\ m_checked_index' = FirstBreak - 1
    /\ pc' = "in"
    /\ UNCHANGED <<clientVars, unread, m_read_buf, m_start_line, m_check_state, m_method, m_url,
                   m_content_length, m_keep_alive, nul, writeVars, executed>>

TakesLine(end) ==
    /\ end \in LineOKAt
    /\ m_checked_index' = end
    /\ m_start_line' = end

(* parseRequestLine: a method and a url are kept also when what follows is  *)
(* a BAD_REQUEST, and process() does not look at the code.                  *)
RequestLine(end) ==
    LET line == Line(end)
        start == IF line # << >> /\ line[1].is = "start" THEN line[1]
                 ELSE Start("none", None, None)
        known == start.method \in {"GET", "POST"}
        good == known /\ start.version = "HTTP/1.1"
    IN
    /\ pc = "parse" /\ m_check_state = "requestline"
    /\ TakesLine(end)
    /\ m_method' = IF known THEN start.method ELSE m_method
    /\ m_url' = IF known THEN start.url ELSE None
    /\ m_check_state' = IF good THEN "header" ELSE m_check_state
    /\ pc' = IF good THEN "parse" ELSE "serve"
    /\ UNCHANGED <<clientVars, unread, m_read_buf, m_content_length, m_keep_alive, nul,
                   writeVars, executed>>

(* parseRequestHeaders *)
HeaderLine(end) ==
    LET line == Line(end) IN
    /\ pc = "parse" /\ m_check_state = "header"
    /\ TakesLine(end)
    /\ line # << >>
    /\ m_keep_alive' = (m_keep_alive \/ line[1] = KeepAlive)
    /\ m_content_length' = IF line[1].is = "length" THEN line[1].n ELSE m_content_length
    /\ UNCHANGED <<clientVars, unread, m_read_buf, m_check_state, m_method, m_url, nul,
                   writeVars, pc, executed>>

BlankLine(end) ==
    /\ pc = "parse" /\ m_check_state = "header"
    /\ TakesLine(end)
    /\ Line(end) = << >>
    /\ IF m_content_length # 0
       THEN m_check_state' = "content" /\ UNCHANGED pc
       ELSE pc' = "serve" /\ UNCHANGED m_check_state
    /\ UNCHANGED <<clientVars, unread, m_read_buf, m_method, m_url, m_content_length,
                   m_keep_alive, nul, writeVars, executed>>

(* parseRequestContent, at the head of the loop or after a line.  It ends   *)
(* the body with a NUL, counted from the line that starts at m_start_line,  *)
(* one past m_read_buf when the request fills it.  When the body is not all *)
(* there, the loop goes on to look for a line in it.                        *)
AllRead(checked) == m_read_index >= m_content_length + checked

parseRequestContent(checked) ==
    \/ /\ AllRead(checked)
       /\ nul' = m_start_line + m_content_length
       /\ pc' = "serve"
    \/ /\ ~AllRead(checked)
       /\ UNCHANGED nul
       /\ pc' = "scan"

ContentAtHead ==
    /\ pc = "parse" /\ m_check_state = "content"
    /\ parseRequestContent(m_checked_index)
    /\ m_start_line' = m_checked_index
    /\ UNCHANGED <<clientVars, unread, m_read_buf, m_checked_index, m_check_state, m_method,
                   m_url, m_content_length, m_keep_alive, writeVars, executed>>

ContentAfterLine(end) ==
    /\ pc = "scan"
    /\ parseRequestContent(end)
    /\ TakesLine(end)
    /\ UNCHANGED <<clientVars, unread, m_read_buf, m_check_state, m_method, m_url,
                   m_content_length, m_keep_alive, writeVars, executed>>

ParseStep ==
    \/ LineOpen \/ LineBad \/ ContentAtHead
    \/ \E end \in 1..m_read_index :
          RequestLine(end) \/ HeaderLine(end) \/ BlankLine(end) \/ ContentAfterLine(end)

-----------------------------------------------------------------------------
(* process(): the route, the command, and the answer in the write buffer.   *)

(* The string at m_read_buf + m_checked_index, up to the NUL.               *)
json_body ==
    SubSeq(m_read_buf, m_checked_index + 1, IF nul = 0 THEN m_read_index ELSE nul)

Answers(kind, body) ==
    /\ m_write_buf' = [kind |-> kind, body |-> body, keep |-> m_keep_alive]
    /\ bytes_to_send' = AnswerSize
    /\ iov' = [base |-> 0, len |-> AnswerSize]
    /\ sent' = << >>
    /\ pc' = "out"
    /\ UNCHANGED <<clientVars, unread, parseVars, bytes_have_send>>

IsKv == m_method = "POST" /\ m_url = "/api/kv"
IsStats == m_method = "GET" /\ m_url = "/api/stats"
Parses == Fields \in {json_body[i] : i \in DOMAIN json_body}

processKvsRequest ==
    /\ pc = "serve" /\ IsKv /\ Parses
    /\ executed' = Append(executed, json_body)
    /\ Answers("kv", json_body)

(* No cmd or key: BAD_REQUEST, and no answer. *)
BadJson ==
    /\ pc = "serve" /\ IsKv /\ ~Parses
    /\ closeConnection

StatsOrNotFound ==
    /\ pc = "serve" /\ ~IsKv
    /\ Answers(IF IsStats THEN "stats" ELSE "404", << >>)
    /\ UNCHANGED executed

-----------------------------------------------------------------------------
(* The reactor thread: write(), one writev() at a time.                     *)

(* Mutant: iov_base stays at the start of the answer. *)
WritePartRepeats(n) ==
    /\ pc \in {"out", "more"}
    /\ n \in 1..iov.len /\ n < bytes_to_send
    /\ sent' = sent \o [i \in 1..n |-> iov.base + i]
    /\ bytes_have_send' = bytes_have_send + n
    /\ bytes_to_send' = bytes_to_send - n
    /\ iov' = [iov EXCEPT !.len = @ - n]
    /\ pc' = "more"
    /\ UNCHANGED <<clientVars, unread, parseVars, m_write_buf, executed>>

(* writev() takes n bytes of iov and some of the answer is left. *)
WritePart(n) ==
    LET have == bytes_have_send + n IN
    /\ pc \in {"out", "more"}
    /\ n \in 1..iov.len /\ n < bytes_to_send
    /\ sent' = sent \o [i \in 1..n |-> iov.base + i]
    /\ bytes_have_send' = have
    /\ bytes_to_send' = bytes_to_send - n
    /\ iov' = IF have >= iov.len THEN [iov EXCEPT !.len = 0]
              ELSE [base |-> have, len |-> iov.len - n]
    /\ pc' = "more"
    /\ UNCHANGED <<clientVars, unread, parseVars, m_write_buf, executed>>

(* The rest: init() for the next request, or false, and main() closes. *)
WriteRest ==
    /\ pc \in {"out", "more"}
    /\ bytes_to_send > 0 /\ iov.len = bytes_to_send
    /\ sent' = sent \o [i \in 1..iov.len |-> iov.base + i]
    /\ request' = None
    /\ IF m_keep_alive
       THEN /\ InitParser
            /\ m_write_buf' = None /\ bytes_to_send' = 0 /\ bytes_have_send' = 0
            /\ pc' = "in"
       ELSE /\ bytes_to_send' = 0 /\ bytes_have_send' = bytes_have_send + iov.len
            /\ pc' = "closed"
            /\ UNCHANGED <<parseVars, m_write_buf>>
    /\ iov' = [iov EXCEPT !.len = 0]
    /\ UNCHANGED <<asks, to_send, gone, unread, executed>>

(* Mutant: after EAGAIN write() arms EPOLLIN. *)
WriteBlocksForInput ==
    /\ pc = "more" /\ iov.len > 0
    /\ pc' = "in"
    /\ UNCHANGED <<clientVars, unread, parseVars, writeVars, executed>>

(* EAGAIN: wait for EPOLLOUT. *)
WriteBlocks ==
    /\ pc = "more" /\ iov.len > 0
    /\ pc' = "blocked"
    /\ UNCHANGED <<clientVars, unread, parseVars, writeVars, executed>>

(* writev() of an empty iov returns 0 and tells nothing of the client. *)
WriteFails == pc \in {"out", "more"} /\ iov.len > 0 /\ gone /\ closeConnection

WriteStep == WriteRest \/ WriteFails \/ WriteBlocks \/ \E n \in 1..AnswerSize : WritePart(n)

ServerStep ==
    \/ HandleHup \/ Read \/ ReadFails
    \/ ParseStep
    \/ processKvsRequest \/ BadJson \/ StatsOrNotFound
    \/ WriteStep

Next ==
    \/ \E r \in Requests : Ask(r)
    \/ \E n \in 1..READ_BUFFER_SIZE : Arrive(n)
    \/ HangUp \/ Drain
    \/ ServerStep

Spec == Init /\ [][Next]_vars

(* The threads run, and the network delivers and takes what it is given. *)
Fairness == WF_vars(ServerStep) /\ WF_vars(Drain) /\ WF_vars(\E n \in 1..READ_BUFFER_SIZE : Arrive(n))

FairSpec == Spec /\ Fairness

-----------------------------------------------------------------------------
(* Types, and the order of the indices into the read buffer. *)
TypeOK ==
    /\ request \in Requests \cup {None} /\ asks \in 0..MaxRequests
    /\ to_send \in Seq(Tokens) /\ unread \in Seq(Tokens) /\ m_read_buf \in Seq(Tokens)
    /\ gone \in BOOLEAN /\ m_keep_alive \in BOOLEAN
    /\ m_start_line \in 0..m_checked_index
    /\ m_checked_index \in 0..m_read_index
    /\ m_read_index \in 0..READ_BUFFER_SIZE
    /\ m_check_state \in {"requestline", "header", "content"}
    /\ m_method \in {"GET", "POST"}
    /\ m_url \in {None, "/api/kv", "/api/stats", "/"}
    /\ m_content_length \in Nat /\ nul \in 0..READ_BUFFER_SIZE
    /\ bytes_to_send \in 0..AnswerSize /\ bytes_have_send \in 0..AnswerSize
    /\ iov \in [base : 0..AnswerSize, len : 0..AnswerSize]
    /\ sent \in Seq(1..AnswerSize)
    /\ pc \in {"in", "parse", "scan", "serve", "out", "more", "blocked", "closed"}

(* What leaves is the answer from its start, in order; iov is the rest of   *)
(* it, or empty (write(), which compares bytes_have_send with what is left  *)
(* of iov_len).  Before the answer, nothing counts as sent.                 *)
AnswerInOrder ==
    /\ pc \in {"in", "parse", "scan", "serve"} => bytes_have_send = 0
    /\ pc \in {"out", "blocked", "more"} =>
          /\ bytes_to_send > 0 /\ bytes_have_send + bytes_to_send = AnswerSize
          /\ sent = [i \in 1..bytes_have_send |-> i]
          /\ iov.len # 0 => iov = [base |-> bytes_have_send, len |-> bytes_to_send]
          /\ pc # "more" => iov.len # 0

Buffers == TypeOK /\ AnswerInOrder

AsksKv(r) == r[1].method = "POST" /\ r[1].url = "/api/kv"
AsksStats(r) == r[1].method = "GET" /\ r[1].url = "/api/stats"

(* A POST that does not say how long its body is may be served with the     *)
(* part of it that has arrived, and one with another version from the end   *)
(* of its first line.                                                       *)
Bodies(r) ==
    LET start == IF Good(r) THEN HeadEnd(r) ELSE Min(LineEnds(r))
    IN IF ~AsksKv(r) THEN {<< >>}
       ELSE {SubSeq(r, start + 1, i) : i \in IF Framed(r) THEN {Len(r)} ELSE start..Len(r)}

Rights(r) ==
    [kind : {IF AsksKv(r) THEN "kv" ELSE IF AsksStats(r) THEN "stats" ELSE "404"},
     body : Bodies(r),
     keep : {Keeps(r)}]
Runs(answered) == IF answered.kind = "kv" THEN <<answered.body>> ELSE << >>

(* Until it is answered a request is in the buffer, in the socket and with  *)
(* the client, in this order; nothing else is.                              *)
InTransit ==
    pc # "closed" =>
        IF request = None
        THEN pc = "in" /\ m_read_buf = << >> /\ unread = << >> /\ to_send = << >>
        ELSE m_read_buf \o unread \o to_send = request

(* What parseLineData has stepped over of a line is not the end of it. *)
LineClean == \A i \in m_start_line + 1 .. m_checked_index : m_read_buf[i] \notin {CR, LF}

AtRequestLine ==
    /\ m_check_state = "requestline"
    /\ m_start_line = 0 /\ LineClean
    /\ m_method = "GET" /\ m_url = None /\ m_content_length = 0 /\ ~m_keep_alive

(* The fields hold what the lines up to `end` say. *)
FieldsUpTo(end) ==
    /\ request # None /\ Good(request)
    /\ m_method = request[1].method /\ m_url = request[1].url
    /\ m_content_length = Declared(request, end)
    /\ m_keep_alive = KeepsTo(request, end)

AtHeaders ==
    /\ m_check_state = "header"
    /\ m_start_line \in LineEnds(request) /\ LineClean
    /\ \A i \in BlankLines(request) : i > m_start_line
    /\ FieldsUpTo(m_start_line)

AtContent ==
    /\ m_check_state = "content"
    /\ BlankLines(request) # {} /\ m_start_line >= HeadEnd(request)
    /\ FieldsUpTo(HeadEnd(request)) /\ m_content_length # 0

(* Where the parser is in the request. *)
ParserAt ==
    /\ request = None /\ pc # "closed" => AtRequestLine
    /\ pc \in {"in", "parse"} => AtRequestLine \/ AtHeaders \/ AtContent
    /\ pc = "scan" => AtContent

(* What process() is about to answer is what was asked; a request after     *)
(* which the connection stays open has been received to its last byte.      *)
AsAsked ==
    /\ pc = "serve" => /\ IsKv <=> AsksKv(request)
                       /\ IsStats <=> AsksStats(request)
                       /\ IsKv => json_body \in Bodies(request)
                       /\ m_checked_index + m_content_length <= m_read_index
                       /\ nul = IF m_content_length = 0 THEN 0
                                ELSE m_checked_index + m_content_length
    /\ pc \in {"in", "parse", "scan"} => nul = 0
    /\ pc \in {"serve", "out", "more", "blocked"} =>
          /\ m_keep_alive = Keeps(request)
          /\ m_keep_alive => unread = << >> /\ to_send = << >>
    /\ pc \in {"in", "parse", "scan", "serve"} => m_write_buf = None
    /\ pc \in {"out", "more", "blocked"} => m_write_buf # None

(* The inductive invariant of the proofs. *)
Inductive == Buffers /\ InTransit /\ ParserAt /\ AsAsked

(* However a request and its answer are cut, the request is served at most  *)
(* once, with its whole body, and what is sent is its answer, in order and  *)
(* complete before the next request is read.                                *)
Exchange == INSTANCE HttpExchange WITH
    asked <- request,
    answer <- IF request = None THEN None ELSE m_write_buf,
    open <- pc # "closed",
    Size <- AnswerSize

ImplementsExchange == Exchange!Spec

(* A request is refused for its length only if it does not fit the buffer, *)
(* whatever the connection has served before.                              *)
RefusedTooLong ==
    pc = "in" /\ Len(unread) > Room => Len(request) > READ_BUFFER_SIZE

(* The ways not to answer: a body of which a part was parsed alone, so that *)
(* parseLineData has stepped over it; an answer that took more than two     *)
(* writev() calls, so that iov_len, compared with what was sent, is 0 and   *)
(* the reactor thread stays in the loop of write() (http_connection.cpp:399,*)
(* Reactor); and a request with an "\n" that no "\r" precedes.              *)
BodySkipped == m_check_state = "content" /\ m_checked_index # m_start_line
WriteStuck == pc = "more" /\ iov.len = 0

WellFormed(r) == \A i \in DOMAIN r : r[i] = LF => i > 1 /\ r[i - 1] = CR

(* A client that has sent its request gets the answer, or the connection is *)
(* closed, or it is one of the three cases above.                           *)
Answered ==
    request # None ~> \/ request = None \/ pc = "closed" \/ gone
                      \/ BodySkipped \/ WriteStuck \/ ~WellFormed(request)

(* http_connection.cpp:299: parseRequestContent only judges whether the     *)
(* body has been read completely.  A request that has been is not waited    *)
(* for any more.                                                            *)
WholeRequestServed == pc = "in" => m_read_buf # request

=============================================================================
