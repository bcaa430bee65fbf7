------------------------- MODULE HttpConnectionProofs -------------------------
(***************************************************************************)
(* A connection for every buffer size, answer size and set of requests:    *)
(* the parser's indices never leave what has been received, write() sends  *)
(* the answer from its start and in order, the parser is always at a known *)
(* place of the request, whatever the pieces it came in, and the whole is  *)
(* an exchange of requests and answers (HttpExchange).                     *)
(***************************************************************************)
EXTENDS HttpConnection, SequenceTheorems, WellFoundedInduction, TLAPS

-----------------------------------------------------------------------------
(* Helpers.                                                                 *)

(* A function on 1..n is a sequence of length n. *)
LEMMA FunctionIsSequence ==
    ASSUME NEW S, NEW n \in Nat, NEW f \in [1..n -> S]
    PROVE  f \in Seq(S) /\ Len(f) = n
<1>1. f \in Seq(S)
  BY SeqDef
<1>2. DOMAIN f = 1..n /\ DOMAIN f = 1..Len(f) /\ Len(f) \in Nat
  BY <1>1, LenProperties
<1> QED
  BY <1>1, <1>2

(* A set of numbers has a least one, *)
LEMMA LeastIs ==
    ASSUME NEW S \in SUBSET Nat, S # {}
    PROVE  Min(S) \in S /\ \A i \in S : Min(S) <= i
<1>1. IsWellFoundedOn(OpToRel(<, Nat), Nat)
  BY NatLessThanWellFounded
<1>2. \E R : /\ IsWellFoundedOn(R, Nat)
             /\ \A p \in Nat \X Nat : p[1] < p[2] => p \in R
  BY <1>1, Zenon DEF OpToRel
<1>3. PICK R : /\ IsWellFoundedOn(R, Nat)
               /\ \A p \in Nat \X Nat : p[1] < p[2] => p \in R
  BY <1>2
<1>4. PICK i \in S : \A j \in S : <<j, i>> \notin R
  BY <1>3, WFMin
<1>5. ASSUME NEW j \in S PROVE i <= j
  <2>1. i \in Nat /\ j \in Nat
    OBVIOUS
  <2>2. <<j, i>> \in Nat \X Nat /\ <<j, i>> \notin R
    BY <1>4, <2>1
  <2>3. ~(j < i)
    BY <1>3, <2>2
  <2> QED
    BY <2>1, <2>3
<1> QED
  BY <1>5 DEF Min

(* and one that is bounded has a greatest. *)
LEMMA GreatestIs ==
    ASSUME NEW n \in Nat, NEW S \in SUBSET (0..n), S # {}
    PROVE  Max(S) \in S /\ \A i \in S : Max(S) >= i
<1> DEFINE T == {n - i : i \in S}
<1>1. T \in SUBSET Nat /\ T # {}
  <2>1. \A i \in S : n - i \in Nat
    OBVIOUS
  <2> QED
    BY <2>1
<1>2. PICK t \in T : \A u \in T : t <= u
  BY <1>1, LeastIs
<1>3. PICK i \in S : t = n - i
  BY <1>2
<1>4. \A j \in S : i >= j
  <2> TAKE j \in S
  <2>1. n - i <= n - j
    BY <1>2, <1>3
  <2> QED
    BY <2>1
<1> QED
  BY <1>4 DEF Max

(* The first byte that ends a line is one of those that do. *)
LEMMA FirstBreakIsBreak ==
    ASSUME TypeOK, Breaks # {}
    PROVE  /\ FirstBreak \in m_checked_index + 1 .. m_read_index
           /\ m_read_buf[FirstBreak] \in {CR, LF}
           /\ \A i \in m_checked_index + 1 .. FirstBreak - 1 : m_read_buf[i] \notin {CR, LF}
<1>1. m_checked_index \in Nat /\ m_read_index \in Nat
  BY DEF TypeOK
<1>2. Breaks \in SUBSET Nat
  BY <1>1 DEF Breaks
<1>3. FirstBreak \in Breaks /\ \A i \in Breaks : FirstBreak <= i
  BY <1>2, LeastIs DEF FirstBreak
<1>4. ASSUME NEW i \in m_checked_index + 1 .. FirstBreak - 1 PROVE m_read_buf[i] \notin {CR, LF}
  <2>1. i \in m_checked_index + 1 .. m_read_index /\ ~(FirstBreak <= i)
    BY <1>1, <1>3 DEF Breaks
  <2> QED
    BY <1>3, <2>1 DEF Breaks
<1> QED
  BY <1>3, <1>4 DEF Breaks

(* parseLineData() stops within what has been received; a line that is      *)
(* complete ends after at least one more byte.                              *)
LEMMA LineEndsWithin ==
    ASSUME TypeOK
    PROVE  /\ LineOpenAt \subseteq m_checked_index .. m_read_index
           /\ LineOKAt \subseteq m_checked_index + 1 .. m_read_index
           /\ Breaks # {} => FirstBreak - 1 \in m_checked_index .. m_read_index
<1>1. m_checked_index \in Nat /\ m_read_index \in Nat /\ m_checked_index <= m_read_index
  BY DEF TypeOK
<1>2. CASE Breaks = {}
  BY <1>1, <1>2 DEF LineOpenAt, LineOKAt
<1>3. CASE Breaks # {}
  <2>1. FirstBreak \in m_checked_index + 1 .. m_read_index
    BY <1>3, FirstBreakIsBreak
  <2> QED
    BY <1>1, <1>3, <2>1 DEF LineOpenAt, LineOKAt
<1> QED
  BY <1>2, <1>3

(* A line is made of tokens. *)
LEMMA LineType ==
    ASSUME TypeOK, NEW end \in LineOKAt
    PROVE  Line(end) \in Seq(Tokens)
<1>1. ASSUME NEW i \in m_start_line + 1 .. end - 2 PROVE m_read_buf[i] \in Tokens
  <2>1. m_read_buf \in Seq(Tokens) /\ m_start_line \in Nat /\ m_checked_index \in Nat
    BY DEF TypeOK
  <2>2. end \in m_checked_index + 1 .. Len(m_read_buf) /\ Len(m_read_buf) \in Nat
    BY <2>1, LineEndsWithin, LenProperties DEF m_read_index
  <2>3. i \in 1..Len(m_read_buf)
    BY <2>1, <2>2
  <2> QED
    BY <2>1, <2>3, ElementOfSeq
<1>2. m_start_line + 1 \in Int /\ end - 2 \in Int
  BY LineEndsWithin DEF TypeOK
<1> QED
  BY <1>1, <1>2, SubSeqProperties DEF Line

-----------------------------------------------------------------------------
(* The inductive invariant.                                                 *)

LEMMA InitEstablishes == Init => Buffers
<1> SUFFICES ASSUME Init PROVE Buffers
  OBVIOUS
<1>1. /\ to_send \in Seq(Tokens) /\ unread \in Seq(Tokens) /\ m_read_buf \in Seq(Tokens)
      /\ sent \in Seq(1..AnswerSize) /\ m_read_index = 0
  BY EmptySeq DEF Init, m_read_index
<1>2. iov \in [base : 0..AnswerSize, len : 0..AnswerSize]
  BY SizesAssumption DEF Init, NoIov
<1>3. /\ m_start_line \in 0..m_checked_index /\ m_checked_index \in 0..m_read_index
      /\ m_read_index \in 0..READ_BUFFER_SIZE /\ m_content_length \in Nat
      /\ asks \in 0..MaxRequests
      /\ bytes_to_send \in 0..AnswerSize /\ bytes_have_send \in 0..AnswerSize
  BY <1>1, SizesAssumption, SMT DEF Init
<1>4. gone \in BOOLEAN /\ m_keep_alive \in BOOLEAN /\ request \in Requests \cup {None}
  BY Zenon DEF Init
<1>5. TypeOK
  BY <1>1, <1>2, <1>3, <1>4 DEF Init, TypeOK
<1>6. AnswerInOrder
  BY DEF Init, AnswerInOrder
<1> QED
  BY <1>6, <1>5 DEF Buffers

(* The client, the network and the closing of the connection leave the      *)
(* parser and the answer alone.                                             *)
LEMMA ClientPreserves ==
    ASSUME Buffers,
           \/ \E r \in Requests : Ask(r)
           \/ \E n \in 1..READ_BUFFER_SIZE : Arrive(n)
           \/ HangUp \/ Drain
    PROVE  Buffers'
<1> USE DEF Buffers
<1>1. ASSUME NEW r \in Requests, Ask(r) PROVE Buffers'
  <2>1. r \in Seq(Tokens)
    BY RequestsAssumption
  <2>2. to_send' \in Seq(Tokens)
    BY <1>1, <2>1, ConcatProperties DEF Ask, TypeOK
  <2>3. asks' \in 0..MaxRequests
    BY <1>1, SizesAssumption DEF Ask, TypeOK
  <2>4. TypeOK'
    BY <1>1, <2>2, <2>3 DEF Ask, TypeOK, parseVars, writeVars, m_read_index
  <2>5. AnswerInOrder'
    BY <1>1 DEF Ask, AnswerInOrder, writeVars
  <2> QED
    BY <2>4, <2>5
<1>2. ASSUME NEW n \in 1..READ_BUFFER_SIZE, Arrive(n) PROVE Buffers'
  <2>0. Len(to_send) \in Nat /\ n \in 1..Len(to_send)
    BY <1>2, LenProperties DEF Arrive, TypeOK
  <2>1. SubSeq(to_send, 1, n) \in Seq(Tokens)
    <3>1. \A i \in 1..n : to_send[i] \in Tokens
      BY <2>0, ElementOfSeq DEF TypeOK
    <3> QED
      BY <2>0, <3>1, SubSeqProperties
  <2>2. SubSeq(to_send, n + 1, Len(to_send)) \in Seq(Tokens)
    <3>1. \A i \in n + 1 .. Len(to_send) : to_send[i] \in Tokens
      BY <2>0, ElementOfSeq DEF TypeOK
    <3> QED
      BY <2>0, <3>1, SubSeqProperties
  <2>3. unread' \in Seq(Tokens) /\ to_send' \in Seq(Tokens)
    BY <1>2, <2>1, <2>2, ConcatProperties DEF Arrive, TypeOK
  <2>4. TypeOK'
    BY <1>2, <2>3 DEF Arrive, TypeOK, parseVars, writeVars, m_read_index
  <2>5. AnswerInOrder'
    BY <1>2 DEF Arrive, AnswerInOrder, writeVars
  <2> QED
    BY <2>4, <2>5
<1>3. CASE HangUp
  <2>1. TypeOK'
    BY <1>3 DEF HangUp, TypeOK, parseVars, writeVars, m_read_index
  <2>2. AnswerInOrder'
    BY <1>3 DEF HangUp, AnswerInOrder, writeVars
  <2> QED
    BY <2>1, <2>2
<1>4. CASE Drain
  <2>1. TypeOK'
    BY <1>4 DEF Drain, TypeOK, clientVars, parseVars, writeVars, m_read_index
  <2>2. AnswerInOrder'
    BY <1>4 DEF Drain, AnswerInOrder, writeVars
  <2> QED
    BY <2>1, <2>2
<1> QED
  BY <1>1, <1>2, <1>3, <1>4

LEMMA ClosePreserves ==
    ASSUME Buffers, closeConnection
    PROVE  Buffers'
<1>1. TypeOK'
  BY DEF Buffers, closeConnection, TypeOK, clientVars, parseVars, writeVars, m_read_index
<1>2. AnswerInOrder'
  BY DEF closeConnection, AnswerInOrder
<1> QED
  BY <1>1, <1>2 DEF Buffers

(* recv() takes no more than there is room for. *)
LEMMA ReadPreserves ==
    ASSUME Buffers, Read
    PROVE  Buffers'
<1>1. /\ m_read_buf' \in Seq(Tokens)
      /\ Len(m_read_buf') = Len(m_read_buf) + Len(unread)
  BY ConcatProperties DEF Buffers, Read, TypeOK
<1>2. Len(m_read_buf) \in Nat /\ Len(unread) \in Nat
  BY LenProperties DEF Buffers, TypeOK
<1>3. m_read_index' \in 0..READ_BUFFER_SIZE /\ m_read_index <= m_read_index'
  BY <1>1, <1>2, SizesAssumption DEF Read, Room, m_read_index
<1>4. m_checked_index' \in 0..m_read_index'
  BY <1>3 DEF Buffers, Read, TypeOK
<1>5. TypeOK'
  BY <1>1, <1>3, <1>4, EmptySeq DEF Buffers, Read, TypeOK, clientVars, writeVars
<1>6. AnswerInOrder'
  BY DEF Buffers, Read, AnswerInOrder, writeVars
<1> QED
  BY <1>5, <1>6 DEF Buffers

(* A turn of processRead(): its indices move forward within the buffer. *)
LEMMA ParsePreserves ==
    ASSUME Buffers, UNCHANGED <<clientVars, unread, m_read_buf, writeVars>>,
           pc \in {"parse", "scan"}, pc' \in {"in", "parse", "scan", "serve"},
           m_checked_index' \in m_checked_index .. m_read_index,
           m_start_line' \in {m_start_line, m_checked_index'},
           m_check_state' \in {"requestline", "header", "content"},
           m_method' \in {"GET", "POST"},
           m_url' \in {None, "/api/kv", "/api/stats", "/"},
           m_content_length' \in Nat, m_keep_alive' \in BOOLEAN,
           nul' \in 0..READ_BUFFER_SIZE
    PROVE  Buffers'
<1>1. m_start_line' \in 0..m_checked_index'
  BY DEF Buffers, TypeOK
<1>2. m_checked_index' \in 0..m_read_index' /\ m_read_index' = m_read_index
  BY DEF Buffers, TypeOK, m_read_index
<1>3. TypeOK'
  BY <1>1, <1>2 DEF Buffers, TypeOK, clientVars, writeVars
<1>4. AnswerInOrder'
  BY DEF Buffers, AnswerInOrder, writeVars
<1> QED
  BY <1>3, <1>4 DEF Buffers

(* The NUL goes behind what has been received of the body. *)
LEMMA NulWithin ==
    ASSUME TypeOK, NEW checked, checked \in m_checked_index .. m_read_index,
           parseRequestContent(checked)
    PROVE  pc' \in {"scan", "serve"} /\ nul' \in 0..READ_BUFFER_SIZE
<1>1. /\ m_start_line \in Nat /\ m_content_length \in Nat /\ m_checked_index \in Nat
      /\ m_start_line <= m_checked_index /\ m_read_index \in 0..READ_BUFFER_SIZE
      /\ nul \in 0..READ_BUFFER_SIZE
  BY DEF TypeOK
<1>2. CASE AllRead(checked) /\ nul' = m_start_line + m_content_length /\ pc' = "serve"
  BY <1>1, <1>2, SizesAssumption DEF AllRead
<1> QED
  BY <1>1, <1>2 DEF parseRequestContent

LEMMA ParseStepPreserves ==
    ASSUME Buffers, ParseStep
    PROVE  Buffers'
<1>t. TypeOK
  BY DEF Buffers
<1>1. CASE LineOpen
  <2>1. m_checked_index' \in m_checked_index .. m_read_index
    BY <1>1, <1>t, LineEndsWithin DEF LineOpen
  <2> QED
    BY <1>1, <1>t, <2>1, ParsePreserves DEF LineOpen, ScansLine, TypeOK
<1>2. CASE LineBad
  <2>1. Breaks # {}
    BY <1>2 DEF LineBad, LineOpenAt
  <2>2. m_checked_index' \in m_checked_index .. m_read_index
    BY <1>2, <1>t, <2>1, LineEndsWithin DEF LineBad
  <2> QED
    BY <1>2, <1>t, <2>2, ParsePreserves DEF LineBad, ScansLine, TypeOK
<1>3. CASE ContentAtHead
  <2>1. /\ m_checked_index' \in m_checked_index .. m_read_index
        /\ m_start_line' = m_checked_index'
    BY <1>3, <1>t DEF ContentAtHead, TypeOK
  <2>2. pc' \in {"scan", "serve"} /\ nul' \in 0..READ_BUFFER_SIZE
    BY <1>3, <1>t, <2>1, NulWithin DEF ContentAtHead
  <2> QED
    BY <1>3, <1>t, <2>1, <2>2, ParsePreserves DEF ContentAtHead, TypeOK
<1>4. ASSUME NEW end, TakesLine(end)
      PROVE  /\ end \in LineOKAt
             /\ m_checked_index' \in m_checked_index .. m_read_index
             /\ m_start_line' = m_checked_index'
             /\ Line(end) \in Seq(Tokens)
  <2>1. end \in m_checked_index + 1 .. m_read_index
    BY <1>4, <1>t, LineEndsWithin DEF TakesLine
  <2> QED
    BY <1>4, <1>t, <2>1, LineType DEF TakesLine, TypeOK
<1>5. ASSUME NEW end, RequestLine(end) PROVE Buffers'
  <2> DEFINE line == Line(end)
             start == IF line # << >> /\ line[1].is = "start" THEN line[1]
                      ELSE Start("none", None, None)
  <2>1. TakesLine(end)
    BY <1>5 DEF RequestLine
  <2>2. start.method \in {"GET", "POST"} => start.url \in {"/api/kv", "/api/stats", "/"}
    <3>1. CASE line # << >> /\ line[1].is = "start"
      <4>1. line[1] \in Tokens
        BY <1>4, <2>1, <3>1, EmptySeq, ElementOfSeq
      <4> QED
        BY <3>1, <4>1 DEF Tokens, CR, LF, Fields, Rest, KeepAlive, Header
    <3>2. CASE ~(line # << >> /\ line[1].is = "start")
      BY <3>2 DEF Start
    <3> QED
      BY <3>1, <3>2
  <2>3. m_method' \in {"GET", "POST"} /\ m_url' \in {None, "/api/kv", "/api/stats", "/"}
    BY <1>5, <1>t, <2>2 DEF RequestLine, TypeOK
  <2>4. /\ pc \in {"parse", "scan"} /\ pc' \in {"in", "parse", "scan", "serve"}
        /\ m_check_state' \in {"requestline", "header", "content"}
        /\ UNCHANGED <<clientVars, unread, m_read_buf, m_content_length, m_keep_alive, nul,
                       writeVars>>
    BY <1>5 DEF RequestLine
  <2> QED
    BY <1>4, <1>t, <2>1, <2>3, <2>4, ParsePreserves DEF TypeOK
<1>6. ASSUME NEW end, HeaderLine(end) PROVE Buffers'
  <2> DEFINE line == Line(end)
  <2>1. TakesLine(end)
    BY <1>6 DEF HeaderLine
  <2>2. line[1] \in Tokens
    BY <1>4, <1>6, <2>1, EmptySeq, ElementOfSeq DEF HeaderLine
  <2>3. line[1].is = "length" => line[1].n \in Nat
    BY <2>2 DEF Tokens, CR, LF, Fields, Rest, KeepAlive, Header
  <2>4. m_content_length' \in Nat /\ m_keep_alive' \in BOOLEAN
    BY <1>6, <1>t, <2>3 DEF HeaderLine, TypeOK
  <2>5. /\ pc \in {"parse", "scan"} /\ pc' \in {"in", "parse", "scan", "serve"}
        /\ UNCHANGED <<clientVars, unread, m_read_buf, m_check_state, m_method, m_url, nul,
                       writeVars>>
    BY <1>6 DEF HeaderLine
  <2> QED
    BY <1>4, <1>t, <2>1, <2>4, <2>5, ParsePreserves DEF TypeOK
<1>7. ASSUME NEW end, BlankLine(end) PROVE Buffers'
  <2>1. TakesLine(end)
    BY <1>7 DEF BlankLine
  <2>2. /\ pc \in {"parse", "scan"} /\ pc' \in {"in", "parse", "scan", "serve"}
        /\ m_check_state' \in {"requestline", "header", "content"}
        /\ UNCHANGED <<clientVars, unread, m_read_buf, m_method, m_url, m_content_length,
                       m_keep_alive, nul, writeVars>>
    BY <1>7 DEF BlankLine
  <2> QED
    BY <1>4, <1>t, <2>1, <2>2, ParsePreserves DEF TypeOK
<1>8. ASSUME NEW end, ContentAfterLine(end) PROVE Buffers'
  <2>1. TakesLine(end)
    BY <1>8 DEF ContentAfterLine
  <2>2. /\ pc \in {"parse", "scan"} /\ parseRequestContent(m_checked_index')
        /\ UNCHANGED <<clientVars, unread, m_read_buf, m_check_state, m_method, m_url,
                       m_content_length, m_keep_alive, writeVars>>
    BY <1>8 DEF ContentAfterLine, TakesLine
  <2>3. pc' \in {"scan", "serve"} /\ nul' \in 0..READ_BUFFER_SIZE
    BY <1>4, <1>t, <2>1, <2>2, NulWithin
  <2> QED
    BY <1>4, <1>t, <2>1, <2>2, <2>3, ParsePreserves DEF TypeOK
<1> QED
  BY <1>1, <1>2, <1>3, <1>5, <1>6, <1>7, <1>8 DEF ParseStep

(* The answer is written, and none of it is sent yet. *)
LEMMA AnswersPreserves ==
    ASSUME Buffers, pc = "serve", NEW kind, NEW body, Answers(kind, body)
    PROVE  Buffers'
<1>1. bytes_have_send = 0
  BY DEF Buffers, AnswerInOrder
<1>2. TypeOK'
  BY SizesAssumption, EmptySeq DEF Buffers, Answers, TypeOK, clientVars, parseVars, m_read_index
<1>3. sent' = [i \in 1..bytes_have_send' |-> i]
  <2>1. bytes_have_send' = 0
    BY <1>1 DEF Answers
  <2>2. [i \in 1..0 |-> i] \in Seq(Int) /\ Len([i \in 1..0 |-> i]) = 0
    BY FunctionIsSequence
  <2>3. [i \in 1..0 |-> i] = << >>
    BY <2>2, EmptySeq
  <2> QED
    BY <2>1, <2>3 DEF Answers
<1>4. AnswerInOrder'
  BY <1>1, <1>3, SizesAssumption DEF Answers, AnswerInOrder
<1> QED
  BY <1>2, <1>4 DEF Buffers

(* What n more bytes make of what has been sent. *)
LEMMA SentGrows ==
    ASSUME NEW have \in Nat, NEW n \in Nat
    PROVE  [i \in 1..have |-> i] \o [i \in 1..n |-> have + i] = [i \in 1..have + n |-> i]
<1> DEFINE a == [i \in 1..have |-> i]
           b == [i \in 1..n |-> have + i]
           c == [i \in 1..have + n |-> i]
<1>1. /\ a \in Seq(Int) /\ Len(a) = have
      /\ b \in Seq(Int) /\ Len(b) = n
      /\ c \in Seq(Int) /\ Len(c) = have + n
  <2>1. a \in [1..have -> Int] /\ b \in [1..n -> Int] /\ c \in [1..have + n -> Int]
    OBVIOUS
  <2> QED
    BY <2>1, FunctionIsSequence
<1>2. /\ a \o b \in Seq(Int) /\ Len(a \o b) = have + n
      /\ \A i \in 1..have + n : (a \o b)[i] = IF i <= have THEN a[i] ELSE b[i - have]
  BY <1>1, ConcatProperties
<1>3. ASSUME NEW i \in 1..have + n PROVE (a \o b)[i] = c[i]
  BY <1>2
<1> HIDE DEF a, b, c
<1> QED
  BY <1>1, <1>2, <1>3, SeqEqual DEF a, b, c

LEMMA WritePartPreserves ==
    ASSUME Buffers, NEW n \in 1..AnswerSize, WritePart(n)
    PROVE  Buffers'
<1> DEFINE have == bytes_have_send + n
<1>1. /\ iov.len # 0 /\ iov.len \in 0..AnswerSize
      /\ n \in 1..iov.len /\ n < bytes_to_send
      /\ bytes_have_send \in 0..AnswerSize /\ bytes_to_send \in 0..AnswerSize
  BY DEF WritePart, Buffers, TypeOK
<1>2. /\ bytes_have_send + bytes_to_send = AnswerSize
      /\ sent = [i \in 1..bytes_have_send |-> i]
      /\ iov = [base |-> bytes_have_send, len |-> bytes_to_send]
  BY <1>1 DEF WritePart, Buffers, AnswerInOrder
<1>3. sent' = [i \in 1..have |-> i]
  BY <1>1, <1>2, SentGrows DEF WritePart
<1>4. /\ bytes_have_send' = have /\ bytes_to_send' = bytes_to_send - n
      /\ have \in 0..AnswerSize /\ bytes_to_send' \in 1..AnswerSize
      /\ have + bytes_to_send' = AnswerSize
  <2>1. bytes_have_send' = bytes_have_send + n /\ bytes_to_send' = bytes_to_send - n
    BY DEF WritePart
  <2> QED
    BY <1>1, <1>2, <2>1, SizesAssumption
<1>5. /\ iov' \in [base : 0..AnswerSize, len : 0..AnswerSize]
      /\ iov'.len # 0 => iov' = [base |-> have, len |-> bytes_to_send']
  <2>1. CASE have >= iov.len
    <3>1. iov' = [base |-> iov.base, len |-> 0]
      BY <1>2, <2>1 DEF WritePart
    <3> QED
      BY <1>1, <1>2, <3>1
  <2>2. CASE ~(have >= iov.len)
    <3>1. iov' = [base |-> have, len |-> iov.len - n]
      BY <2>2 DEF WritePart
    <3> QED
      BY <1>1, <1>2, <1>4, <3>1
  <2> QED
    BY <2>1, <2>2
<1>6. sent' \in Seq(1..AnswerSize)
  <2>1. [i \in 1..have |-> i] \in [1..have -> 1..AnswerSize]
    BY <1>4
  <2> QED
    BY <1>3, <1>4, <2>1, FunctionIsSequence
<1>7. TypeOK'
  BY <1>4, <1>5, <1>6, SMTT(30) DEF WritePart, Buffers, TypeOK, clientVars, parseVars, m_read_index
<1>8. AnswerInOrder'
  <2>1. pc' = "more"
    BY DEF WritePart
  <2> QED
    BY <1>3, <1>4, <1>5, <2>1 DEF AnswerInOrder
<1> QED
  BY <1>7, <1>8 DEF Buffers

LEMMA WriteRestPreserves ==
    ASSUME Buffers, WriteRest
    PROVE  Buffers'
<1>1. /\ iov.len # 0 /\ iov.len = bytes_to_send
      /\ bytes_have_send \in 0..AnswerSize /\ bytes_to_send \in 0..AnswerSize
      /\ iov \in [base : 0..AnswerSize, len : 0..AnswerSize]
  BY DEF WriteRest, Buffers, TypeOK
<1>2. /\ bytes_have_send + bytes_to_send = AnswerSize
      /\ sent = [i \in 1..bytes_have_send |-> i]
      /\ iov = [base |-> bytes_have_send, len |-> bytes_to_send]
  BY <1>1 DEF WriteRest, Buffers, AnswerInOrder
<1>3. sent' = [i \in 1..AnswerSize |-> i]
  BY <1>1, <1>2, SentGrows, SizesAssumption DEF WriteRest
<1>4. sent' \in Seq(1..AnswerSize)
  <2>1. [i \in 1..AnswerSize |-> i] \in [1..AnswerSize -> 1..AnswerSize]
    OBVIOUS
  <2> QED
    BY <1>3, <2>1, FunctionIsSequence, SizesAssumption
<1>5. /\ bytes_to_send' = 0 /\ bytes_have_send' \in 0..AnswerSize
      /\ iov' \in [base : 0..AnswerSize, len : 0..AnswerSize]
  BY <1>1, <1>2, SizesAssumption DEF WriteRest
<1>6. CASE m_keep_alive
  <2>1. m_read_buf' = << >> /\ m_read_index' = 0
    BY <1>6, EmptySeq DEF WriteRest, InitParser, m_read_index
  <2>2. m_read_buf' \in Seq(Tokens)
    BY <2>1, EmptySeq
  <2>3. /\ m_checked_index' = 0 /\ m_start_line' = 0 /\ m_check_state' = "requestline"
        /\ m_method' = "GET" /\ m_url' = None /\ m_content_length' = 0
        /\ nul' = 0 /\ m_keep_alive' = FALSE /\ bytes_have_send' = 0 /\ pc' = "in" /\ request' = None
        /\ UNCHANGED <<asks, to_send, gone, unread>>
    BY <1>6 DEF WriteRest, InitParser
  <2>4. TypeOK'
    <3>1. /\ m_start_line' \in 0..m_checked_index' /\ m_checked_index' \in 0..m_read_index'
          /\ m_read_index' \in 0..READ_BUFFER_SIZE /\ m_content_length' \in Nat
          /\ nul' \in 0..READ_BUFFER_SIZE /\ bytes_to_send' \in 0..AnswerSize /\ bytes_have_send' \in 0..AnswerSize
      BY <1>5, <2>1, <2>3, SizesAssumption, SMT
    <3>2. gone' \in BOOLEAN /\ m_keep_alive' \in BOOLEAN /\ request' \in Requests \cup {None}
      BY <2>3, Zenon DEF Buffers, TypeOK
    <3>3. asks' \in 0..MaxRequests /\ to_send' \in Seq(Tokens) /\ unread' \in Seq(Tokens)
      BY <2>3 DEF Buffers, TypeOK
    <3> QED
      BY <1>4, <1>5, <2>2, <2>3, <3>1, <3>2, <3>3 DEF TypeOK
  <2>5. AnswerInOrder'
    BY <2>3 DEF AnswerInOrder
  <2> QED
    BY <2>4, <2>5 DEF Buffers
<1>7. CASE ~m_keep_alive
  <2>1. TypeOK'
    BY <1>4, <1>5, <1>7 DEF WriteRest, Buffers, TypeOK, parseVars, m_read_index
  <2>2. AnswerInOrder'
    BY <1>7 DEF WriteRest, AnswerInOrder
  <2> QED
    BY <2>1, <2>2 DEF Buffers
<1> QED
  BY <1>6, <1>7

LEMMA WriteBlocksPreserves ==
    ASSUME Buffers, WriteBlocks
    PROVE  Buffers'
<1>1. TypeOK'
  BY DEF Buffers, WriteBlocks, TypeOK, clientVars, parseVars, writeVars, m_read_index
<1>2. AnswerInOrder'
  BY DEF Buffers, WriteBlocks, AnswerInOrder, writeVars
<1> QED
  BY <1>1, <1>2 DEF Buffers

LEMMA ServerPreserves ==
    ASSUME Buffers, ServerStep
    PROVE  Buffers'
<1>1. CASE HandleHup \/ ReadFails \/ BadJson \/ WriteFails
  BY <1>1, ClosePreserves DEF HandleHup, ReadFails, BadJson, WriteFails
<1>2. CASE processKvsRequest \/ StatsOrNotFound
  BY <1>2, AnswersPreserves DEF processKvsRequest, StatsOrNotFound
<1>3. CASE Read \/ ParseStep
  BY <1>3, ReadPreserves, ParseStepPreserves
<1>4. CASE WriteStep
  BY <1>1, <1>4, WriteRestPreserves, WriteBlocksPreserves, WritePartPreserves DEF WriteStep
<1> QED
  BY <1>1, <1>2, <1>3, <1>4 DEF ServerStep

(* The buffers, at every step of client and server. *)
LEMMA BuffersStep == Buffers /\ [Next]_vars => Buffers'
<1> SUFFICES ASSUME Buffers, [Next]_vars PROVE Buffers'
  OBVIOUS
<1>1. CASE ServerStep
  BY <1>1, ServerPreserves
<1>2. CASE \/ \E r \in Requests : Ask(r)
           \/ \E n \in 1..READ_BUFFER_SIZE : Arrive(n)
           \/ HangUp \/ Drain
  BY <1>2, ClientPreserves
<1>3. CASE UNCHANGED vars
  <2>1. TypeOK'
    BY <1>3 DEF Buffers, TypeOK, vars, clientVars, parseVars, writeVars, m_read_index
  <2>2. AnswerInOrder'
    BY <1>3 DEF Buffers, AnswerInOrder, vars, writeVars
  <2> QED
    BY <2>1, <2>2 DEF Buffers
<1> QED
  BY <1>1, <1>2, <1>3 DEF Next

(* The part of the invariant that is about the buffers alone. *)
THEOREM BuffersHold == Spec => []Buffers
<1> QED
  BY InitEstablishes, BuffersStep, PTL DEF Spec

(* read() and parseLineData(): the indices are in order and within the     *)
(* buffer, whatever arrives and however it is cut.                          *)
THEOREM IndicesInBuffer ==
    Spec => [](/\ 0 <= m_start_line /\ m_start_line <= m_checked_index
               /\ m_checked_index <= m_read_index /\ m_read_index <= READ_BUFFER_SIZE)
<1>1. Buffers => /\ 0 <= m_start_line /\ m_start_line <= m_checked_index
                   /\ m_checked_index <= m_read_index /\ m_read_index <= READ_BUFFER_SIZE
  BY SizesAssumption, LenProperties DEF Buffers, TypeOK, m_read_index
<1> QED
  BY <1>1, BuffersHold, PTL

(* write(): the answer leaves from its start and in order, and iov covers   *)
(* exactly the rest of it, or nothing.                                      *)
THEOREM AnswersInOrder == Spec => []AnswerInOrder
<1>1. Buffers => AnswerInOrder
  BY DEF Buffers
<1> QED
  BY <1>1, BuffersHold, PTL

-----------------------------------------------------------------------------
(* What a request says, line by line.                                       *)

(* The line after `start` ends at `end` in r. *)
NextLine(r, start, end) ==
    /\ start \in Nat /\ end \in 2..Len(r) /\ end >= start + 2
    /\ end \in LineEnds(r)
    /\ \A i \in LineEnds(r) : i <= start \/ i >= end
    /\ r[end - 1] = CR

(* Another line is another header, *)
LEMMA HeadersGrow ==
    ASSUME NEW r, NEW start, NEW end, start \in LineEnds(r), NextLine(r, start, end)
    PROVE  Headers(r, end) = Headers(r, start) \cup {start + 1}
<1>1. /\ start \in Nat /\ end \in Nat /\ end >= start + 2 /\ start >= 2
      /\ \A i \in LineEnds(r) : i <= start \/ i >= end
  BY DEF NextLine, LineEnds
<1>2. ASSUME NEW i \in Headers(r, end) PROVE i \in Headers(r, start) \cup {start + 1}
  <2>1. i \in 2..end /\ i - 1 \in LineEnds(r)
    BY <1>2 DEF Headers
  <2>2. i - 1 <= start
    BY <1>1, <2>1
  <2>3. i \in 2..start \/ i = start + 1
    BY <1>1, <2>1, <2>2
  <2> QED
    BY <2>1, <2>3 DEF Headers
<1>3. ASSUME NEW i \in Headers(r, start) PROVE i \in Headers(r, end)
  BY <1>1, <1>3 DEF Headers
<1>4. start + 1 \in Headers(r, end)
  <2>1. start + 1 \in 2..end /\ (start + 1) - 1 = start
    BY <1>1
  <2> QED
    BY <2>1 DEF Headers
<1> QED
  BY <1>2, <1>3, <1>4

(* the last length counts, *)
LEMMA DeclaredGrows ==
    ASSUME NEW r, NEW start, NEW end, start \in LineEnds(r), NextLine(r, start, end)
    PROVE  Declared(r, end) = IF r[start + 1].is = "length" THEN r[start + 1].n
                              ELSE Declared(r, start)
<1>1. Headers(r, end) = Headers(r, start) \cup {start + 1}
  BY HeadersGrow
<1>2. start \in Nat
  BY DEF NextLine
<1>3. CASE r[start + 1].is = "length"
  <2>1. Lengths(r, end) = Lengths(r, start) \cup {start + 1}
    BY <1>1, <1>3 DEF Lengths
  <2>2. \A i \in Lengths(r, start) : i \in 0..start
    BY <1>2 DEF Lengths, Headers
  <2>3. Lengths(r, end) \in SUBSET (0..start + 1) /\ start + 1 \in Nat /\ Lengths(r, end) # {}
    BY <1>2, <2>1, <2>2
  <2>4. Max(Lengths(r, end)) \in Lengths(r, end) /\ Max(Lengths(r, end)) >= start + 1
    BY <2>1, <2>3, GreatestIs
  <2>5. Max(Lengths(r, end)) = start + 1
    BY <1>2, <2>3, <2>4
  <2> QED
    BY <1>3, <2>3, <2>5 DEF Declared
<1>4. CASE r[start + 1].is # "length"
  <2>1. Lengths(r, end) = Lengths(r, start)
    BY <1>1, <1>4 DEF Lengths
  <2> QED
    BY <1>4, <2>1 DEF Declared
<1> QED
  BY <1>3, <1>4

(* and one keep-alive is enough. *)
LEMMA KeepsGrows ==
    ASSUME NEW r, NEW start, NEW end, start \in LineEnds(r), NextLine(r, start, end)
    PROVE  KeepsTo(r, end) = (KeepsTo(r, start) \/ r[start + 1] = KeepAlive)
<1>1. Headers(r, end) = Headers(r, start) \cup {start + 1}
  BY HeadersGrow
<1> QED
  BY <1>1 DEF KeepsTo

(* The first line has no headers, and the next blank line is after it. *)
LEMMA FirstLine ==
    ASSUME NEW r, NEW end, NextLine(r, 0, end)
    PROVE  /\ Declared(r, end) = 0 /\ ~KeepsTo(r, end)
           /\ \A i \in BlankLines(r) : i > end
           /\ Min(LineEnds(r)) = end
<1>1. end \in Nat /\ end \in LineEnds(r) /\ \A i \in LineEnds(r) : i \in Nat /\ i >= end
  BY DEF NextLine, LineEnds
<1>2. Headers(r, end) = {}
  <2> SUFFICES ASSUME NEW i \in Headers(r, end) PROVE FALSE
    OBVIOUS
  <2>1. i \in 2..end /\ i - 1 \in LineEnds(r)
    BY DEF Headers
  <2> QED
    BY <1>1, <2>1
<1>3. Declared(r, end) = 0 /\ ~KeepsTo(r, end)
  BY <1>2 DEF Declared, Lengths, KeepsTo
<1>4. ASSUME NEW i \in BlankLines(r) PROVE i > end
  <2>1. i \in LineEnds(r) /\ i - 2 \in LineEnds(r)
    BY DEF BlankLines
  <2> QED
    BY <1>1, <2>1
<1>5. Min(LineEnds(r)) = end
  <2>1. LineEnds(r) \in SUBSET Nat /\ LineEnds(r) # {}
    BY <1>1
  <2> DEFINE m == Min(LineEnds(r))
  <2>2. m \in LineEnds(r) /\ m <= end
    BY <1>1, <2>1, LeastIs
  <2> HIDE DEF m
  <2>3. m = end
    BY <1>1, <2>2
  <2> QED
    BY <2>3 DEF m
<1> QED
  BY <1>3, <1>4, <1>5

(* A blank line ends the head, unless one did before, *)
LEMMA BlankLineEndsHead ==
    ASSUME NEW r, NEW start, NEW end, start \in LineEnds(r), NextLine(r, start, end),
           \A i \in BlankLines(r) : i > start, end = start + 2
    PROVE  BlankLines(r) # {} /\ HeadEnd(r) = end
<1>1. start \in Nat /\ end \in Nat /\ end - 2 = start
  BY DEF NextLine
<1>2. end \in BlankLines(r)
  BY <1>1 DEF NextLine, BlankLines
<1>3. \A i \in BlankLines(r) : i \in Nat /\ i >= end
  BY <1>1 DEF NextLine, BlankLines, LineEnds
<1>4. Min(BlankLines(r)) \in BlankLines(r) /\ Min(BlankLines(r)) <= end
  <2>1. BlankLines(r) \in SUBSET Nat
    BY <1>3
  <2> QED
    BY <1>2, <2>1, LeastIs
<1>5. Min(BlankLines(r)) = end
  BY <1>1, <1>3, <1>4
<1> QED
  BY <1>2, <1>5 DEF HeadEnd

(* and no other line does. *)
LEMMA HeaderIsNotBlank ==
    ASSUME NEW r, NEW start, NEW end, start \in LineEnds(r), NextLine(r, start, end),
           \A i \in BlankLines(r) : i > start, end # start + 2
    PROVE  \A i \in BlankLines(r) : i > end
<1> SUFFICES ASSUME NEW i \in BlankLines(r) PROVE i > end
  OBVIOUS
<1>1. /\ start \in Nat /\ end \in Nat /\ end > start + 2
      /\ \A j \in LineEnds(r) : j \in Nat /\ (j <= start \/ j >= end)
  BY DEF NextLine, LineEnds
<1>2. i \in LineEnds(r) /\ i - 2 \in LineEnds(r) /\ i > start
  BY DEF BlankLines
<1> QED
  BY <1>1, <1>2

-----------------------------------------------------------------------------
(* Where the parser is in the request.                                      *)

(* The buffer holds the first bytes of the request. *)
LEMMA BufferIsPrefix ==
    ASSUME TypeOK, InTransit, pc # "closed", request # None
    PROVE  /\ request \in Seq(Tokens)
           /\ m_read_index \in Nat /\ Len(unread) \in Nat /\ Len(to_send) \in Nat
           /\ Len(request) = m_read_index + Len(unread) + Len(to_send)
           /\ \A i \in 1..m_read_index : request[i] = m_read_buf[i]
<1> DEFINE part == m_read_buf \o unread
<1>1. /\ m_read_buf \in Seq(Tokens) /\ unread \in Seq(Tokens) /\ to_send \in Seq(Tokens)
      /\ part \o to_send = request
  BY DEF TypeOK, InTransit
<1>2. /\ Len(m_read_buf) \in Nat /\ Len(unread) \in Nat /\ Len(to_send) \in Nat
  BY <1>1, LenProperties
<1>3. /\ part \in Seq(Tokens) /\ Len(part) = Len(m_read_buf) + Len(unread)
      /\ \A i \in 1..Len(m_read_buf) : part[i] = m_read_buf[i]
  BY <1>1, <1>2, ConcatProperties
<1> HIDE DEF part
<1>4. Len(part) \in Nat /\ \A i \in 1..Len(m_read_buf) : i \in 1..Len(part)
  BY <1>2, <1>3
<1>5. /\ part \o to_send \in Seq(Tokens) /\ Len(part \o to_send) = Len(part) + Len(to_send)
      /\ \A i \in 1..Len(part) + Len(to_send) :
            (part \o to_send)[i] = IF i <= Len(part) THEN part[i] ELSE to_send[i - Len(part)]
  <2>1. to_send \in Seq(Tokens)
    BY <1>1
  <2> QED
    BY <1>3, <2>1, ConcatProperties
<1>6. \A i \in 1..Len(part) : (part \o to_send)[i] = part[i]
  BY <1>2, <1>4, <1>5
<1> QED
  BY <1>1, <1>2, <1>3, <1>4, <1>5, <1>6 DEF m_read_index

(* A text cut out of the buffer is cut out of the request. *)
LEMMA TextOfRequest ==
    ASSUME TypeOK, InTransit, pc # "closed", request # None,
           NEW i \in Nat \ {0}, NEW j \in 0..m_read_index
    PROVE  /\ SubSeq(m_read_buf, i, j) = SubSeq(request, i, j)
           /\ SubSeq(request, i, j) \in Seq(Tokens)
<1>1. /\ request \in Seq(Tokens) /\ m_read_index \in Nat /\ m_read_buf \in Seq(Tokens)
      /\ Len(request) >= m_read_index
      /\ \A k \in 1..m_read_index : request[k] = m_read_buf[k]
  BY BufferIsPrefix DEF TypeOK
<1>2. \A k \in i .. j : request[k] \in Tokens /\ m_read_buf[k] = request[k]
  <2> TAKE k \in i .. j
  <2>1. k \in 1..Len(request) /\ k \in 1..m_read_index
    BY <1>1
  <2> QED
    BY <1>1, <2>1, ElementOfSeq
<1> DEFINE a == SubSeq(m_read_buf, i, j)
           b == SubSeq(request, i, j)
<1>3. i \in Int /\ j \in Int
  BY <1>1
<1>4. /\ a \in Seq(Tokens) /\ Len(a) = IF i <= j THEN j - i + 1 ELSE 0
      /\ \A k \in 1 .. j - i + 1 : a[k] = m_read_buf[i + k - 1]
  BY <1>2, <1>3, SubSeqProperties
<1>5. /\ b \in Seq(Tokens) /\ Len(b) = IF i <= j THEN j - i + 1 ELSE 0
      /\ \A k \in 1 .. j - i + 1 : b[k] = request[i + k - 1]
  BY <1>2, <1>3, SubSeqProperties
<1> HIDE DEF a, b
<1>6. ASSUME NEW k \in 1..Len(a) PROVE a[k] = b[k]
  <2>1. k \in 1 .. j - i + 1 /\ i + k - 1 \in i .. j
    BY <1>3, <1>4
  <2> QED
    BY <1>2, <1>4, <1>5, <2>1
<1>7. a = b
  BY <1>4, <1>5, <1>6, SeqEqual
<1> QED
  BY <1>5, <1>7 DEF a, b

(* parseLineData() finds the end of the next line of the request. *)
LEMMA LineTaken ==
    ASSUME TypeOK, InTransit, pc # "closed", request # None, LineClean,
           m_start_line = 0 \/ m_start_line \in LineEnds(request), NEW end \in LineOKAt
    PROVE  /\ NextLine(request, m_start_line, end)
           /\ end \in m_checked_index + 1 .. m_read_index
           /\ Line(end) = << >> <=> end = m_start_line + 2
           /\ Line(end) # << >> => Line(end)[1] = request[m_start_line + 1]
<1> DEFINE b == FirstBreak
<1>1. /\ m_start_line \in Nat /\ m_checked_index \in Nat /\ m_read_index \in Nat
      /\ m_start_line <= m_checked_index /\ m_checked_index <= m_read_index
      /\ Len(request) \in Nat /\ m_read_index <= Len(request)
      /\ \A i \in 1..m_read_index : request[i] = m_read_buf[i]
  BY BufferIsPrefix DEF TypeOK
<1>2. Breaks # {}
  BY DEF LineOKAt
<1>3. /\ b \in m_checked_index + 1 .. m_read_index
      /\ m_read_buf[b] \in {CR, LF}
      /\ \A i \in m_checked_index + 1 .. b - 1 : m_read_buf[i] \notin {CR, LF}
  BY <1>2, FirstBreakIsBreak
<1>4. \A i \in m_start_line + 1 .. b - 1 : m_read_buf[i] \notin {CR, LF}
  <2> TAKE i \in m_start_line + 1 .. b - 1
  <2>1. i \in m_start_line + 1 .. m_checked_index \/ i \in m_checked_index + 1 .. b - 1
    BY <1>1, <1>3
  <2> QED
    BY <1>3, <2>1 DEF LineClean
<1>5. CR # LF
  BY DEF CR, LF
<1>6. m_read_buf[b] = CR /\ b < m_read_index /\ m_read_buf[b + 1] = LF /\ end = b + 1
  <2>1. CASE m_read_buf[b] = CR
    BY <1>2, <2>1 DEF LineOKAt
  <2>2. CASE m_read_buf[b] # CR
    <3>1. b > 2 /\ m_read_buf[b - 1] = CR
      BY <1>2, <2>2 DEF LineOKAt
    <3>2. ~(b - 1 \in m_start_line + 1 .. b - 1)
      BY <1>4, <3>1
    <3>3. b - 1 = m_start_line /\ m_start_line # 0 /\ b - 1 \in 1..m_read_index
      BY <1>1, <1>3, <3>1, <3>2
    <3>4. request[b - 1] = LF
      BY <3>3 DEF LineEnds
    <3> QED
      BY <1>1, <1>5, <3>1, <3>3, <3>4
  <2> QED
    BY <2>1, <2>2
<1> HIDE DEF b
<1>7. /\ end - 1 = b /\ end \in 2..Len(request) /\ end >= m_start_line + 2
      /\ end \in m_checked_index + 1 .. m_read_index
      /\ request[end - 1] = CR /\ request[end] = LF
  BY <1>1, <1>3, <1>6
<1>8. ASSUME NEW i \in LineEnds(request), ~(i <= m_start_line), ~(i >= end) PROVE FALSE
  <2>1. i \in Nat /\ request[i] = LF
    BY DEF LineEnds
  <2>2. i \in m_start_line + 1 .. b - 1 \/ i = b
    BY <1>1, <1>7, <1>8, <2>1
  <2>3. i \in 1..m_read_index
    BY <1>1, <1>3, <2>2
  <2> QED
    BY <1>1, <1>4, <1>5, <1>6, <2>1, <2>2, <2>3
<1>9. NextLine(request, m_start_line, end)
  <2>1. \A i \in LineEnds(request) : i <= m_start_line \/ i >= end
    BY <1>8
  <2>2. end \in LineEnds(request)
    BY <1>7 DEF LineEnds
  <2> QED
    BY <1>1, <1>7, <2>1, <2>2 DEF NextLine
<1>10. /\ Len(Line(end)) = IF m_start_line + 1 <= end - 2 THEN end - 2 - (m_start_line + 1) + 1 ELSE 0
       /\ \A i \in 1 .. end - 2 - (m_start_line + 1) + 1 :
             Line(end)[i] = m_read_buf[m_start_line + 1 + i - 1]
       /\ Line(end) \in Seq(Tokens)
  <2>1. ASSUME NEW i \in m_start_line + 1 .. end - 2 PROVE m_read_buf[i] \in Tokens
    <3>1. m_read_buf \in Seq(Tokens)
      BY DEF TypeOK
    <3>2. i \in 1..Len(m_read_buf)
      BY <1>1, <1>7 DEF m_read_index
    <3> QED
      BY <3>1, <3>2, ElementOfSeq
  <2>2. m_start_line + 1 \in Int /\ end - 2 \in Int
    BY <1>1, <1>7
  <2> QED
    BY <2>1, <2>2, SubSeqProperties DEF Line
<1>11. Line(end) = << >> <=> Len(Line(end)) = 0
  BY <1>10, EmptySeq
<1>12. ASSUME end # m_start_line + 2 PROVE Line(end)[1] = request[m_start_line + 1]
  <2>1. 1 \in 1 .. end - 2 - (m_start_line + 1) + 1 /\ m_start_line + 1 + 1 - 1 = m_start_line + 1
    BY <1>1, <1>7, <1>12
  <2>2. m_start_line + 1 \in 1..m_read_index
    BY <1>1, <1>7, <1>12
  <2> QED
    BY <1>1, <1>10, <2>1, <2>2
<1> QED
  BY <1>1, <1>7, <1>9, <1>10, <1>11, <1>12

-----------------------------------------------------------------------------
(* The parser and the answer stay with the request.                         *)

Tracks == InTransit /\ ParserAt /\ AsAsked

LEMMA InitTracks == Init => Tracks
<1> SUFFICES ASSUME Init PROVE Tracks
  OBVIOUS
<1>1. InTransit
  BY DEF Init, InTransit
<1>2. LineClean
  <2>1. ~\E i \in 0 + 1 .. 0 : TRUE
    OBVIOUS
  <2> QED
    BY <2>1 DEF Init, LineClean
<1>3. AtRequestLine
  BY <1>2, Zenon DEF Init, AtRequestLine
<1>4. ParserAt
  BY <1>3 DEF Init, ParserAt
<1>5. AsAsked
  BY DEF Init, AsAsked
<1> QED
  BY <1>1, <1>4, <1>5 DEF Tracks

(* Nothing is promised of a connection that is closed. *)
LEMMA ClosedTracks ==
    ASSUME pc' = "closed"
    PROVE  Tracks'
<1>1. InTransit' /\ ParserAt' /\ AsAsked'
  BY DEF InTransit, ParserAt, AsAsked
<1> QED
  BY <1>1 DEF Tracks

(* What a step does not touch, *)
LEMMA StillAt ==
    ASSUME request # None, request' = request, UNCHANGED parseVars
    PROVE  /\ AtRequestLine' = AtRequestLine
           /\ AtHeaders' = AtHeaders
           /\ AtContent' = AtContent
<1>1. LineClean' = LineClean
  BY DEF LineClean, parseVars
<1>2. AtRequestLine' = AtRequestLine
  BY <1>1 DEF AtRequestLine, parseVars
<1>4. FieldsUpTo(m_start_line)' = FieldsUpTo(m_start_line)
  BY DEF FieldsUpTo, parseVars
<1>5. AtHeaders' = AtHeaders
  BY <1>1, <1>4 DEF AtHeaders, parseVars
<1>6. FieldsUpTo(HeadEnd(request))' = FieldsUpTo(HeadEnd(request))
  BY DEF FieldsUpTo, parseVars
<1>7. AtContent' = AtContent
  BY <1>6 DEF AtContent, parseVars
<1> QED
  BY <1>2, <1>5, <1>7

(* and where it leaves the connection. *)
LEMMA StillTracks ==
    ASSUME Inductive, UNCHANGED <<request, to_send, unread, parseVars, m_write_buf>>,
           \/ pc' = pc
           \/ pc \in {"out", "more", "blocked"} /\ pc' \in {"out", "more", "blocked"}
    PROVE  Tracks'
<1>h. InTransit /\ ParserAt /\ AsAsked
  BY DEF Inductive
<1>1. InTransit'
  BY <1>h DEF InTransit, parseVars
<1>2. /\ AtRequestLine' = AtRequestLine
      /\ request # None => AtHeaders' = AtHeaders /\ AtContent' = AtContent
  BY StillAt DEF LineClean, AtRequestLine, parseVars
<1>3. ParserAt'
  BY <1>h, <1>2 DEF ParserAt, AtHeaders, AtContent, FieldsUpTo
<1>4. /\ IsKv' = IsKv /\ IsStats' = IsStats /\ json_body' = json_body
  BY DEF IsKv, IsStats, json_body, parseVars, m_read_index
<1>5. AsAsked'
  BY <1>h, <1>4 DEF AsAsked, parseVars, m_read_index
<1> QED
  BY <1>1, <1>3, <1>5 DEF Tracks

(* The client asks, its request arrives in pieces, and read() takes what    *)
(* has arrived.                                                             *)
LEMMA AskTracks ==
    ASSUME Inductive, NEW r \in Requests, Ask(r)
    PROVE  Tracks'
<1>h. InTransit /\ ParserAt /\ AsAsked /\ TypeOK
  BY DEF Inductive, Buffers
<1>1. /\ request = None /\ pc = "in" /\ m_read_buf = << >> /\ unread = << >> /\ to_send = << >>
      /\ r \in Seq(Tokens) /\ r # None
  BY <1>h, RequestsAssumption DEF Ask, InTransit
<1>2. /\ request' = r /\ pc' = "in" /\ m_read_buf' = << >> /\ unread' = << >>
      /\ to_send' = << >> \o r /\ UNCHANGED <<parseVars, m_write_buf>>
  BY <1>1 DEF Ask, parseVars, writeVars
<1>3. << >> \o r = r /\ << >> \o << >> = << >>
  BY <1>1, ConcatEmptySeq, EmptySeq
<1>4. InTransit'
  BY <1>1, <1>2, <1>3 DEF InTransit
<1>5. AtRequestLine'
  BY <1>h, <1>1, <1>2 DEF ParserAt, AtRequestLine, LineClean, parseVars
<1>6. ParserAt'
  BY <1>2, <1>5 DEF ParserAt
<1>7. AsAsked'
  BY <1>h, <1>1, <1>2 DEF AsAsked, parseVars
<1> QED
  BY <1>4, <1>6, <1>7 DEF Tracks

(* Texts put one after the other, as an operation of its own. *)
Text == Seq(Tokens)
Then(p, q) == p \o q

LEMMA ThenType ==
    ASSUME NEW p \in Text, NEW q \in Text
    PROVE  Then(p, q) \in Text
BY ConcatProperties DEF Text, Then

LEMMA ThenAssociative ==
    ASSUME NEW p \in Text, NEW q \in Text, NEW a \in Text
    PROVE  Then(Then(p, q), a) = Then(p, Then(q, a))
BY ConcatAssociative, SMT DEF Text, Then

LEMMA FourParts ==
    ASSUME NEW p \in Text, NEW q \in Text, NEW a \in Text, NEW b \in Text
    PROVE  Then(Then(p, Then(q, a)), b) = Then(Then(p, q), Then(a, b))
<1>1. Then(p, q) \in Text
  BY ThenType
<1>2. Then(Then(p, q), a) = Then(p, Then(q, a))
  BY ThenAssociative
<1>3. Then(Then(Then(p, q), a), b) = Then(Then(p, q), Then(a, b))
  BY <1>1, ThenAssociative
<1> QED
  BY <1>2, <1>3, Zenon

LEMMA ArriveTracks ==
    ASSUME Inductive, NEW n \in 1..READ_BUFFER_SIZE, Arrive(n)
    PROVE  Tracks'
<1>h. InTransit /\ ParserAt /\ AsAsked /\ TypeOK
  BY DEF Inductive, Buffers
<1>1. /\ m_read_buf \in Seq(Tokens) /\ unread \in Seq(Tokens) /\ to_send \in Seq(Tokens)
      /\ pc # "closed" /\ n \in 1..Len(to_send)
  BY <1>h DEF Arrive, TypeOK
<1>2. to_send # << >>
  BY <1>1, EmptySeq
<1>3. request # None /\ (m_read_buf \o unread) \o to_send = request
  BY <1>h, <1>1, <1>2 DEF InTransit
<1> DEFINE a == SubSeq(to_send, 1, n)
           b == SubSeq(to_send, n + 1, Len(to_send))
<1>4. a \in Seq(Tokens) /\ b \in Seq(Tokens) /\ a \o b = to_send
  <2>1. Len(to_send) \in Nat /\ n \in Nat /\ n <= Len(to_send) /\ n >= 1
    BY <1>1, LenProperties
  <2>2. \A i \in 1..n : to_send[i] \in Tokens
    BY <1>1, <2>1, ElementOfSeq
  <2>3. \A i \in n + 1 .. Len(to_send) : to_send[i] \in Tokens
    BY <1>1, <2>1, ElementOfSeq
  <2>4. a \o b = SubSeq(to_send, 1, Len(to_send))
    <3>1. 1 \in 1..Len(to_send) + 1 /\ n \in 1 - 1 .. Len(to_send) /\ Len(to_send) \in n..Len(to_send)
      BY <2>1
    <3> QED
      BY <1>1, <3>1, ConcatAdjacentSubSeq
  <2>5. SubSeq(to_send, 1, Len(to_send)) = to_send
    BY <1>1, SubSeqFull
  <2>6. a \in Seq(Tokens)
    BY <2>1, <2>2, SubSeqProperties
  <2>7. b \in Seq(Tokens)
    BY <2>1, <2>3, SubSeqProperties
  <2> QED
    BY <2>4, <2>5, <2>6, <2>7
<1> HIDE DEF a, b
<1>5. unread' = unread \o a /\ to_send' = b /\ UNCHANGED <<request, parseVars, m_write_buf, pc>>
  BY DEF Arrive, a, b, writeVars
<1>6. (m_read_buf \o (unread \o a)) \o b = request
  <2>1. /\ m_read_buf \in Seq(Tokens) /\ unread \in Seq(Tokens)
        /\ a \in Seq(Tokens) /\ b \in Seq(Tokens)
    BY <1>1, <1>4
  <2>2. Then(Then(m_read_buf, Then(unread, a)), b) = Then(Then(m_read_buf, unread), Then(a, b))
    <3>1. m_read_buf \in Text /\ unread \in Text /\ a \in Text /\ b \in Text
      BY <2>1 DEF Text
    <3> QED
      BY <3>1, FourParts
  <2>3. (m_read_buf \o (unread \o a)) \o b = (m_read_buf \o unread) \o (a \o b)
    BY <2>2, Zenon DEF Then
  <2> QED
    BY <1>3, <1>4, <2>3
<1>7. InTransit'
  BY <1>3, <1>5, <1>6 DEF InTransit, parseVars
<1>8. ParserAt'
  BY <1>h, <1>3, <1>5, StillAt DEF ParserAt
<1>9. AsAsked'
  <2>1. IsKv' = IsKv /\ IsStats' = IsStats /\ json_body' = json_body
    BY <1>5 DEF IsKv, IsStats, json_body, parseVars, m_read_index
  <2>2. pc \in {"serve", "out", "more", "blocked"} => ~m_keep_alive
    BY <1>h, <1>2 DEF AsAsked
  <2> QED
    BY <1>h, <1>5, <2>1, <2>2 DEF AsAsked, parseVars, m_read_index
<1> QED
  BY <1>7, <1>8, <1>9 DEF Tracks

LEMMA ReadTracks ==
    ASSUME Inductive, Read
    PROVE  Tracks'
<1>h. InTransit /\ ParserAt /\ AsAsked /\ TypeOK
  BY DEF Inductive, Buffers
<1>1. /\ m_read_buf \in Seq(Tokens) /\ unread \in Seq(Tokens) /\ to_send \in Seq(Tokens)
      /\ pc = "in" /\ unread # << >>
  BY <1>h DEF Read, TypeOK
<1>2. request # None /\ (m_read_buf \o unread) \o to_send = request
  BY <1>h, <1>1 DEF InTransit
<1>3. m_read_buf \o unread \in Seq(Tokens)
      /\ (m_read_buf \o unread) \o << >> = m_read_buf \o unread
  BY <1>1, ConcatProperties, ConcatEmptySeq
<1>4. /\ m_read_buf' = m_read_buf \o unread /\ unread' = << >> /\ pc' = "parse"
      /\ UNCHANGED <<request, to_send, m_checked_index, m_start_line, m_check_state, m_method,
                     m_url, m_content_length, m_keep_alive, nul, m_write_buf>>
  BY DEF Read, clientVars, writeVars
<1>5. InTransit'
  BY <1>2, <1>3, <1>4 DEF InTransit
<1>6. LineClean => LineClean'
  <2>1. \A i \in 1..Len(m_read_buf) : (m_read_buf \o unread)[i] = m_read_buf[i]
    <3>1. Len(m_read_buf) \in Nat /\ Len(unread) \in Nat
      BY <1>1, LenProperties
    <3>2. \A i \in 1..Len(m_read_buf) + Len(unread) :
             (m_read_buf \o unread)[i] = IF i <= Len(m_read_buf) THEN m_read_buf[i]
                                         ELSE unread[i - Len(m_read_buf)]
      BY <1>1, ConcatProperties
    <3> QED
      BY <3>1, <3>2
  <2>2. /\ m_start_line \in Nat /\ m_checked_index \in Nat /\ Len(m_read_buf) \in Nat
        /\ m_checked_index <= Len(m_read_buf)
    BY <1>h DEF TypeOK, m_read_index
  <2>3. \A i \in m_start_line + 1 .. m_checked_index : i \in 1..Len(m_read_buf)
    BY <2>2
  <2> QED
    BY <1>4, <2>1, <2>3 DEF LineClean
<1>7. AtRequestLine' \/ AtHeaders' \/ AtContent'
  <2>1. CASE AtRequestLine
    BY <1>4, <1>6, <2>1 DEF AtRequestLine
  <2>2. CASE AtHeaders
    BY <1>4, <1>6, <2>2 DEF AtHeaders, FieldsUpTo
  <2>3. CASE AtContent
    BY <1>4, <2>3 DEF AtContent, FieldsUpTo
  <2> QED
    BY <1>h, <1>1, <2>1, <2>2, <2>3 DEF ParserAt
<1>8. ParserAt'
  BY <1>2, <1>4, <1>7 DEF ParserAt
<1>9. AsAsked'
  BY <1>h, <1>1, <1>4 DEF AsAsked
<1> QED
  BY <1>5, <1>8, <1>9 DEF Tracks

(* A turn of processRead() leaves the request where it is. *)
LEMMA ParseInTransit ==
    ASSUME Inductive, pc \in {"parse", "scan"}, pc' \in {"in", "parse", "scan", "serve"},
           UNCHANGED <<request, to_send, unread, m_read_buf, m_write_buf>>,
           pc' # "serve" => UNCHANGED nul
    PROVE  /\ request # None /\ request' # None
           /\ InTransit'
           /\ m_write_buf' = None
           /\ pc' # "serve" => AsAsked'
<1>1. InTransit /\ AsAsked
  BY DEF Inductive
<1>2. request # None /\ InTransit'
  BY <1>1 DEF InTransit
<1> QED
  BY <1>1, <1>2 DEF AsAsked

(* parseLineData() steps over what does not end the line. *)
LEMMA ScanClean ==
    ASSUME TypeOK, LineClean, UNCHANGED <<m_start_line, m_read_buf>>,
           m_checked_index' \in LineOpenAt \/ (Breaks # {} /\ m_checked_index' = FirstBreak - 1)
    PROVE  LineClean'
<1>1. /\ m_start_line \in Nat /\ m_checked_index \in Nat /\ m_read_index \in Nat
      /\ m_checked_index <= m_read_index
  BY DEF TypeOK
<1>2. \A i \in m_checked_index + 1 .. m_checked_index' : m_read_buf[i] \notin {CR, LF}
  <2>1. CASE Breaks = {}
    <3>1. m_checked_index' = m_read_index
      BY <2>1 DEF LineOpenAt
    <3> QED
      BY <2>1, <3>1 DEF Breaks
  <2>2. CASE Breaks # {}
    <3>1. m_checked_index' = FirstBreak - 1
      BY <2>2 DEF LineOpenAt
    <3> QED
      BY <2>2, <3>1, FirstBreakIsBreak
  <2> QED
    BY <2>1, <2>2
<1>3. m_checked_index' \in Int
  BY <1>1, FirstBreakIsBreak DEF LineOpenAt
<1>4. ASSUME NEW i \in m_start_line + 1 .. m_checked_index' PROVE m_read_buf[i] \notin {CR, LF}
  <2>1. i \in m_start_line + 1 .. m_checked_index \/ i \in m_checked_index + 1 .. m_checked_index'
    BY <1>1, <1>3
  <2> QED
    BY <1>2, <2>1 DEF LineClean
<1> QED
  BY <1>4 DEF LineClean

(* NO_REQUEST: the line, or the body, goes on. *)
LEMMA LineOpenTracks ==
    ASSUME Inductive, LineOpen \/ LineBad
    PROVE  Tracks'
<1>h. ParserAt /\ TypeOK
  BY DEF Inductive, Buffers
<1>1. /\ ScansLine /\ pc \in {"parse", "scan"} /\ pc' = "in"
      /\ m_checked_index' \in LineOpenAt \/ (Breaks # {} /\ m_checked_index' = FirstBreak - 1)
      /\ UNCHANGED <<request, to_send, unread, m_read_buf, m_start_line, m_check_state, m_method,
                     m_url, m_content_length, m_keep_alive, nul, m_write_buf>>
  <2>1. LineOpenAt = {} => Breaks # {}
    BY DEF LineOpenAt
  <2> QED
    BY <2>1 DEF LineOpen, LineBad, ScansLine, clientVars, writeVars
<1>2. request # None /\ request' # None /\ InTransit' /\ AsAsked'
  BY <1>1, ParseInTransit
<1>4. AtRequestLine' \/ AtHeaders' \/ AtContent'
  <2>1. CASE AtRequestLine
    <3>1. LineClean'
      BY <1>h, <1>1, <2>1, ScanClean DEF AtRequestLine
    <3> QED
      BY <1>1, <2>1, <3>1 DEF AtRequestLine
  <2>2. CASE AtHeaders
    <3>1. LineClean'
      BY <1>h, <1>1, <2>2, ScanClean DEF AtHeaders
    <3> QED
      BY <1>1, <2>2, <3>1 DEF AtHeaders, FieldsUpTo
  <2>3. CASE AtContent
    BY <1>1, <2>3 DEF AtContent, FieldsUpTo
  <2> QED
    BY <1>h, <1>1, <2>1, <2>2, <2>3 DEF ParserAt
<1>5. ParserAt'
  BY <1>1, <1>2, <1>4 DEF ParserAt
<1> QED
  BY <1>2, <1>5 DEF Tracks

(* What the clients send. *)
LEMMA RequestShape ==
    ASSUME TypeOK, request # None
    PROVE  /\ request \in Seq(Tokens) /\ Len(request) \in Nat
           /\ request[1].is = "start" /\ request[1].method \in {"GET", "POST", "other"}
           /\ Framed(request) \/ Keeps(request)
                 => Len(request) = HeadEnd(request) + Declared(request, HeadEnd(request))
<1>1. request \in Requests /\ request \in Seq(Tokens)
  BY RequestsAssumption DEF TypeOK
<1>2. /\ request # << >> /\ request[1].is = "start"
      /\ Framed(request) \/ Keeps(request)
            => Len(request) = HeadEnd(request) + Declared(request, HeadEnd(request))
  BY <1>1, ClientAssumption
<1>3. Len(request) \in Nat \ {0}
  BY <1>1, <1>2, EmptySeq
<1>4. request[1] \in Tokens
  BY <1>1, <1>3, ElementOfSeq
<1>5. request[1] \in [is : {"start"}, method : {"GET", "POST", "other"},
                      url : {"/api/kv", "/api/stats", "/"}, version : {"HTTP/1.0", "HTTP/1.1"}]
  BY <1>2, <1>4 DEF Tokens, CR, LF, Fields, Rest, KeepAlive, Header
<1> QED
  BY <1>1, <1>2, <1>3, <1>5

LEMMA BodyIs ==
    ASSUME NEW r, AsksKv(r), NEW start, start = IF Good(r) THEN HeadEnd(r) ELSE Min(LineEnds(r)),
           NEW i, i \in IF Framed(r) THEN {Len(r)} ELSE start..Len(r),
           NEW from, from = start + 1
    PROVE  SubSeq(r, from, i) \in Bodies(r)
BY DEF Bodies

(* The first line, good or bad. *)
LEMMA RequestLineTracks ==
    ASSUME Inductive, NEW end, RequestLine(end)
    PROVE  Tracks'
<1>h. InTransit /\ ParserAt /\ TypeOK /\ (pc = "parse" => nul = 0)
  BY DEF Inductive, Buffers, AsAsked
<1>1. /\ end \in LineOKAt /\ m_checked_index' = end /\ m_start_line' = end
      /\ pc = "parse" /\ m_check_state = "requestline"
      /\ UNCHANGED <<request, to_send, unread, m_read_buf, m_content_length, m_keep_alive, nul,
                     m_write_buf>>
  BY DEF RequestLine, TakesLine, clientVars, writeVars
<1>2. AtRequestLine
  BY <1>h, <1>1 DEF ParserAt, AtHeaders, AtContent
<1>3. pc' \in {"parse", "serve"}
  BY DEF RequestLine
<1>4. request # None /\ request' # None /\ InTransit' /\ m_write_buf' = None
      /\ (pc' # "serve" => AsAsked')
  BY <1>1, <1>3, ParseInTransit
<1>5. /\ request \in Seq(Tokens) /\ request[1].is = "start"
      /\ request[1].method \in {"GET", "POST", "other"}
  BY <1>h, <1>4, RequestShape
<1>6. /\ NextLine(request, 0, end) /\ end \in Nat /\ end \in m_checked_index + 1 .. m_read_index
      /\ Line(end) = << >> <=> end = 2
      /\ Line(end) # << >> => Line(end)[1] = request[1]
  BY <1>h, <1>1, <1>2, <1>4, LineTaken DEF AtRequestLine, NextLine
<1>7. Line(end) # << >> /\ Line(end)[1] = request[1]
  <2>1. CASE end = 2
    BY <1>5, <1>6, <2>1 DEF NextLine, CR
  <2> QED
    BY <1>6, <2>1
<1> DEFINE known == request[1].method \in {"GET", "POST"}
<1>8. /\ m_method' = IF known THEN request[1].method ELSE m_method
      /\ m_url' = IF known THEN request[1].url ELSE None
      /\ m_check_state' = IF Good(request) THEN "header" ELSE m_check_state
      /\ pc' = IF Good(request) THEN "parse" ELSE "serve"
  BY <1>5, <1>7 DEF RequestLine, Good
<1>9. /\ Declared(request, end) = 0 /\ ~KeepsTo(request, end)
      /\ \A i \in BlankLines(request) : i > end
      /\ Min(LineEnds(request)) = end
  BY <1>6, FirstLine
<1>10. CASE Good(request)
  <2>1. AtHeaders'
    <3>1. LineClean'
      BY <1>1, <1>6 DEF LineClean
    <3>2. FieldsUpTo(m_start_line)'
      <4>1. m_keep_alive' = KeepsTo(request, end)
        <5>1. m_keep_alive' = FALSE
          BY <1>h, <1>1, <1>2 DEF AtRequestLine, TypeOK
        <5>2. KeepsTo(request, end) = FALSE
          BY <1>9 DEF KeepsTo
        <5> QED
          BY <5>1, <5>2
      <4>2. m_content_length' = Declared(request, end)
        BY <1>1, <1>2, <1>9 DEF AtRequestLine
      <4> QED
        BY <1>1, <1>4, <1>8, <1>10, <4>1, <4>2 DEF FieldsUpTo, Good
    <3>3. end \in LineEnds(request)
      BY <1>6 DEF NextLine
    <3> QED
      BY <1>1, <1>8, <1>9, <1>10, <3>1, <3>2, <3>3 DEF AtHeaders
  <2>2. pc' = "parse"
    BY <1>8, <1>10
  <2>3. ParserAt'
    BY <1>4, <2>1, <2>2 DEF ParserAt
  <2> QED
    BY <1>4, <2>2, <2>3 DEF Tracks
<1>11. CASE ~Good(request)
  <2>1. pc' = "serve"
    BY <1>8, <1>11
  <2>2. ParserAt'
    BY <1>4, <2>1 DEF ParserAt
  <2>3. IsKv' <=> AsksKv(request)
    BY <1>2, <1>8 DEF IsKv, AsksKv, AtRequestLine
  <2>4. IsStats' <=> AsksStats(request)
    BY <1>2, <1>5, <1>8, NoneAssumption DEF IsStats, AsksStats, AtRequestLine
  <2>5. m_keep_alive' = FALSE /\ ~Keeps(request) /\ ~Framed(request)
    BY <1>h, <1>1, <1>2, <1>11 DEF AtRequestLine, Keeps, Framed, TypeOK
  <2>6. ASSUME IsKv' PROVE json_body' \in Bodies(request)
    <3>1. PICK from \in Nat \ {0} : from = end + 1
      BY <1>6
    <3>2. json_body' = SubSeq(m_read_buf, from, m_read_index)
      BY <1>h, <1>1, <3>1 DEF json_body, m_read_index
    <3>3. m_read_index \in 0..m_read_index /\ m_read_index \in end..Len(request)
      BY <1>h, <1>1, <1>4, <1>6, BufferIsPrefix
    <3>4. json_body' = SubSeq(request, from, m_read_index)
      BY <1>h, <1>1, <1>4, <3>2, <3>3, TextOfRequest
    <3> QED
      <4>1. AsksKv(request)
        BY <2>3, <2>6
      <4>2. end = IF Good(request) THEN HeadEnd(request) ELSE Min(LineEnds(request))
        BY <1>9, <1>11
      <4>3. m_read_index \in IF Framed(request) THEN {Len(request)} ELSE end..Len(request)
        BY <2>5, <3>3
      <4>4. SubSeq(request, from, m_read_index) \in Bodies(request)
        BY <3>1, <4>1, <4>2, <4>3, BodyIs
      <4> QED
        BY <3>4, <4>4
  <2>7. AsAsked'
    <3>1. m_keep_alive' = Keeps(request)
      <4>1. Keeps(request) = FALSE
        BY <2>5 DEF Keeps
      <4>2. m_keep_alive' = FALSE
        BY <1>h, <2>5 DEF TypeOK
      <4> QED
        BY <4>1, <4>2
    <3>2. ~m_keep_alive'
      BY <2>5
    <3>3. m_checked_index' + m_content_length' <= m_read_index'
      BY <1>h, <1>1, <1>2, <1>6 DEF AtRequestLine, TypeOK, m_read_index
    <3>4. nul' = 0 /\ m_content_length' = 0
      BY <1>h, <1>1, <1>2 DEF AtRequestLine
    <3> QED
      BY <1>1, <1>4, <2>1, <2>3, <2>4, <2>6, <3>1, <3>2, <3>3, <3>4, Zenon DEF AsAsked
  <2> QED
    BY <1>4, <2>2, <2>7 DEF Tracks
<1> QED
  BY <1>10, <1>11

(* A header goes into the fields. *)
LEMMA HeaderLineTracks ==
    ASSUME Inductive, NEW end, HeaderLine(end)
    PROVE  Tracks'
<1>h. InTransit /\ ParserAt /\ TypeOK
  BY DEF Inductive, Buffers
<1>1. /\ end \in LineOKAt /\ m_checked_index' = end /\ m_start_line' = end
      /\ pc = "parse" /\ pc' = "parse" /\ m_check_state = "header" /\ m_check_state' = "header"
      /\ Line(end) # << >>
      /\ m_keep_alive' = (m_keep_alive \/ Line(end)[1] = KeepAlive)
      /\ m_content_length' = IF Line(end)[1].is = "length" THEN Line(end)[1].n ELSE m_content_length
      /\ UNCHANGED <<request, to_send, unread, m_read_buf, m_method, m_url, nul, m_write_buf>>
  BY DEF HeaderLine, TakesLine, clientVars, writeVars
<1>2. AtHeaders
  BY <1>h, <1>1 DEF ParserAt, AtRequestLine, AtContent
<1>3. request # None /\ request' # None /\ InTransit' /\ AsAsked'
  BY <1>1, ParseInTransit
<1> DEFINE start == m_start_line
<1>4. /\ start \in LineEnds(request) /\ (\A i \in BlankLines(request) : i > start)
      /\ FieldsUpTo(start)
  BY <1>2 DEF AtHeaders
<1>5. /\ NextLine(request, start, end) /\ end \in Nat
      /\ Line(end)[1] = request[start + 1] /\ end # start + 2
  BY <1>h, <1>1, <1>2, <1>3, <1>4, LineTaken DEF AtHeaders, NextLine
<1> HIDE DEF start
<1>6. m_content_length' = Declared(request, end)
  BY <1>1, <1>4, <1>5, DeclaredGrows DEF FieldsUpTo
<1>7. m_keep_alive' = KeepsTo(request, end)
  <2>1. KeepsTo(request, end) = (KeepsTo(request, start) \/ request[start + 1] = KeepAlive)
    BY <1>4, <1>5, KeepsGrows
  <2>2. m_keep_alive' = (m_keep_alive \/ request[start + 1] = KeepAlive)
    BY <1>1, <1>5
  <2>3. m_keep_alive = KeepsTo(request, start)
    BY <1>4 DEF FieldsUpTo
  <2> QED
    BY <2>1, <2>2, <2>3, Zenon
<1>8. FieldsUpTo(end)'
  BY <1>1, <1>3, <1>4, <1>6, <1>7 DEF FieldsUpTo
<1>9. FieldsUpTo(m_start_line)'
  BY <1>1, <1>8 DEF FieldsUpTo
<1>10. \A i \in BlankLines(request) : i > end
  BY <1>4, <1>5, HeaderIsNotBlank
<1>11. LineClean'
  BY <1>1, <1>5 DEF LineClean
<1>12. end \in LineEnds(request)
  BY <1>5 DEF NextLine
<1>13. AtHeaders'
  BY <1>1, <1>9, <1>10, <1>11, <1>12 DEF AtHeaders
<1>14. ParserAt'
  BY <1>1, <1>3, <1>13 DEF ParserAt
<1> QED
  BY <1>3, <1>14 DEF Tracks

(* A good request is answered as it asks. *)
LEMMA ServeAsAsked ==
    ASSUME request # None, pc' = "serve", UNCHANGED <<request, to_send, unread>>,
           m_write_buf' = None, Good(request),
           m_method' = request[1].method, m_url' = request[1].url,
           m_keep_alive' = Keeps(request),
           Keeps(request) => unread = << >> /\ to_send = << >>,
           AsksKv(request) => json_body' \in Bodies(request),
           m_checked_index' + m_content_length' <= m_read_index',
           nul' = IF m_content_length' = 0 THEN 0 ELSE m_checked_index' + m_content_length'
    PROVE  Tracks' <=> InTransit'
<1>1. (IsKv' <=> AsksKv(request)) /\ (IsStats' <=> AsksStats(request))
  BY DEF IsKv, AsksKv, IsStats, AsksStats
<1>2. AsAsked'
  BY <1>1, Zenon DEF AsAsked
<1>3. ParserAt'
  BY DEF ParserAt
<1> QED
  BY <1>2, <1>3 DEF Tracks

(* The blank line: with it the head is known. *)
LEMMA BlankLineTracks ==
    ASSUME Inductive, NEW end, BlankLine(end)
    PROVE  Tracks'
<1>h. InTransit /\ ParserAt /\ TypeOK /\ (pc = "parse" => nul = 0)
  BY DEF Inductive, Buffers, AsAsked
<1>1. /\ end \in LineOKAt /\ m_checked_index' = end /\ m_start_line' = end
      /\ pc = "parse" /\ m_check_state = "header"
      /\ Line(end) = << >>
      /\ IF m_content_length # 0 THEN m_check_state' = "content" /\ pc' = "parse"
         ELSE pc' = "serve"
      /\ UNCHANGED <<request, to_send, unread, m_read_buf, m_method, m_url, m_content_length,
                     m_keep_alive, nul, m_write_buf>>
  BY DEF BlankLine, TakesLine, clientVars, writeVars
<1>2. AtHeaders
  BY <1>h, <1>1 DEF ParserAt, AtRequestLine, AtContent
<1>3. request # None /\ request' # None /\ InTransit' /\ (pc' # "serve" => AsAsked')
      /\ m_write_buf' = None
  BY <1>1, ParseInTransit
<1> DEFINE start == m_start_line
<1>4. /\ start \in LineEnds(request) /\ (\A i \in BlankLines(request) : i > start)
      /\ FieldsUpTo(start)
  BY <1>2 DEF AtHeaders
<1>5. /\ NextLine(request, start, end) /\ end \in Nat /\ start \in Nat
      /\ end = start + 2 /\ end \in m_checked_index + 1 .. m_read_index
  BY <1>h, <1>1, <1>2, <1>3, <1>4, LineTaken DEF AtHeaders, NextLine
<1> HIDE DEF start
<1>6. BlankLines(request) # {} /\ HeadEnd(request) = end
  BY <1>4, <1>5, BlankLineEndsHead
<1>7. request[start + 1] = CR
  BY <1>5 DEF NextLine
<1>8. Declared(request, end) = Declared(request, start)
  BY <1>4, <1>5, <1>7, DeclaredGrows DEF CR
<1>9. KeepsTo(request, end) = KeepsTo(request, start)
  <2>1. request[start + 1] # KeepAlive
    BY <1>7 DEF CR, KeepAlive
  <2>2. KeepsTo(request, end) = (KeepsTo(request, start) \/ request[start + 1] = KeepAlive)
    BY <1>4, <1>5, KeepsGrows
  <2>3. KeepsTo(request, start) \in BOOLEAN
    BY DEF KeepsTo
  <2> QED
    BY <2>1, <2>2, <2>3
<1>10. FieldsUpTo(end)
  BY <1>4, <1>8, <1>9 DEF FieldsUpTo
<1>11. CASE m_content_length # 0
  <2>1. FieldsUpTo(HeadEnd(request))'
    BY <1>1, <1>3, <1>6, <1>10 DEF FieldsUpTo
  <2>2. AtContent'
    BY <1>1, <1>5, <1>6, <1>11, <2>1 DEF AtContent
  <2>3. ParserAt'
    BY <1>1, <1>3, <1>11, <2>2 DEF ParserAt
  <2> QED
    BY <1>1, <1>3, <1>11, <2>3 DEF Tracks
<1>12. CASE m_content_length = 0
  <2>1. /\ Good(request) /\ m_method' = request[1].method /\ m_url' = request[1].url
        /\ Declared(request, HeadEnd(request)) = 0
        /\ m_keep_alive' = KeepsTo(request, end)
    BY <1>1, <1>6, <1>10, <1>12 DEF FieldsUpTo
  <2>2. m_keep_alive' = Keeps(request)
    <3>1. Keeps(request) = KeepsTo(request, end)
      BY <1>6, <2>1 DEF Keeps, KeepsTo
    <3> QED
      BY <2>1, <3>1
  <2>3. /\ Len(request) = m_read_index + Len(unread) + Len(to_send)
        /\ m_read_index \in Nat /\ Len(unread) \in Nat /\ Len(to_send) \in Nat
    BY <1>h, <1>1, <1>3, BufferIsPrefix
  <2>4. ASSUME Keeps(request) PROVE unread = << >> /\ to_send = << >>
    <3>1. Len(request) = end + 0
      BY <1>h, <1>3, <1>6, <2>1, <2>4, RequestShape
    <3>2. Len(unread) = 0 /\ Len(to_send) = 0
      BY <1>5, <2>3, <3>1
    <3> QED
      BY <1>h, <3>2, EmptySeq DEF TypeOK
  <2>5. ASSUME AsksKv(request) PROVE json_body' \in Bodies(request)
    <3>1. PICK from \in Nat \ {0} : from = end + 1
      BY <1>5
    <3>2. json_body' = SubSeq(m_read_buf, from, m_read_index)
      BY <1>h, <1>1, <3>1 DEF json_body, m_read_index
    <3>3. m_read_index \in 0..m_read_index /\ m_read_index \in end..Len(request)
      BY <1>5, <2>3
    <3>4. json_body' = SubSeq(request, from, m_read_index)
      BY <1>h, <1>1, <1>3, <3>2, <3>3, TextOfRequest
    <3>5. end = IF Good(request) THEN HeadEnd(request) ELSE Min(LineEnds(request))
      BY <1>6, <2>1
    <3>6. m_read_index \in IF Framed(request) THEN {Len(request)} ELSE end..Len(request)
      BY <2>1, <3>3 DEF Framed
    <3>7. SubSeq(request, from, m_read_index) \in Bodies(request)
      BY <2>5, <3>1, <3>5, <3>6, BodyIs
    <3> QED
      BY <3>4, <3>7
  <2>6. pc' = "serve"
    BY <1>1, <1>12
  <2>7. m_checked_index' + m_content_length' <= m_read_index'
    BY <1>h, <1>1, <1>5, <1>12 DEF TypeOK, m_read_index
  <2>8. nul' = 0 /\ m_content_length' = 0
    BY <1>h, <1>1, <1>12
  <2> QED
    BY <1>1, <1>3, <2>1, <2>2, <2>4, <2>5, <2>6, <2>7, <2>8, ServeAsAsked
<1> QED
  BY <1>11, <1>12

(* While the body is awaited the parser is at its start or past it. *)
LEMMA ContentShape ==
    ASSUME TypeOK, InTransit, pc # "closed", AtContent
    PROVE  /\ request # None /\ Framed(request)
           /\ HeadEnd(request) \in Nat /\ HeadEnd(request) <= m_start_line
           /\ m_start_line \in Nat /\ m_start_line <= m_checked_index
           /\ m_content_length \in Nat
           /\ Len(request) = HeadEnd(request) + m_content_length
           /\ Len(request) = m_read_index + Len(unread) + Len(to_send)
           /\ m_checked_index \in Nat /\ m_read_index \in Nat
           /\ Len(unread) \in Nat /\ Len(to_send) \in Nat
           /\ m_keep_alive = Keeps(request)
<1>1. /\ request # None /\ Good(request) /\ BlankLines(request) # {}
      /\ m_content_length = Declared(request, HeadEnd(request)) /\ m_content_length # 0
      /\ m_keep_alive = KeepsTo(request, HeadEnd(request))
      /\ m_start_line >= HeadEnd(request)
  BY DEF AtContent, FieldsUpTo
<1>2. Framed(request)
  BY <1>1 DEF Framed
<1>3. Keeps(request) = KeepsTo(request, HeadEnd(request))
  BY <1>1 DEF Keeps, KeepsTo
<1>4. HeadEnd(request) \in Nat
  <2>1. BlankLines(request) \in SUBSET Nat
    BY DEF BlankLines, LineEnds
  <2> QED
    BY <1>1, <2>1, LeastIs DEF HeadEnd
<1>5. Len(request) = HeadEnd(request) + m_content_length
  BY <1>1, <1>2, RequestShape
<1>6. /\ Len(request) = m_read_index + Len(unread) + Len(to_send)
      /\ m_read_index \in Nat /\ Len(unread) \in Nat /\ Len(to_send) \in Nat
  BY <1>1, BufferIsPrefix
<1>7. /\ m_checked_index \in Nat /\ m_content_length \in Nat
      /\ m_start_line \in Nat /\ m_start_line <= m_checked_index
  BY DEF TypeOK
<1> QED
  BY <1>1, <1>2, <1>3, <1>4, <1>5, <1>6, <1>7

(* The body is complete when it is judged from its start, and never when it *)
(* is judged from further on.                                               *)
LEMMA ContentTracks ==
    ASSUME Inductive, ContentAtHead \/ \E end \in 1..m_read_index : ContentAfterLine(end)
    PROVE  Tracks'
<1>h. InTransit /\ ParserAt /\ TypeOK
  BY DEF Inductive, Buffers
<1>1. /\ pc \in {"parse", "scan"} /\ AtContent
      /\ UNCHANGED <<request, to_send, unread, m_read_buf, m_check_state, m_method, m_url,
                     m_content_length, m_keep_alive, m_write_buf>>
  BY <1>h DEF ContentAtHead, ContentAfterLine, ParserAt, AtRequestLine, AtHeaders, clientVars,
    writeVars
<1> DEFINE head == HeadEnd(request)
<1>2. /\ Framed(request) /\ m_keep_alive = Keeps(request)
      /\ head \in Nat /\ head <= m_start_line
      /\ m_start_line \in Nat /\ m_start_line <= m_checked_index
      /\ m_content_length \in Nat
      /\ Len(request) = head + m_content_length
      /\ Len(request) = m_read_index + Len(unread) + Len(to_send)
      /\ m_checked_index \in Nat /\ m_read_index \in Nat
      /\ Len(unread) \in Nat /\ Len(to_send) \in Nat
  BY <1>h, <1>1, ContentShape
<1> HIDE DEF head
<1>3. /\ parseRequestContent(m_checked_index') /\ m_start_line' = m_checked_index'
      /\ m_checked_index' >= m_checked_index /\ m_checked_index' \in Nat
      /\ AllRead(m_checked_index') => m_checked_index' = m_checked_index
  <2>1. CASE ContentAtHead
    BY <1>2, <2>1 DEF ContentAtHead
  <2>2. CASE \E end \in 1..m_read_index : ContentAfterLine(end)
    <3>1. PICK end \in 1..m_read_index : ContentAfterLine(end)
      BY <2>2
    <3>2. /\ m_checked_index' = end /\ m_start_line' = end /\ end \in LineOKAt
          /\ parseRequestContent(end)
      BY <3>1 DEF ContentAfterLine, TakesLine
    <3>3. end \in m_checked_index + 1 .. m_read_index
      BY <1>h, <3>2, LineEndsWithin
    <3>4. ~AllRead(end)
      BY <1>2, <3>3 DEF AllRead
    <3> QED
      BY <1>2, <3>2, <3>3, <3>4
  <2> QED
    BY <2>1, <2>2
<1>4. /\ AllRead(m_checked_index') => nul' = m_start_line + m_content_length /\ pc' = "serve"
      /\ ~AllRead(m_checked_index') => UNCHANGED nul /\ pc' = "scan"
  BY <1>3 DEF parseRequestContent
<1>5. request # None /\ request' # None /\ InTransit' /\ (pc' # "serve" => AsAsked')
      /\ m_write_buf' = None
  BY <1>1, <1>4, ParseInTransit
<1>6. CASE ~AllRead(m_checked_index')
  <2>1. m_start_line' >= head
    BY <1>2, <1>3
  <2>2. AtContent'
    BY <1>1, <2>1 DEF AtContent, FieldsUpTo, head
  <2>3. ParserAt'
    BY <1>4, <1>5, <1>6, <2>2 DEF ParserAt
  <2> QED
    BY <1>4, <1>5, <1>6, <2>3 DEF Tracks
<1>7. CASE AllRead(m_checked_index')
  <2>1. m_checked_index' = m_checked_index /\ m_read_index >= m_content_length + m_checked_index
    BY <1>3, <1>7 DEF AllRead
  <2>2. /\ m_checked_index = head /\ m_start_line = head /\ m_read_index = Len(request)
        /\ Len(unread) = 0 /\ Len(to_send) = 0
        /\ m_checked_index + m_content_length = m_read_index
    BY <1>2, <2>1
  <2>3. unread = << >> /\ to_send = << >>
    BY <1>h, <2>2, EmptySeq DEF TypeOK
  <2>4. Good(request) /\ m_method = request[1].method /\ m_url = request[1].url
        /\ m_content_length # 0
    BY <1>1 DEF AtContent, FieldsUpTo
  <2>5. nul' = m_read_index /\ nul' # 0 /\ nul' = m_checked_index' + m_content_length'
    BY <1>1, <1>2, <1>4, <1>7, <2>1, <2>2, <2>4
  <2>6. ASSUME AsksKv(request) PROVE json_body' \in Bodies(request)
    <3>1. PICK from \in Nat \ {0} : from = m_checked_index + 1
      BY <1>2
    <3>2. json_body' = SubSeq(m_read_buf, from, m_read_index)
      BY <1>1, <2>1, <2>5, <3>1 DEF json_body
    <3>3. m_read_index \in 0..m_read_index
      BY <1>2
    <3>4. json_body' = SubSeq(request, from, m_read_index)
      BY <1>h, <1>1, <1>5, <3>2, <3>3, TextOfRequest
    <3>5. m_checked_index = IF Good(request) THEN HeadEnd(request) ELSE Min(LineEnds(request))
      BY <2>2, <2>4 DEF head
    <3>6. m_read_index \in IF Framed(request) THEN {Len(request)} ELSE m_checked_index..Len(request)
      BY <1>2, <2>2
    <3>7. SubSeq(request, from, m_read_index) \in Bodies(request)
      BY <2>6, <3>1, <3>5, <3>6, BodyIs
    <3> QED
      BY <3>4, <3>7
  <2>7. pc' = "serve" /\ m_keep_alive' = Keeps(request)
    BY <1>1, <1>2, <1>4, <1>7
  <2>8. m_method' = request[1].method /\ m_url' = request[1].url
    BY <1>1, <2>4
  <2>9. m_checked_index' + m_content_length' <= m_read_index'
    BY <1>1, <1>2, <2>1 DEF m_read_index
  <2> QED
    BY <1>1, <1>5, <2>3, <2>4, <2>5, <2>6, <2>7, <2>8, <2>9, ServeAsAsked
<1> QED
  BY <1>6, <1>7

(* The answer takes the place of the request. *)
LEMMA AnswersTracks ==
    ASSUME Inductive, pc = "serve", NEW kind \in {"kv", "stats", "404"}, NEW body \in Seq(Tokens),
           Answers(kind, body)
    PROVE  Tracks'
<1>h. InTransit /\ ParserAt /\ AsAsked /\ TypeOK
  BY DEF Inductive, Buffers
<1>1. /\ pc' = "out" /\ m_write_buf' = [kind |-> kind, body |-> body, keep |-> m_keep_alive]
      /\ UNCHANGED <<request, to_send, unread, parseVars>>
  BY DEF Answers, clientVars
<1>2. request # None
  BY <1>h DEF InTransit
<1>3. InTransit'
  BY <1>h, <1>1, <1>2 DEF InTransit, parseVars
<1>4. ParserAt'
  BY <1>1, <1>2 DEF ParserAt
<1>5. m_write_buf' # None
  <2>1. m_write_buf' \in [kind : {"kv", "stats", "404"}, body : Seq(Tokens), keep : BOOLEAN]
    BY <1>h, <1>1 DEF TypeOK
  <2> QED
    BY <2>1, NoneAssumption
<1>6. AsAsked'
  <2>1. m_keep_alive' = m_keep_alive
    BY <1>1 DEF parseVars
  <2> QED
    BY <1>h, <1>1, <1>5, <2>1 DEF AsAsked
<1> QED
  BY <1>3, <1>4, <1>6 DEF Tracks

(* The last byte of an answer: nothing is left of the request. *)
LEMMA WriteRestTracks ==
    ASSUME Inductive, WriteRest
    PROVE  Tracks'
<1>h. InTransit /\ AsAsked /\ TypeOK
  BY DEF Inductive, Buffers
<1>1. pc \in {"out", "more"} /\ request' = None /\ UNCHANGED <<to_send, unread>>
  BY DEF WriteRest
<1>2. CASE m_keep_alive
  <2>1. /\ pc' = "in" /\ InitParser /\ m_write_buf' = None
        /\ unread' = << >> /\ to_send' = << >>
    BY <1>h, <1>1, <1>2 DEF WriteRest, AsAsked
  <2>2. InTransit'
    BY <1>1, <2>1 DEF InTransit, InitParser
  <2>3. LineClean'
    <3>1. m_start_line' = 0 /\ m_checked_index' = 0
      BY <2>1 DEF InitParser
    <3>2. ~\E i \in 0 + 1 .. 0 : TRUE
      OBVIOUS
    <3> QED
      BY <3>1, <3>2 DEF LineClean
  <2>4. AtRequestLine'
    BY <2>1, <2>3, Zenon DEF AtRequestLine, InitParser
  <2>5. ParserAt'
    BY <2>1, <2>4 DEF ParserAt
  <2>6. AsAsked'
    BY <2>1 DEF AsAsked, InitParser
  <2> QED
    BY <2>2, <2>5, <2>6 DEF Tracks
<1>3. CASE ~m_keep_alive
  BY <1>3, ClosedTracks DEF WriteRest
<1> QED
  BY <1>2, <1>3

(* The text that process() parses is all in the buffer. *)
LEMMA BodyType ==
    ASSUME Inductive, pc = "serve"
    PROVE  json_body \in Seq(Tokens)
<1>1. /\ m_read_buf \in Seq(Tokens) /\ m_checked_index \in Nat /\ m_content_length \in Nat
      /\ m_read_index \in Nat /\ m_checked_index <= m_read_index
      /\ m_checked_index + m_content_length <= m_read_index
      /\ nul = IF m_content_length = 0 THEN 0 ELSE m_checked_index + m_content_length
  BY LenProperties DEF Inductive, Buffers, TypeOK, AsAsked, m_read_index
<1>2. PICK from \in Nat \ {0} : from = m_checked_index + 1
  BY <1>1
<1>3. PICK to \in 0..m_read_index :
         to = IF nul = 0 THEN m_read_index ELSE nul
  BY <1>1
<1>4. json_body = SubSeq(m_read_buf, from, to)
  BY <1>2, <1>3 DEF json_body
<1>5. \A i \in from..to : m_read_buf[i] \in Tokens
  <2>1. \A i \in from..to : i \in 1..Len(m_read_buf)
    BY <1>1, <1>2, <1>3 DEF m_read_index
  <2> QED
    BY <1>1, <2>1, ElementOfSeq
<1> QED
  BY <1>2, <1>3, <1>4, <1>5, SubSeqProperties

(* Every step of the server, *)
LEMMA ServerTracks ==
    ASSUME Inductive, ServerStep
    PROVE  Tracks'
<1>1. CASE HandleHup \/ ReadFails \/ BadJson \/ WriteFails
  BY <1>1, ClosedTracks DEF HandleHup, ReadFails, BadJson, WriteFails, closeConnection
<1>2. CASE Read
  BY <1>2, ReadTracks
<1>3. CASE ParseStep
  BY <1>3, LineOpenTracks, RequestLineTracks, HeaderLineTracks, BlankLineTracks, ContentTracks
     DEF ParseStep
<1>4. CASE processKvsRequest
  <2>1. pc = "serve" /\ Answers("kv", json_body)
    BY <1>4 DEF processKvsRequest
  <2>2. json_body \in Seq(Tokens)
    BY <2>1, BodyType
  <2> QED
    BY <2>1, <2>2, AnswersTracks
<1>5. CASE StatsOrNotFound
  <2>1. PICK kind \in {"stats", "404"} : pc = "serve" /\ Answers(kind, << >>)
    BY <1>5 DEF StatsOrNotFound
  <2> QED
    BY <2>1, AnswersTracks, EmptySeq
<1>6. CASE WriteRest
  BY <1>6, WriteRestTracks
<1>7. CASE WriteBlocks \/ \E n \in 1..AnswerSize : WritePart(n)
  <2>1. /\ UNCHANGED <<request, to_send, unread, parseVars, m_write_buf>>
        /\ pc \in {"out", "more", "blocked"} /\ pc' \in {"out", "more", "blocked"}
    BY <1>7 DEF WriteBlocks, WritePart, clientVars, writeVars
  <2> QED
    BY <2>1, StillTracks
<1> QED
  BY <1>1, <1>2, <1>3, <1>4, <1>5, <1>6, <1>7 DEF ServerStep, WriteStep

(* and of the client and the network. *)
LEMMA ClientTracks ==
    ASSUME Inductive,
           \/ \E r \in Requests : Ask(r)
           \/ \E n \in 1..READ_BUFFER_SIZE : Arrive(n)
           \/ HangUp \/ Drain \/ UNCHANGED vars
    PROVE  Tracks'
<1>1. CASE \E r \in Requests : Ask(r)
  BY <1>1, AskTracks
<1>2. CASE \E n \in 1..READ_BUFFER_SIZE : Arrive(n)
  BY <1>2, ArriveTracks
<1>3. CASE HangUp \/ Drain \/ UNCHANGED vars
  <2>1. /\ UNCHANGED <<request, to_send, unread, parseVars, m_write_buf>>
        /\ pc' = pc \/ (pc \in {"out", "more", "blocked"} /\ pc' \in {"out", "more", "blocked"})
    BY <1>3 DEF HangUp, Drain, vars, clientVars, writeVars
  <2> QED
    BY <2>1, StillTracks
<1> QED
  BY <1>1, <1>2, <1>3

(* The whole invariant: the buffers, where the parser is in the request,    *)
(* and what is about to be answered.                                        *)
THEOREM HttpInvariant == Spec => []Inductive
<1>1. Init => Inductive
  BY InitEstablishes, InitTracks DEF Inductive, Tracks
<1>2. Inductive /\ [Next]_vars => Inductive'
  <2> SUFFICES ASSUME Inductive, [Next]_vars PROVE Inductive'
    OBVIOUS
  <2>1. Tracks'
    BY ServerTracks, ClientTracks DEF Next
  <2>2. Buffers'
    BY BuffersStep DEF Inductive
  <2> QED
    BY <2>1, <2>2 DEF Inductive, Tracks
<1> QED
  BY <1>1, <1>2, PTL DEF Spec

(* read(): a request is refused for its length only when it does not fit    *)
(* the buffer, since init() has emptied it.                                 *)
THEOREM RefusedOnlyTooLong == Spec => []RefusedTooLong
<1>1. Inductive => RefusedTooLong
  <2> SUFFICES ASSUME Inductive, pc = "in", Len(unread) > Room
               PROVE  Len(request) > READ_BUFFER_SIZE
    BY DEF RefusedTooLong
  <2>1. TypeOK /\ InTransit /\ m_read_index <= READ_BUFFER_SIZE /\ READ_BUFFER_SIZE \in Nat
        /\ m_read_index \in Nat
    BY SizesAssumption DEF Inductive, Buffers, TypeOK
  <2>2. request # None
    <3>1. unread # << >>
      BY <2>1 DEF Room
    <3> QED
      BY <2>1, <3>1 DEF InTransit
  <2>3. /\ Len(request) = m_read_index + Len(unread) + Len(to_send)
        /\ Len(unread) \in Nat /\ Len(to_send) \in Nat
    BY <2>1, <2>2, BufferIsPrefix
  <2> QED
    BY <2>1, <2>3 DEF Room
<1> QED
  BY <1>1, HttpInvariant, PTL

-----------------------------------------------------------------------------
(* The exchange with the client (HttpExchange).                             *)

(* The commands that have been executed were texts in the buffer. *)
CommandsAreTexts == executed \in Seq(Seq(Tokens))

LEMMA ExecutedIsSequence == Spec => []CommandsAreTexts
<1>1. Init => CommandsAreTexts
  BY EmptySeq DEF Init, CommandsAreTexts
<1>2. CommandsAreTexts /\ Inductive /\ [Next]_vars => CommandsAreTexts'
  <2> SUFFICES ASSUME CommandsAreTexts, Inductive, [Next]_vars
               PROVE  CommandsAreTexts'
    OBVIOUS
  <2>1. CASE processKvsRequest
    <3>1. json_body \in Seq(Tokens)
      BY <2>1, BodyType DEF processKvsRequest
    <3> QED
      BY <2>1, <3>1, AppendProperties DEF processKvsRequest, CommandsAreTexts
  <2>2. CASE ~processKvsRequest
    <3>1. executed' = executed
      BY <2>2 DEF Next, vars, Ask, Arrive, HangUp, Drain, ServerStep, ParseStep, WriteStep,
        closeConnection, HandleHup, Read, ReadFails, BadJson, WriteFails, StatsOrNotFound, LineOpen,
        LineBad, ContentAtHead, RequestLine, HeaderLine, BlankLine, ContentAfterLine, WriteRest,
        WriteBlocks, WritePart
    <3> QED
      BY <3>1 DEF CommandsAreTexts
  <2> QED
    BY <2>1, <2>2
<1> QED
  BY <1>1, <1>2, HttpInvariant, PTL DEF Spec

(* What the client sees of a step: nothing, *)
LEMMA SilentStep ==
    ASSUME UNCHANGED <<request, m_write_buf, sent, executed>>,
           pc # "closed" <=> pc' # "closed"
    PROVE  UNCHANGED Exchange!vars
BY DEF Exchange!vars

(* the end of the connection, *)
LEMMA CloseStep ==
    ASSUME closeConnection, pc # "closed"
    PROVE  Exchange!Close
BY DEF closeConnection, Exchange!Close, clientVars, writeVars

(* a request, *)
LEMMA AskStep ==
    ASSUME Inductive, NEW r \in Requests, Ask(r)
    PROVE  Exchange!Ask(r)
<1>1. m_write_buf = None /\ r # None
  BY RequestsAssumption DEF Ask, Inductive, InTransit, AsAsked
<1> QED
  BY <1>1 DEF Ask, Exchange!Ask, clientVars, writeVars

(* the command behind it, with the answer, *)
LEMMA ServeStep ==
    ASSUME Inductive, CommandsAreTexts, processKvsRequest \/ StatsOrNotFound
    PROVE  Exchange!Serve
<1>1. /\ pc = "serve" /\ request # None /\ m_write_buf = None
      /\ IsKv <=> AsksKv(request)
      /\ IsStats <=> AsksStats(request)
      /\ IsKv => json_body \in Bodies(request)
      /\ m_keep_alive = Keeps(request)
  BY DEF Inductive, InTransit, AsAsked, processKvsRequest, StatsOrNotFound
<1> DEFINE kind == IF IsKv THEN "kv" ELSE IF IsStats THEN "stats" ELSE "404"
           body == IF IsKv THEN json_body ELSE << >>
<1>2. /\ Answers(kind, body)
      /\ executed' = IF IsKv THEN Append(executed, json_body) ELSE executed
  BY DEF processKvsRequest, StatsOrNotFound
<1>3. /\ m_write_buf' = [kind |-> kind, body |-> body, keep |-> m_keep_alive]
      /\ sent' = << >> /\ pc' = "out" /\ request' = request
  BY <1>2 DEF Answers, clientVars
<1>4. body \in Bodies(request)
  BY <1>1 DEF Bodies
<1>5. m_write_buf' \in Rights(request)
  BY <1>1, <1>3, <1>4 DEF Rights
<1>6. executed' = executed \o Runs(m_write_buf')
  <2>1. CASE IsKv
    <3>1. Runs(m_write_buf') = <<json_body>> /\ executed' = Append(executed, json_body)
      BY <1>2, <1>3, <2>1 DEF Runs
    <3>2. json_body \in Seq(Tokens)
      BY <1>1, BodyType
    <3> QED
      BY <3>1, <3>2, AppendIsConcat DEF CommandsAreTexts
  <2>2. CASE ~IsKv
    <3>1. Runs(m_write_buf') = << >> /\ executed' = executed
      BY <1>2, <1>3, <2>2 DEF Runs
    <3> QED
      BY <3>1, ConcatEmptySeq DEF CommandsAreTexts
  <2> QED
    BY <2>1, <2>2
<1> QED
  BY <1>1, <1>3, <1>5, <1>6 DEF Exchange!Serve

LEMMA SentType ==
    ASSUME NEW n \in Nat, NEW f, f = [i \in 1..n |-> i]
    PROVE  Len(f) = n
<1>1. f \in [1..n -> Int]
  OBVIOUS
<1> QED
  BY <1>1, FunctionIsSequence

(* some of the answer, *)
LEMMA PartStep ==
    ASSUME Inductive, NEW n \in 1..AnswerSize, WritePart(n)
    PROVE  \E k \in 1..AnswerSize : Exchange!Deliver(k)
<1>1. /\ pc \in {"out", "more"} /\ iov.len # 0 /\ n < bytes_to_send
      /\ bytes_have_send \in Nat /\ bytes_to_send \in Nat
      /\ bytes_have_send + bytes_to_send = AnswerSize
      /\ sent = [i \in 1..bytes_have_send |-> i]
      /\ iov = [base |-> bytes_have_send, len |-> bytes_to_send]
      /\ m_write_buf # None
  BY SMTT(30) DEF WritePart, Inductive, Buffers, TypeOK, AnswerInOrder, AsAsked
<1>2. request # None
  BY <1>1 DEF Inductive, InTransit
<1>3. PICK k \in 1..AnswerSize : k = bytes_have_send + n
  BY <1>1, SizesAssumption
<1>4. Len(sent) < k /\ k < AnswerSize
  <2>1. Len(sent) = bytes_have_send
    BY <1>1, SentType
  <2> QED
    BY <1>1, <1>3, <2>1, SizesAssumption
<1>5. sent' = [i \in 1..k |-> i]
  BY <1>1, <1>3, SentGrows DEF WritePart
<1>6. pc' = "more" /\ UNCHANGED <<request, m_write_buf, executed>>
  BY DEF WritePart, clientVars
<1>7. Exchange!Deliver(k)
  BY <1>1, <1>2, <1>4, <1>5, <1>6 DEF Exchange!Deliver
<1> QED
  BY <1>7

(* and the rest of it, after which the connection is as it was asked. *)
LEMMA RestStep ==
    ASSUME Inductive, WriteRest
    PROVE  \E k \in 1..AnswerSize : Exchange!Deliver(k)
<1>1. /\ pc \in {"out", "more"} /\ iov.len # 0 /\ bytes_to_send > 0
      /\ bytes_have_send \in Nat /\ bytes_to_send \in Nat
      /\ bytes_have_send + bytes_to_send = AnswerSize
      /\ sent = [i \in 1..bytes_have_send |-> i]
      /\ iov = [base |-> bytes_have_send, len |-> bytes_to_send]
      /\ m_write_buf # None /\ m_keep_alive = Keeps(request)
  BY DEF WriteRest, Inductive, Buffers, TypeOK, AnswerInOrder, AsAsked
<1>2. request # None
  BY <1>1 DEF Inductive, InTransit
<1>3. Len(sent) < AnswerSize
  <2>1. Len(sent) = bytes_have_send
    BY <1>1, SentType
  <2> QED
    BY <1>1, <2>1, SizesAssumption
<1>4. sent' = [i \in 1..AnswerSize |-> i]
  <2>1. sent' = [i \in 1..bytes_have_send + bytes_to_send |-> i]
    BY <1>1, SentGrows DEF WriteRest
  <2> QED
    BY <1>1, <2>1
<1>5. request' = None /\ executed' = executed /\ ((pc' # "closed") = Keeps(request))
  <2>1. request' = None /\ executed' = executed
    BY DEF WriteRest
  <2>2. IF m_keep_alive THEN pc' = "in" ELSE pc' = "closed"
    BY DEF WriteRest
  <2>3. m_keep_alive \in BOOLEAN /\ Keeps(request) \in BOOLEAN
    BY DEF Inductive, Buffers, TypeOK, Keeps
  <2>4. (pc' # "closed") = m_keep_alive
    BY <2>2, <2>3
  <2> QED
    BY <1>1, <2>1, <2>4
<1>6. AnswerSize \in 1..AnswerSize /\ ~(AnswerSize < AnswerSize)
  BY SizesAssumption
<1>7. Exchange!Deliver(AnswerSize)
  BY <1>1, <1>2, <1>3, <1>4, <1>5, <1>6 DEF Exchange!Deliver
<1> QED
  BY <1>6, <1>7

(* HttpConnection, through every cut of a request and of its answer,        *)
(* implements the exchange of whole requests and whole answers.             *)
THEOREM HttpImplementsExchange == Spec => ImplementsExchange
<1>1. Init => Exchange!Init
  BY DEF Init, Exchange!Init
<1>2. Inductive /\ CommandsAreTexts /\ [Next]_vars => [Exchange!Next]_(Exchange!vars)
  <2> SUFFICES ASSUME Inductive, CommandsAreTexts, [Next]_vars
               PROVE  Exchange!Next \/ UNCHANGED Exchange!vars
    OBVIOUS
  <2>1. CASE \E r \in Requests : Ask(r)
    BY <2>1, AskStep DEF Exchange!Next
  <2>2. CASE HandleHup \/ ReadFails \/ BadJson \/ WriteFails
    BY <2>2, CloseStep DEF HandleHup, ReadFails, BadJson, WriteFails, Exchange!Next
  <2>3. CASE processKvsRequest \/ StatsOrNotFound
    BY <2>3, ServeStep DEF Exchange!Next
  <2>4. CASE WriteRest \/ \E n \in 1..AnswerSize : WritePart(n)
    BY <2>4, PartStep, RestStep DEF Exchange!Next
  <2>5. CASE \/ \E n \in 1..READ_BUFFER_SIZE : Arrive(n)
             \/ HangUp \/ Drain \/ Read \/ ParseStep \/ WriteBlocks \/ UNCHANGED vars
    <3>1. UNCHANGED <<request, m_write_buf, sent, executed>> /\ (pc # "closed" <=> pc' # "closed")
      BY <2>5 DEF vars, clientVars, writeVars, Arrive, HangUp, Drain, Read, ParseStep, ScansLine,
        LineOpen, LineBad, ContentAtHead, RequestLine, HeaderLine, BlankLine, ContentAfterLine,
        parseRequestContent, WriteBlocks
    <3> QED
      BY <3>1, SilentStep
  <2> QED
    BY <2>1, <2>2, <2>3, <2>4, <2>5 DEF Next, ServerStep, WriteStep
<1> QED
  BY <1>1, <1>2, HttpInvariant, ExecutedIsSequence, PTL DEF Spec, ImplementsExchange, Exchange!Spec

=============================================================================
