------------------------------- MODULE Reactor -------------------------------
(***************************************************************************)
(* The server at the level of connections: the reactor thread of main()    *)
(* with its epoll object and timer list, the pool's workers running        *)
(* HttpKvsConnection::process(), the kernel's descriptor table, and the    *)
(* clients.                                                                *)
(*                                                                         *)
(* The array users[] is indexed by descriptor, so an object outlives the   *)
(* connection it serves: what the properties are about is which thread     *)
(* touches users[fd], and on whose behalf, while the kernel closes fd and  *)
(* hands the same number to the next client.                               *)
(*                                                                         *)
(* A connection is a number, given in the order of accept(); a timer is    *)
(* created once per accept(), so it is named by the same number.           *)
(***************************************************************************)
EXTENDS Integers, Sequences, FiniteSets

CONSTANTS
    FDs,        \* the descriptors accept() can return, a set of positive numbers
    NoFD,       \* -1
    Workers,    \* the threads of the pool
    Main,       \* the reactor thread
    MAX_FD,     \* the limit on m_user_count
    Kinds,      \* what clients send: "part" of a request, or a whole one:
                \* "keep" (keep-alive), "close", "bad" (makes process() close)
    Stops,      \* TRUE: SIGTERM may arrive
    AnswerSize, \* the bytes of an answer
    MaxConns,   \* bound on the number of connections
    MaxSends    \* bound on the number of messages clients send

ASSUME FDsAssumption == FDs \subseteq Nat \ {0} /\ IsFiniteSet(FDs) /\ NoFD \notin FDs
ASSUME BoundsAssumption == MaxConns \in Nat /\ MaxSends \in Nat
ASSUME AnswerAssumption == AnswerSize \in Nat \ {0}
ASSUME WorkersAssumption == Workers # {}
ASSUME MainAssumption == Main \notin Workers
ASSUME KindsAssumption == Kinds \subseteq {"part", "keep", "close", "bad"}

Conns == 1..MaxConns
Threads == Workers \cup {Main}

VARIABLES
    sock,      \* kernel: the connection a descriptor stands for, 0 when it is free
    armed,     \* epoll: "no" (not registered), "off" (one-shot spent), "in", "out"
    peer,      \* client: "new", "up", "part" (sent half a request), "wait" (for the
               \* answer), "gone" (closed, by either side)
    inbuf,     \* socket receive buffer of a connection: "none" or what was sent
    sends,     \* messages sent so far
    full,      \* connections whose send buffer has no room: the client has to read
    m_sockfd,  \* users[fd].m_sockfd
    buf,       \* users[fd].m_read_buf: whose data, and what
    reply,     \* users[fd].m_write_buf: whose answer, keep-alive, and of its bytes
               \* bytes_have_send, bytes_to_send (left) and m_iv[0].iov_len (iov)
    m_user_count,
    timer,     \* lst_users[fd].timer
    where,     \* the descriptor of a timer's user_data
    timers,    \* timer_lst, soonest expiry first
    due,       \* how many of the timers have expired
    alarm,     \* "set", "piped" (SIGALRM is in the pipe), "timeout" (the flag is up)
    term,      \* SIGTERM: "no", "piped", "stop" (stop_server)
    events,    \* what is left of the batch epoll_wait returned
    at,        \* where each thread is
    obj,       \* the reactor thread works on users[obj]
    ret,       \* where closeConnection returns to in the reactor thread
    cnt,       \* the value of m_user_count a thread has loaded
    req,       \* the request a worker has parsed
    pending,   \* the pool's queue: a task is the descriptor it captured
    running,   \* the task of each worker
    gone,      \* the workers that have left the pool
    cancelled, \* ~ThreadPool has cancelled the queue
    overtaken, \* history: a timeout closed a connection the pool was working on
    reused,    \* history: accept() returned a descriptor whose closing worker had not
               \* yet cleared m_sockfd
    raced,     \* history: a thread loaded m_user_count while another was updating it
    wrong      \* history: an answer was sent to another client

kernelVars == <<sock, armed>>
clientVars == <<peer, inbuf, sends, full>>
userVars == <<m_sockfd, buf, reply>>
localVars == <<cnt, req>>
timerVars == <<timer, where, timers, due>>
queueVars == <<pending, running, gone, cancelled>>
historyVars == <<overtaken, reused, raced, wrong>>
loopVars == <<alarm, term, events, obj, ret>>
vars == <<sock, armed, peer, inbuf, sends, full, m_sockfd, buf, reply, m_user_count,
          timer, where, timers, due, alarm, term, events, at, obj, ret, cnt, req,
          pending, running, gone, cancelled, overtaken, reused, raced, wrong>>

(* The thread pool, through the FIFO it implements. *)
Pool == INSTANCE TaskQueue WITH
    Tasks <- FDs, NoTask <- NoFD

Nothing == [conn |-> 0, data |-> "none"]
NoReply == [conn |-> 0, keep |-> FALSE, have |-> 0, left |-> 0, iov |-> 0]
Data == [conn : 0..MaxConns, data : {"none"} \cup Kinds]
Replies == [conn : 0..MaxConns, keep : BOOLEAN, have : Nat, left : 0..AnswerSize,
            iov : 0..AnswerSize]
Events == [fd : FDs, kind : {"hup", "in", "out"}]
          \cup [fd : {0}, kind : {"listen", "pipe"}]

InRange(s) == {s[i] : i \in DOMAIN s}
InService(fd) == fd \in InRange(pending) \cup InRange(running)
Goto(t, l) == at' = [at EXCEPT ![t] = l]
Working(t) == IF t = Main THEN obj ELSE running[t]

Init ==
    /\ sock = [fd \in FDs |-> 0]
    /\ armed = [fd \in FDs |-> "no"]
    /\ peer = [c \in Conns |-> "new"]
    /\ inbuf = [c \in Conns |-> "none"]
    /\ sends = 0
    /\ full = {}
    /\ m_sockfd = [fd \in FDs |-> NoFD]
    /\ buf = [fd \in FDs |-> Nothing]
    /\ reply = [fd \in FDs |-> NoReply]
    /\ m_user_count = 0
    /\ timer = [fd \in FDs |-> 0]
    /\ where = [c \in Conns |-> NoFD]
    /\ timers = << >>
    /\ due = 0
    /\ alarm = "set"
    /\ term = "no"
    /\ events = {}
    /\ at = [t \in Threads |-> IF t = Main THEN "wait" ELSE "idle"]
    /\ obj = NoFD
    /\ ret = "loop"
    /\ cnt = [t \in Threads |-> 0]
    /\ req = [w \in Workers |-> Nothing]
    /\ pending = << >>
    /\ running = [w \in Workers |-> NoFD]
    /\ gone = {}
    /\ cancelled = FALSE
    /\ overtaken = FALSE
    /\ reused = FALSE
    /\ raced = FALSE
    /\ wrong = FALSE

-----------------------------------------------------------------------------
(* The clients and the clock.                                              *)

Connected(c) == c \in InRange(sock)

(* Half a request, or a whole one or its rest; then wait for the answer. *)
Send(c, k) ==
    /\ sends < MaxSends
    /\ Connected(c)
    /\ IF k = "part" THEN peer[c] = "up" ELSE peer[c] \in {"up", "part"}
    /\ peer' = [peer EXCEPT ![c] = IF k = "part" THEN "part" ELSE "wait"]
    /\ inbuf' = [inbuf EXCEPT ![c] = k]
    /\ sends' = sends + 1
    /\ UNCHANGED <<kernelVars, full, userVars, m_user_count, timerVars, loopVars, at, localVars,
                   queueVars, historyVars>>

HangUp(c) ==
    /\ Connected(c)
    /\ peer[c] # "gone"
    /\ peer' = [peer EXCEPT ![c] = "gone"]
    /\ UNCHANGED <<kernelVars, inbuf, sends, full, userVars, m_user_count, timerVars,
                   loopVars, at, localVars, queueVars, historyVars>>

(* The client reads what it has been sent, and there is room again. *)
Drain(c) ==
    /\ c \in full /\ peer[c] # "gone"
    /\ full' = full \ {c}
    /\ UNCHANGED <<kernelVars, peer, inbuf, sends, userVars, m_user_count, timerVars,
                   loopVars, at, localVars, queueVars, historyVars>>

(* Time passes until the next timer of the sorted list is due. *)
Elapse ==
    /\ due < Len(timers)
    /\ due' = due + 1
    /\ UNCHANGED <<kernelVars, clientVars, userVars, m_user_count, timer, where, timers,
                   loopVars, at, localVars, queueVars, historyVars>>

(* SIGALRM: sigHandler writes the signal into the pipe. *)
AlarmFires ==
    /\ alarm = "set"
    /\ alarm' = "piped"
    /\ UNCHANGED <<kernelVars, clientVars, userVars, m_user_count, timerVars, term, events,
                   obj, ret, at, localVars, queueVars, historyVars>>

(* SIGTERM does the same. *)
Terminate ==
    /\ Stops /\ term = "no"
    /\ term' = "piped"
    /\ UNCHANGED <<kernelVars, clientVars, userVars, m_user_count, timerVars, alarm, events,
                   obj, ret, at, localVars, queueVars, historyVars>>

-----------------------------------------------------------------------------
(* HttpConnection::closeConnection, run by any thread.  The descriptor is  *)
(* closed before m_sockfd is cleared, and the counter is not atomic.       *)

Return(t) ==
    IF t = Main
    THEN Goto(t, ret) /\ UNCHANGED queueVars
    ELSE Goto(t, "idle") /\ Pool!Finish(t)

(* Mutant: closeConnection does not test m_sockfd. *)
CloseCheckUnguarded(t) ==
    /\ at[t] = "check"
    /\ Goto(t, "shut")
    /\ UNCHANGED <<kernelVars, clientVars, userVars, m_user_count, timerVars, loopVars,
                   localVars, queueVars, historyVars>>

(* if (m_sockfd != -1) *)
CloseCheck(t) ==
    /\ at[t] = "check"
    /\ IF m_sockfd[Working(t)] = NoFD
       THEN Return(t)
       ELSE Goto(t, "shut") /\ UNCHANGED queueVars
    /\ UNCHANGED <<kernelVars, clientVars, userVars, m_user_count, timerVars, loopVars,
                   localVars, historyVars>>

(* Mutant: removeFDEpoll without its close(). *)
CloseShutKeepsSocket(t) ==
    /\ at[t] = "shut"
    /\ armed' = [armed EXCEPT ![Working(t)] = "no"]
    /\ Goto(t, "clear")
    /\ UNCHANGED <<sock, clientVars, userVars, m_user_count, timerVars, loopVars, localVars,
                   queueVars, historyVars>>

(* removeFDEpoll(m_epoll_fd, m_sockfd): EPOLL_CTL_DEL and close(), and the *)
(* client sees the end.  If another thread has cleared m_sockfd since the   *)
(* test, the argument was loaded before that or after: -1 does nothing.     *)
CloseShut(t) ==
    LET fd == Working(t) IN
    /\ at[t] = "shut"
    /\ \/ /\ m_sockfd[fd] = NoFD
          /\ UNCHANGED <<kernelVars, peer, inbuf>>
       \/ /\ sock' = [sock EXCEPT ![fd] = 0]
          /\ armed' = [armed EXCEPT ![fd] = "no"]
          /\ peer' = [c \in Conns |-> IF c = sock[fd] THEN "gone" ELSE peer[c]]
          /\ inbuf' = [c \in Conns |-> IF c = sock[fd] THEN "none" ELSE inbuf[c]]
    /\ Goto(t, "clear")
    /\ UNCHANGED <<sends, full, userVars, m_user_count, timerVars, loopVars, localVars,
                   queueVars, historyVars>>

(* Some thread is between its load and its store of m_user_count. *)
CountBusy == \E t \in Threads : at[t] \in {"accept", "count"}

(* m_sockfd = -1, and the load of --m_user_count. *)
CloseClear(t) ==
    LET fd == Working(t) IN
    /\ at[t] = "clear"
    /\ m_sockfd' = [m_sockfd EXCEPT ![fd] = NoFD]
    /\ cnt' = [cnt EXCEPT ![t] = m_user_count]
    /\ raced' = (raced \/ CountBusy)
    /\ Goto(t, "count")
    /\ UNCHANGED <<kernelVars, clientVars, buf, reply, m_user_count, timerVars, loopVars,
                   req, queueVars, overtaken, reused, wrong>>

(* The store of --m_user_count. *)
CloseCount(t) ==
    /\ at[t] = "count"
    /\ m_user_count' = cnt[t] - 1
    /\ cnt' = [cnt EXCEPT ![t] = 0]
    /\ Return(t)
    /\ UNCHANGED <<kernelVars, clientVars, userVars, timerVars, loopVars, req, historyVars>>

Close(t) == CloseCheck(t) \/ CloseShut(t) \/ CloseClear(t) \/ CloseCount(t)

-----------------------------------------------------------------------------
(* The reactor thread: epoll_wait and the loop over its events.            *)

(* What epoll_wait would report of a registered descriptor; one event per  *)
(* descriptor, classified the way the loop tests its bits.                 *)
Readable(fd) == armed[fd] = "in" /\ inbuf[sock[fd]] # "none"
Writable(fd) == armed[fd] = "out" /\ sock[fd] \notin full
Event(fd) == [fd |-> fd, kind |-> IF peer[sock[fd]] = "gone" THEN "hup"
                                  ELSE IF armed[fd] = "out" THEN "out" ELSE "in"]
Ready ==
    {Event(fd) : fd \in {f \in FDs : /\ armed[f] \in {"in", "out"}
                                     /\ peer[sock[f]] = "gone" \/ Writable(f) \/ Readable(f)}}
    \cup (IF alarm = "piped" \/ term = "piped" THEN {[fd |-> 0, kind |-> "pipe"]} ELSE {})

(* Mutant: addFDEpoll without EPOLLONESHOT. *)
EpollWaitLevelTriggered ==
    /\ at[Main] = "wait"
    /\ \E listen \in {{}, {[fd |-> 0, kind |-> "listen"]}} :
         /\ listen # {} => \E c \in Conns : peer[c] = "new"
         /\ events' = Ready \cup listen
    /\ events' # {}
    /\ Goto(Main, "loop")
    /\ UNCHANGED <<kernelVars, clientVars, userVars, m_user_count, timerVars, alarm, term, obj,
                   ret, localVars, queueVars, historyVars>>

(* epoll_wait returns everything that is ready, clients that connect       *)
(* included, and EPOLLONESHOT disarms the descriptors it reports.          *)
EpollWait ==
    /\ at[Main] = "wait"
    /\ \E listen \in {{}, {[fd |-> 0, kind |-> "listen"]}} :
         /\ listen # {} => \E c \in Conns : peer[c] = "new"
         /\ events' = Ready \cup listen
    /\ events' # {}
    /\ armed' = [fd \in FDs |-> IF \E e \in events' : e.fd = fd THEN "off" ELSE armed[fd]]
    /\ Goto(Main, "loop")
    /\ UNCHANGED <<sock, clientVars, userVars, m_user_count, timerVars, alarm, term, obj, ret,
                   localVars, queueVars, historyVars>>

(* The loop takes the next event of the batch. *)
Takes(e, kind) ==
    /\ at[Main] = "loop"
    /\ e \in events
    /\ e.kind = kind
    /\ events' = events \ {e}

(* accept() returns the lowest free descriptor, or fails when none is left; *)
(* a client above the limit is closed at once.                              *)
FreeFDs == {fd \in FDs : sock[fd] = 0}
LowestFree == CHOOSE fd \in FreeFDs : \A other \in FreeFDs : fd <= other
Accepted == Cardinality({c \in Conns : peer[c] # "new"})
NextConn == Accepted + 1

AcceptFails(e) ==
    /\ Takes(e, "listen")
    /\ FreeFDs = {} \/ m_user_count >= MAX_FD
    /\ peer' = IF FreeFDs = {} THEN peer ELSE [peer EXCEPT ![NextConn] = "gone"]
    /\ UNCHANGED <<kernelVars, inbuf, sends, full, userVars, m_user_count, timerVars, alarm, term,
                   obj, ret, at, localVars, queueVars, historyVars>>

(* accept() and the first half of init(fd, addr): m_sockfd, addFDEpoll, and *)
(* the load of ++m_user_count.                                              *)
Accept(e) ==
    /\ Takes(e, "listen")
    /\ FreeFDs # {} /\ m_user_count < MAX_FD
    /\ sock' = [sock EXCEPT ![LowestFree] = NextConn]
    /\ peer' = [peer EXCEPT ![NextConn] = "up"]
    /\ m_sockfd' = [m_sockfd EXCEPT ![LowestFree] = LowestFree]
    /\ armed' = [armed EXCEPT ![LowestFree] = "in"]
    /\ cnt' = [cnt EXCEPT ![Main] = m_user_count]
    /\ obj' = LowestFree
    /\ reused' = (reused \/ \E w \in Workers : running[w] = LowestFree /\ at[w] = "clear")
    /\ raced' = (raced \/ CountBusy)
    /\ Goto(Main, "accept")
    /\ UNCHANGED <<inbuf, sends, full, buf, reply, m_user_count, timerVars, alarm, term, ret,
                   req, queueVars, overtaken, wrong>>

(* Mutant: main() does not add the timer to the list. *)
AcceptInitNoTimer ==
    /\ at[Main] = "accept"
    /\ m_user_count' = cnt[Main] + 1
    /\ cnt' = [cnt EXCEPT ![Main] = 0]
    /\ buf' = [buf EXCEPT ![obj] = Nothing]
    /\ reply' = [reply EXCEPT ![obj] = NoReply]
    /\ timer' = [timer EXCEPT ![obj] = Accepted]
    /\ where' = [where EXCEPT ![Accepted] = obj]
    /\ Goto(Main, "loop")
    /\ UNCHANGED <<kernelVars, clientVars, m_sockfd, timers, due, loopVars, req, queueVars,
                   historyVars>>

(* Mutant: main() does not tell the timer which connection it is for. *)
AcceptInitNoUserData ==
    LET c == Accepted IN
    /\ at[Main] = "accept"
    /\ m_user_count' = cnt[Main] + 1
    /\ cnt' = [cnt EXCEPT ![Main] = 0]
    /\ buf' = [buf EXCEPT ![obj] = Nothing]
    /\ reply' = [reply EXCEPT ![obj] = NoReply]
    /\ timer' = [timer EXCEPT ![obj] = c]
    /\ timers' = Append(timers, c)
    /\ Goto(Main, "loop")
    /\ UNCHANGED <<kernelVars, clientVars, m_sockfd, where, due, loopVars, req, queueVars,
                   historyVars>>

(* The store of ++m_user_count, init(), and the new timer: it expires later *)
(* than every other, so addTimer puts it last.                              *)
AcceptInit ==
    LET c == Accepted IN
    /\ at[Main] = "accept"
    /\ m_user_count' = cnt[Main] + 1
    /\ cnt' = [cnt EXCEPT ![Main] = 0]
    /\ buf' = [buf EXCEPT ![obj] = Nothing]
    /\ reply' = [reply EXCEPT ![obj] = NoReply]
    /\ timer' = [timer EXCEPT ![obj] = c]
    /\ where' = [where EXCEPT ![c] = obj]
    /\ timers' = Append(timers, c)
    /\ Goto(Main, "loop")
    /\ UNCHANGED <<kernelVars, clientVars, m_sockfd, due, loopVars, req, queueVars,
                   historyVars>>

CloseThen(fd, l) ==
    /\ obj' = fd
    /\ ret' = l
    /\ Goto(Main, "check")

(* EPOLLRDHUP, EPOLLHUP, EPOLLERR: closeConnection, and the timer stays. *)
HandleHup(e) ==
    /\ Takes(e, "hup")
    /\ CloseThen(e.fd, "loop")
    /\ UNCHANGED <<kernelVars, clientVars, userVars, m_user_count, timerVars, alarm, term, localVars,
                   queueVars, historyVars>>

(* What recv and writev see: EBADF for -1, and the end of a closed stream. *)
Valid(fd) == m_sockfd[fd] # NoFD /\ sock[fd] # 0
Alive(fd) == Valid(fd) /\ peer[sock[fd]] # "gone"

(* delTimer and adjustTimer of lst_users[fd].timer.  What is not in the    *)
(* list any more has been deleted: using it is undefined, here a no-op.    *)
Listed(t) == t \in InRange(timers)
Without(t) ==
    IF ~Listed(t) THEN timers
    ELSE LET i == CHOOSE j \in DOMAIN timers : timers[j] = t
         IN SubSeq(timers, 1, i - 1) \o SubSeq(timers, i + 1, Len(timers))
DueWithout(t) == due - (IF \E i \in 1..due : timers[i] = t THEN 1 ELSE 0)

DelTimer(t) ==
    /\ timers' = Without(t)
    /\ due' = DueWithout(t)
    /\ UNCHANGED <<timer, where>>

(* Mutant: adjustTimer unlinks the timer and does not insert it again. *)
AdjustTimerDrops(t) ==
    /\ timers' = Without(t)
    /\ due' = DueWithout(t)
    /\ UNCHANGED <<timer, where>>

AdjustTimer(t) ==
    /\ timers' = IF Listed(t) THEN Append(Without(t), t) ELSE timers
    /\ due' = DueWithout(t)
    /\ UNCHANGED <<timer, where>>

(* EPOLLIN, read() is true: post the task, then push the timer back. *)
HandleRead(e) ==
    LET fd == e.fd  c == sock[e.fd] IN
    /\ Takes(e, "in")
    /\ Alive(fd)
    /\ buf' = IF inbuf[c] = "none" THEN buf
              ELSE [buf EXCEPT ![fd] = [conn |-> c, data |-> inbuf[c]]]
    /\ inbuf' = [inbuf EXCEPT ![c] = "none"]
    /\ Pool!Post(fd)
    /\ AdjustTimer(timer[fd])
    /\ UNCHANGED <<kernelVars, peer, sends, full, m_sockfd, reply, m_user_count, alarm, term, obj,
                   ret, at, localVars, historyVars>>

(* EPOLLIN, read() is false: the stream has ended, or what has arrived does *)
(* not fit the buffer (the sizes are in HttpConnection; here it may happen  *)
(* to any client).  Delete the timer, close.                                *)
HandleReadFails(e) ==
    /\ Takes(e, "in")
    /\ DelTimer(timer[e.fd])
    /\ CloseThen(e.fd, "loop")
    /\ UNCHANGED <<kernelVars, clientVars, userVars, m_user_count, alarm, term, localVars, queueVars,
                   historyVars>>

(* modifyFDEpoll: fails, unnoticed, on -1 or an unregistered descriptor. *)
Rearm(fd, mode) ==
    armed' = IF Valid(fd) THEN [armed EXCEPT ![fd] = mode] ELSE armed

(* EPOLLOUT, write() with bytes_to_send = 0. *)
HandleNothingToWrite(e) ==
    /\ Takes(e, "out")
    /\ reply[e.fd].left = 0
    /\ Rearm(e.fd, "in")
    /\ buf' = [buf EXCEPT ![e.fd] = Nothing]
    /\ UNCHANGED <<sock, clientVars, m_sockfd, reply, m_user_count, timerVars, alarm, term, obj,
                   ret, at, localVars, queueVars, historyVars>>

(* EPOLLOUT, write() enters its loop. *)
HandleWrite(e) ==
    /\ Takes(e, "out")
    /\ reply[e.fd].left # 0
    /\ obj' = e.fd
    /\ Goto(Main, "write")
    /\ UNCHANGED <<kernelVars, clientVars, userVars, m_user_count, timerVars, alarm, term, ret,
                   localVars, queueVars, historyVars>>

(* One writev() of the loop of write() takes n bytes of the answer, for     *)
(* which there is room, and the answer has more: the loop goes round.  The  *)
(* length it leaves in m_iv[0] compares all that was sent with the last     *)
(* length.  An empty m_iv is never taken: writev() returns 0, neither the   *)
(* rest of the answer nor an error, and the reactor thread stays here.      *)
WritePart(n) ==
    LET r == reply[obj]  have == r.have + n IN
    /\ at[Main] = "write" /\ Valid(obj) /\ sock[obj] \notin full
    /\ n <= r.iov /\ n < r.left
    /\ reply' = [reply EXCEPT ![obj] =
                    [r EXCEPT !.have = have, !.left = r.left - n,
                              !.iov = IF have >= r.iov THEN 0 ELSE r.iov - n]]
    /\ full' = full \cup {sock[obj]}
    /\ wrong' = (wrong \/ r.conn # sock[obj])
    /\ UNCHANGED <<kernelVars, peer, inbuf, sends, m_sockfd, buf, m_user_count, timerVars, loopVars,
                   at, localVars, queueVars, overtaken, reused, raced>>

(* writev() takes the rest: init() and wait for the next request when the  *)
(* connection is kept alive, otherwise close, and the timer stays.         *)
WriteRest ==
    LET c == sock[obj]  r == reply[obj] IN
    /\ at[Main] = "write" /\ Valid(obj) /\ c \notin full
    /\ r.left > 0 /\ r.iov = r.left
    /\ wrong' = (wrong \/ r.conn # c)
    /\ peer' = IF peer[c] = "wait" THEN [peer EXCEPT ![c] = "up"] ELSE peer
    /\ Rearm(obj, "in")
    /\ reply' = [reply EXCEPT ![obj] = NoReply]
    /\ IF r.keep
       THEN /\ buf' = [buf EXCEPT ![obj] = Nothing]
            /\ Goto(Main, "loop")
            /\ UNCHANGED <<obj, ret>>
       ELSE CloseThen(obj, "loop") /\ UNCHANGED buf
    /\ UNCHANGED <<sock, inbuf, sends, full, m_sockfd, m_user_count, timerVars, alarm, term, events,
                   localVars, queueVars, overtaken, reused, raced>>

(* EAGAIN: the send buffer is full; wait for EPOLLOUT. *)
WriteBlocks ==
    /\ at[Main] = "write" /\ Valid(obj) /\ sock[obj] \in full
    /\ reply[obj].iov > 0
    /\ Rearm(obj, "out")
    /\ Goto(Main, "loop")
    /\ UNCHANGED <<sock, clientVars, userVars, m_user_count, timerVars, loopVars, localVars,
                   queueVars, historyVars>>

(* writev fails: the descriptor is -1 or closed, or the client is known to *)
(* be gone, which is noticed only when there is something to send.         *)
WriteFails ==
    /\ at[Main] = "write"
    /\ ~Valid(obj) \/ (~Alive(obj) /\ reply[obj].iov > 0)
    /\ CloseThen(obj, "loop")
    /\ UNCHANGED <<kernelVars, clientVars, userVars, m_user_count, timerVars, alarm, term, events,
                   localVars, queueVars, historyVars>>

WriteStep == WriteRest \/ WriteBlocks \/ WriteFails \/ \E n \in 1..AnswerSize : WritePart(n)

(* Mutant: main() reads one signal of the pipe and drops the rest. *)
HandleSignalFirst(e) ==
    /\ Takes(e, "pipe")
    /\ alarm' = IF alarm = "piped" THEN "timeout" ELSE alarm
    /\ term' = IF term # "piped" THEN term ELSE IF alarm = "piped" THEN "no" ELSE "stop"
    /\ UNCHANGED <<kernelVars, clientVars, userVars, m_user_count, timerVars, obj, ret, at,
                   localVars, queueVars, historyVars>>

(* The pipe is readable: raise the flags of the signals in it. *)
HandleSignal(e) ==
    /\ Takes(e, "pipe")
    /\ alarm' = IF alarm = "piped" THEN "timeout" ELSE alarm
    /\ term' = IF term = "piped" THEN "stop" ELSE term
    /\ UNCHANGED <<kernelVars, clientVars, userVars, m_user_count, timerVars, obj, ret, at,
                   localVars, queueVars, historyVars>>

Handle ==
    \E e \in events :
        \/ AcceptFails(e) \/ Accept(e) \/ HandleHup(e)
        \/ HandleRead(e) \/ HandleReadFails(e)
        \/ HandleNothingToWrite(e) \/ HandleWrite(e)
        \/ HandleSignal(e)

(* Back to epoll_wait, unless stop_server is set. *)
LoopOrStop == Goto(Main, IF term = "stop" THEN "delete_users" ELSE "wait")

(* The batch is done: run the timers if the flag is up. *)
EndOfBatch ==
    /\ at[Main] = "loop"
    /\ events = {}
    /\ IF alarm = "timeout" THEN Goto(Main, "tick") ELSE LoopOrStop
    /\ UNCHANGED <<kernelVars, clientVars, userVars, m_user_count, timerVars, loopVars, localVars,
                   queueVars, historyVars>>

(* Mutant: tick deletes the timer without the callback. *)
TickExpiresSilently ==
    /\ at[Main] = "tick"
    /\ due > 0
    /\ Goto(Main, "pop")
    /\ UNCHANGED <<kernelVars, clientVars, userVars, m_user_count, timerVars, loopVars,
                   localVars, queueVars, historyVars>>

(* SortTimerLst::tick: the callback closes the connection of the first     *)
(* expired timer, then the timer is unlinked and deleted.                  *)
TickExpires ==
    LET fd == where[Head(timers)] IN
    /\ at[Main] = "tick"
    /\ due > 0
    /\ CloseThen(fd, "pop")
    /\ overtaken' = (overtaken \/ (m_sockfd[fd] # NoFD /\ InService(fd)))
    /\ UNCHANGED <<kernelVars, clientVars, userVars, m_user_count, timerVars, alarm, term, events,
                   localVars, queueVars, reused, raced, wrong>>

TickPops ==
    /\ at[Main] = "pop"
    /\ timers' = Tail(timers)
    /\ due' = due - 1
    /\ Goto(Main, "tick")
    /\ UNCHANGED <<kernelVars, clientVars, userVars, m_user_count, timer, where, loopVars,
                   localVars, queueVars, historyVars>>

(* Nothing (more) has expired: timerHandler calls alarm() again. *)
TickEnds ==
    /\ at[Main] = "tick"
    /\ due = 0
    /\ alarm' = "set"
    /\ LoopOrStop
    /\ UNCHANGED <<kernelVars, clientVars, userVars, m_user_count, timerVars, term, events, obj,
                   ret, localVars, queueVars, historyVars>>

(* After the loop: the epoll object and the arrays users and lst_users go, *)
(* then the pool, then the engines.  A worker that still runs process()    *)
(* has lost its object; what it does then is undefined, and the model lets *)
(* it go on as if the memory were still there.                             *)
DeleteUsers ==
    /\ at[Main] = "delete_users"
    /\ Goto(Main, "delete_pool")
    /\ UNCHANGED <<kernelVars, clientVars, userVars, m_user_count, timerVars, loopVars, localVars,
                   queueVars, historyVars>>

DeletePool ==
    /\ at[Main] = "delete_pool"
    /\ Pool!Cancel
    /\ Goto(Main, "join")
    /\ UNCHANGED <<kernelVars, clientVars, userVars, m_user_count, timerVars, loopVars, localVars,
                   historyVars>>

(* Mutant: destroy_kvengine without waiting for the workers. *)
DestroyEnginesNoJoin ==
    /\ at[Main] = "join"
    /\ Goto(Main, "exited")
    /\ UNCHANGED <<kernelVars, clientVars, userVars, m_user_count, timerVars, loopVars, localVars,
                   queueVars, historyVars>>

JoinThenDestroyEngines ==
    /\ at[Main] = "join"
    /\ gone = Workers
    /\ Goto(Main, "exited")
    /\ UNCHANGED <<kernelVars, clientVars, userVars, m_user_count, timerVars, loopVars, localVars,
                   queueVars, historyVars>>

Teardown == DeleteUsers \/ DeletePool \/ JoinThenDestroyEngines

ReactorStep ==
    \/ EpollWait \/ Handle \/ AcceptInit \/ WriteStep \/ EndOfBatch
    \/ TickExpires \/ TickPops \/ TickEnds \/ Close(Main)
    \/ Teardown

-----------------------------------------------------------------------------
(* The workers: HttpKvsConnection::process() of users[running[w]].         *)

Start(w) ==
    /\ at[w] = "idle"
    /\ Pool!Dispatch(w)
    /\ Goto(w, "process")
    /\ UNCHANGED <<kernelVars, clientVars, userVars, m_user_count, timerVars, loopVars, localVars,
                   historyVars>>

(* processRead: NO_REQUEST, or a whole request. *)
Parse(w) ==
    LET b == buf[running[w]] IN
    /\ at[w] = "process"
    /\ IF b.data \in {"none", "part"}
       THEN Goto(w, "rearm_in") /\ UNCHANGED req
       ELSE Goto(w, "command") /\ req' = [req EXCEPT ![w] = b]
    /\ UNCHANGED <<kernelVars, clientVars, userVars, m_user_count, timerVars, loopVars, cnt,
                   queueVars, historyVars>>

(* The command, and its answer in the write buffer; without one the        *)
(* connection is closed.                                                   *)
Command(w) ==
    LET fd == running[w] IN
    /\ at[w] = "command"
    /\ IF req[w].data = "bad"
       THEN Goto(w, "check") /\ UNCHANGED reply
       ELSE /\ reply' = [reply EXCEPT ![fd] =
                            [conn |-> req[w].conn, keep |-> req[w].data = "keep",
                             have |-> reply[fd].have, left |-> AnswerSize, iov |-> AnswerSize]]
            /\ Goto(w, "rearm_out")
    /\ req' = [req EXCEPT ![w] = Nothing]
    /\ UNCHANGED <<kernelVars, clientVars, m_sockfd, buf, m_user_count, timerVars, loopVars,
                   cnt, queueVars, historyVars>>


(* process() ends by re-arming the one-shot event. *)
RearmOneShot(w) ==
    /\ at[w] \in {"rearm_in", "rearm_out"}
    /\ Rearm(running[w], IF at[w] = "rearm_in" THEN "in" ELSE "out")
    /\ Return(w)
    /\ UNCHANGED <<sock, clientVars, userVars, m_user_count, timerVars, loopVars, localVars,
                   historyVars>>

(* Pop returns false: the pool is cancelled and drained. *)
Leave(w) ==
    /\ at[w] = "idle"
    /\ w \notin gone
    /\ Pool!Leave(w)
    /\ UNCHANGED <<kernelVars, clientVars, userVars, m_user_count, timerVars, loopVars, at,
                   localVars, historyVars>>

WorkerStep(w) ==
    \/ Start(w) \/ Parse(w) \/ Command(w) \/ RearmOneShot(w) \/ Close(w) \/ Leave(w)

Next ==
    \/ \E c \in Conns, k \in Kinds : Send(c, k)
    \/ \E c \in Conns : HangUp(c) \/ Drain(c)
    \/ Elapse
    \/ AlarmFires
    \/ Terminate
    \/ ReactorStep
    \/ \E w \in Workers : WorkerStep(w)

(* The threads run.  Clients owe nothing. *)
ThreadFairness ==
    /\ WF_vars(ReactorStep)
    /\ \A w \in Workers : WF_vars(WorkerStep(w))

(* An alarm that is set goes off, and time passes. *)
ClockFairness == WF_vars(AlarmFires) /\ WF_vars(Elapse)

Spec == Init /\ [][Next]_vars
FairSpec == Spec /\ ThreadFairness

-----------------------------------------------------------------------------
Steps == {"wait", "loop", "accept", "write", "tick", "pop", "check", "shut", "clear", "count",
          "delete_users", "delete_pool", "join", "exited",
          "idle", "process", "command", "rearm_in", "rearm_out"}

KernelTypeOK == sock \in [FDs -> 0..MaxConns] /\ armed \in [FDs -> {"no", "off", "in", "out"}]

ClientTypeOK ==
    /\ peer \in [Conns -> {"new", "up", "part", "wait", "gone"}]
    /\ inbuf \in [Conns -> {"none"} \cup Kinds]
    /\ sends \in 0..MaxSends
    /\ full \subseteq Conns

UserTypeOK ==
    /\ m_sockfd \in [FDs -> FDs \cup {NoFD}]
    /\ buf \in [FDs -> Data]
    /\ reply \in [FDs -> Replies]
    /\ m_user_count \in Int

TimerTypeOK ==
    /\ timer \in [FDs -> 0..MaxConns]
    /\ where \in [Conns -> FDs \cup {NoFD}]
    /\ timers \in Seq(Conns) /\ due \in 0..Len(timers)

LoopTypeOK ==
    /\ alarm \in {"set", "piped", "timeout"}
    /\ term \in {"no", "piped", "stop"}
    /\ events \subseteq Events
    /\ obj \in FDs \cup {NoFD} /\ ret \in {"loop", "pop"}

ThreadTypeOK ==
    /\ at \in [Threads -> Steps]
    /\ cnt \in [Threads -> Int]
    /\ req \in [Workers -> Data]

PoolTypeOK ==
    /\ pending \in Seq(FDs) /\ running \in [Workers -> FDs \cup {NoFD}]
    /\ gone \subseteq Workers /\ cancelled \in BOOLEAN

HistoryTypeOK == overtaken \in BOOLEAN /\ reused \in BOOLEAN /\ raced \in BOOLEAN /\ wrong \in BOOLEAN

(* Types of the variables. *)
TypeOK ==
    /\ KernelTypeOK /\ ClientTypeOK /\ UserTypeOK /\ TimerTypeOK
    /\ LoopTypeOK /\ ThreadTypeOK /\ PoolTypeOK /\ HistoryTypeOK

(* Who holds users[fd]: the armed one-shot event, the event of the batch,  *)
(* the queued tasks, the workers, the reactor thread in write().           *)
Holders(fd) ==
    {<<"armed", x>> : x \in {armed[fd]} \cap {"in", "out"}} \cup
    {<<"event", e>> : e \in {x \in events : x.fd = fd}}
    \cup {<<"task", i>> : i \in {x \in DOMAIN pending : pending[x] = fd}}
    \cup {<<"worker", w>> : w \in {x \in Workers : running[x] = fd /\ at[x] # "count"}}
    \cup {<<"main", x>> : x \in {obj} \cap (IF at[Main] = "write" THEN {fd} ELSE {})}

(* EPOLLONESHOT makes one thread at a time responsible for a connection    *)
(* (README.md:351).                                                        *)
OneHolder == \A fd \in FDs : Cardinality(Holders(fd)) <= 1

(* It does for as long as no timeout closes a connection the pool works on *)
(* and accept() returns no descriptor whose close is still under way: these *)
(* two are the only ways to break it.                                       *)
OneOwner == ~overtaken /\ ~reused => OneHolder

(* Under the same conditions an answer goes to the client that asked. *)
RightClient == ~overtaken /\ ~reused => ~wrong

(* A registered descriptor has an object that knows it, so that its client *)
(* can be served and closed: nothing leaks (init and closeConnection).     *)
NoLeak == ~reused => \A fd \in FDs : sock[fd] # 0 => m_sockfd[fd] = fd

(* The timer main() takes from lst_users[] for a readable connection is    *)
(* one that tick and delTimer have not deleted.                            *)
TimerPointerLive ==
    ~reused => \A e \in events : e.kind = "in" => Listed(timer[e.fd])

(* lst_timer.h:16, at least one: every open connection that is not being   *)
(* closed has its own timer in the list, so it cannot stay idle for ever.  *)
BeingOpenedOrClosed(fd) ==
    \E t \in Threads : Working(t) = fd /\ at[t] \in {"accept", "check", "shut", "clear", "pop"}

OwnTimer ==
    ~reused => \A fd \in FDs :
        sock[fd] # 0 /\ ~BeingOpenedOrClosed(fd) => timer[fd] = sock[fd] /\ Listed(sock[fd])

(* http_connection.h:28: m_user_count is the number of clients, whenever no *)
(* update of it is under way and no connection has been closed twice.       *)
UserCount ==
    ~overtaken /\ ~reused /\ ~CountBusy =>
        m_user_count = Cardinality({fd \in FDs : m_sockfd[fd] # NoFD})

(* It is for as long as no two threads update it at once: it is a plain int *)
(* that every thread updates, so one of two overlapping updates is lost.    *)
CountExact == ~raced => UserCount

(* lst_timer.h:20-25: the timer that closes a connection is its own, which *)
(* every request has pushed back.                                          *)
TickClosesIdle ==
    [][at[Main] = "tick" /\ at'[Main] = "check" =>
         LET t == Head(timers) IN m_sockfd[where[t]] # NoFD => timer[where[t]] = t]_vars

(* http_connection.cpp:383-387: what finds no room waits for the next       *)
(* EPOLLOUT, so that the reactor thread is back in epoll_wait: write()      *)
(* always returns.                                                          *)
WriteReturns == at[Main] = "write" ~> at[Main] # "write"

(* The one place where it does not: the reactor thread is in the loop of    *)
(* write(), m_iv is empty and the answer has more.                          *)
WriteSpins == at[Main] = "write" /\ reply[obj].iov = 0

(* A connection does not stay open for ever once its client falls silent,   *)
(* nor its descriptor taken: its timer closes it, provided that time passes *)
(* and unless write() hangs.                                                *)
Released ==
    ClockFairness =>
        \A fd \in FDs : sock[fd] # 0 ~> sock[fd] = 0 \/ reused \/ term = "stop" \/ WriteSpins

(* The client of a descriptor has sent a whole request and waits. *)
Waiting(fd) == sock[fd] # 0 /\ peer[sock[fd]] = "wait"

(* It does not leave its answer unread for ever. *)
Reads(fd) == []<>(sock[fd] \notin full)

(* A client that has sent a whole request, and reads, gets an answer or     *)
(* sees its connection closed, and it does not take a timeout to get there, *)
(* unless write() hangs.                                                    *)
Answered ==
    \A fd \in FDs :
        Reads(fd) => (Waiting(fd) ~> ~Waiting(fd) \/ overtaken \/ reused \/ term = "stop"
                                     \/ WriteSpins)

(* The engines are destroyed after the last command: destroy_kvengine      *)
(* comes after the pool's destructor in main().                            *)
EnginesOutliveCommands ==
    at[Main] = "exited" => pending = << >> /\ \A w \in Workers : at[w] # "command"

(* SIGTERM ends the server, unless write() hangs. *)
Terminates == term = "piped" ~> at[Main] = "exited" \/ WriteSpins

=============================================================================
