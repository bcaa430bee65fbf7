------------------------ MODULE ReactorOrderProofs -------------------------
(***************************************************************************)
(* What holds of the server unconditionally, and every step keeps: first   *)
(* the types, one lemma per group of variables (one step per action that   *)
(* changes the group, and one for all the others), with what the proofs    *)
(* need to know of accept() (connections are counted, the lowest free      *)
(* descriptor is free) and of delTimer and adjustTimer (which timers stay  *)
(* in the list, and how many have expired); then where the threads are and *)
(* what they hold, what a batch of epoll_wait contains, that connections   *)
(* are numbered in the order of accept(), and that every timer knows the   *)
(* descriptor of its connection.                                           *)
(***************************************************************************)
EXTENDS ReactorInvariant, FiniteSetTheorems, SequenceTheorems, WellFoundedInduction, TLAPS

(* The connections so far are numbered 1 to Accepted. *)
LEMMA AcceptedConns ==
    ASSUME ClientTypeOK, InOrder
    PROVE  /\ Accepted \in 0..MaxConns
           /\ {c \in Conns : peer[c] # "new"} = 1..Accepted
<1> DEFINE S == {c \in Conns : peer[c] # "new"}
<1>1. IsFiniteSet(1..MaxConns) /\ Cardinality(1..MaxConns) = MaxConns
  BY BoundsAssumption, FS_Interval
<1>2. S \subseteq 1..MaxConns
  BY DEF Conns
<1>3. Cardinality(S) \in Nat /\ Cardinality(S) <= MaxConns
  BY <1>1, <1>2, FS_Subset, FS_CardinalityType
<1>4. Accepted \in 0..MaxConns
  BY <1>3, BoundsAssumption DEF Accepted
<1>5. S = {c \in Conns : c <= Accepted}
  BY DEF InOrder
<1> QED
  BY <1>4, <1>5, BoundsAssumption DEF Conns

(* The next connection is not one of them, while a client can connect. *)
LEMMA AcceptedAfter ==
    ASSUME ClientTypeOK, InOrder, NEW s, s # "new", Accepted < MaxConns,
           peer' = [peer EXCEPT ![NextConn] = s]
    PROVE  Accepted' = Accepted + 1
<1>1. Accepted \in 0..MaxConns /\ {c \in Conns : peer[c] # "new"} = 1..Accepted
  BY AcceptedConns
<1>2. NextConn \in Conns
  BY <1>1, BoundsAssumption DEF NextConn, Conns
<1>3. {c \in Conns : peer'[c] # "new"} = {c \in Conns : peer[c] # "new"} \cup {NextConn}
  BY <1>2 DEF ClientTypeOK
<1>4. {c \in Conns : peer'[c] # "new"} = 1..(Accepted + 1)
  BY <1>1, <1>3 DEF NextConn
<1>5. Cardinality(1..(Accepted + 1)) = Accepted + 1
  BY <1>1, FS_Interval
<1> QED
  BY <1>4, <1>5 DEF Accepted

(* accept() finds the lowest free descriptor. *)
LEMMA LowestFreeIsFree ==
    ASSUME FreeFDs # {}
    PROVE  LowestFree \in FDs /\ sock[LowestFree] = 0
<1>1. IsWellFoundedOn(OpToRel(<, Nat), Nat)
  BY NatLessThanWellFounded
<1>2. \E R : /\ IsWellFoundedOn(R, Nat)
             /\ \A p \in Nat \X Nat : p[1] < p[2] => p \in R
  BY <1>1, Zenon DEF OpToRel
<1>3. PICK R : /\ IsWellFoundedOn(R, Nat)
               /\ \A p \in Nat \X Nat : p[1] < p[2] => p \in R
  BY <1>2
<1>4. FreeFDs \subseteq Nat
  BY FDsAssumption DEF FreeFDs
<1>5. PICK fd \in FreeFDs : \A other \in FreeFDs : <<other, fd>> \notin R
  BY <1>3, <1>4, WFMin
<1>6. ASSUME NEW other \in FreeFDs PROVE fd <= other
  <2>1. <<other, fd>> \in Nat \X Nat /\ fd \in Nat /\ other \in Nat
    BY <1>4
  <2>2. ~(other < fd)
    BY <1>3, <1>5, <2>1
  <2> QED
    BY <2>1, <2>2
<1>7. LowestFree \in FreeFDs
  BY <1>6 DEF LowestFree
<1> QED
  BY <1>7 DEF FreeFDs

(* One turn of the loop of write(): it stays in the loop, leaves it, or     *)
(* goes on to close; it may have armed the descriptor again.                *)
LEMMA WriteTurn ==
    ASSUME WriteStep
    PROVE  /\ at[Main] = "write" /\ obj' = obj
           /\ UNCHANGED <<sock, inbuf, sends, m_sockfd, m_user_count, timer, where, timers, due,
                          alarm, term, events, cnt, req, pending, running, gone, cancelled,
                          overtaken, reused, raced>>
           /\ \/ at' = at /\ ret' = ret /\ armed' = armed
              \/ at' = [at EXCEPT ![Main] = "loop"] /\ ret' = ret
              \/ at' = [at EXCEPT ![Main] = "check"] /\ ret' = "loop"
           /\ \/ armed' = armed
              \/ Valid(obj) /\ \E mode \in {"in", "out"} : armed' = [armed EXCEPT ![obj] = mode]
           /\ \/ peer' = peer
              \/ peer[sock[obj]] = "wait" /\ peer' = [peer EXCEPT ![sock[obj]] = "up"]
<1>1. ASSUME NEW n \in 1..AnswerSize, WritePart(n)
      PROVE  /\ at[Main] = "write"
             /\ UNCHANGED <<sock, armed, peer, inbuf, sends, m_sockfd,
                    m_user_count, timer, where, timers, due, alarm, term, events, at, obj, ret,
                    cnt, req, pending, running, gone, cancelled, overtaken, reused, raced>>
  BY <1>1 DEF WritePart, kernelVars, timerVars, loopVars, localVars, queueVars
<1>2. ASSUME WriteRest
      PROVE  /\ at[Main] = "write" /\ obj' = obj
             /\ UNCHANGED <<sock, inbuf, sends, m_sockfd, m_user_count, timer, where, timers, due,
                            alarm, term, events, cnt, req, pending, running, gone, cancelled,
                            overtaken, reused, raced>>
             /\ \/ at' = [at EXCEPT ![Main] = "loop"] /\ ret' = ret
                \/ at' = [at EXCEPT ![Main] = "check"] /\ ret' = "loop"
             /\ Valid(obj) /\ armed' = [armed EXCEPT ![obj] = "in"]
             /\ \/ peer' = peer
                \/ peer[sock[obj]] = "wait" /\ peer' = [peer EXCEPT ![sock[obj]] = "up"]
  BY <1>2 DEF WriteRest, CloseThen, Goto, Rearm, timerVars, localVars, queueVars
<1>3. ASSUME WriteBlocks
      PROVE  /\ at[Main] = "write" /\ at' = [at EXCEPT ![Main] = "loop"]
             /\ UNCHANGED <<sock, peer, inbuf, sends, m_sockfd, m_user_count, timer, where,
                            timers, due, alarm, term, events, obj, ret, cnt, req, pending,
                            running, gone, cancelled, overtaken, reused, raced>>
             /\ Valid(obj) /\ armed' = [armed EXCEPT ![obj] = "out"]
  BY <1>3 DEF WriteBlocks, Goto, Rearm, clientVars, userVars, timerVars, loopVars, localVars,
    queueVars, historyVars
<1>4. ASSUME WriteFails
      PROVE  /\ at[Main] = "write" /\ at' = [at EXCEPT ![Main] = "check"] /\ ret' = "loop"
             /\ obj' = obj
             /\ UNCHANGED <<sock, armed, peer, inbuf, sends, m_sockfd, m_user_count, timer,
                            where, timers, due, alarm, term, events, cnt, req, pending, running,
                            gone, cancelled, overtaken, reused, raced>>
  BY <1>4 DEF WriteFails, CloseThen, Goto, kernelVars, clientVars, userVars, timerVars,
    localVars, queueVars, historyVars
<1> QED
  BY <1>1, <1>2, <1>3, <1>4 DEF WriteStep

(* Types of the kernel's tables. *)
LEMMA KernelTypes ==
    ASSUME Inductive, Next
    PROVE  KernelTypeOK'
<1>h. KernelTypeOK /\ ClientTypeOK /\ LoopTypeOK /\ ThreadTypeOK /\ PoolTypeOK /\ ThreadsOK
  /\ InOrder
  BY DEF Inductive, TypeOK
<1>1. ASSUME EpollWait PROVE KernelTypeOK'
  BY <1>h, <1>1 DEF KernelTypeOK, EpollWait, Goto, clientVars, userVars, localVars,
    timerVars, queueVars, historyVars
<1>2. ASSUME NEW e \in events, Accept(e) PROVE KernelTypeOK'
  <2>1. NextConn \in 0..MaxConns
    BY <1>h, <1>2, AcceptedConns, BoundsAssumption DEF Accept, Takes, NextConn, InOrder, LoopTypeOK, Events
  <2>2. sock' = [sock EXCEPT ![LowestFree] = NextConn] /\ armed' = [armed EXCEPT ![LowestFree] = "in"]
    BY <1>2 DEF Accept
  <2> QED
    BY <1>h, <2>1, <2>2 DEF KernelTypeOK
<1>3. ASSUME NEW e \in events, HandleNothingToWrite(e) PROVE KernelTypeOK'
  BY <1>h, <1>3 DEF KernelTypeOK, HandleNothingToWrite, Takes, Rearm, clientVars, localVars,
    timerVars, queueVars, historyVars
<1>4. ASSUME WriteStep PROVE KernelTypeOK'
  BY <1>h, <1>4, WriteTurn DEF KernelTypeOK
<1>5. ASSUME NEW t \in Threads, CloseShut(t) PROVE KernelTypeOK'
  <2>1. \/ UNCHANGED <<sock, armed>>
        \/ /\ sock' = [sock EXCEPT ![Working(t)] = 0]
           /\ armed' = [armed EXCEPT ![Working(t)] = "no"]
    BY <1>5 DEF CloseShut, kernelVars
  <2> QED
    BY <1>h, <2>1, BoundsAssumption DEF KernelTypeOK
<1>6. ASSUME NEW w \in Workers, RearmOneShot(w) PROVE KernelTypeOK'
  BY <1>h, <1>6 DEF KernelTypeOK, RearmOneShot, Return, Rearm, Goto, Pool!Finish,
    clientVars, userVars, localVars, timerVars, queueVars, historyVars, loopVars
<1>7. ASSUME ~(EpollWait),
            ~(\E e \in events : Accept(e) \/ HandleNothingToWrite(e)),
            ~WriteStep,
            ~(\E t \in Threads : CloseShut(t)),
            ~(\E w \in Workers : RearmOneShot(w))
      PROVE  KernelTypeOK'
  <2>1. UNCHANGED kernelVars
    BY <1>h, <1>7, ZenonT(30) DEF Next, ReactorStep, Handle, Close, Teardown, WorkerStep, Threads, Send,
      kernelVars, userVars, localVars, timerVars, queueVars, historyVars, loopVars, HangUp,
      Elapse, clientVars, AlarmFires, Terminate, AcceptFails, Takes, HandleHup, CloseThen,
      Goto, HandleRead, AdjustTimer, Pool!Post, HandleReadFails, DelTimer, Drain, HandleWrite,
      HandleSignal, AcceptInit, EndOfBatch, LoopOrStop, TickExpires, TickPops, TickEnds,
      DeleteUsers, DeletePool, Pool!Cancel, JoinThenDestroyEngines, CloseCheck, Return,
      Working, Pool!Finish, CloseClear, CloseCount, Start, Pool!Dispatch, Parse, Command,
      Leave, Pool!Leave
  <2> QED
    BY <1>h, <2>1 DEF KernelTypeOK, kernelVars
<1> QED
  BY <1>1, <1>2, <1>3, <1>4, <1>5, <1>6, <1>7

(* Types of the clients. *)
LEMMA ClientTypes ==
    ASSUME Inductive, Next
    PROVE  ClientTypeOK'
<1>h. KernelTypeOK /\ ClientTypeOK /\ UserTypeOK /\ LoopTypeOK /\ InOrder /\ ThreadsOK
  BY DEF Inductive, TypeOK
<1>1. ASSUME NEW c \in Conns, NEW k \in Kinds, Send(c, k) PROVE ClientTypeOK'
  <2>1. /\ peer' = [peer EXCEPT ![c] = IF k = "part" THEN "part" ELSE "wait"]
        /\ inbuf' = [inbuf EXCEPT ![c] = k] /\ sends' = sends + 1 /\ sends < MaxSends
        /\ UNCHANGED full
    BY <1>1 DEF Send, kernelVars, userVars, localVars, timerVars, queueVars, historyVars,
      loopVars
  <2> QED
    BY <1>h, <2>1, BoundsAssumption DEF ClientTypeOK
<1>2. ASSUME NEW c \in Conns, HangUp(c) \/ Drain(c) PROVE ClientTypeOK'
  BY <1>h, <1>2 DEF ClientTypeOK, HangUp, Drain, kernelVars, userVars, localVars, timerVars,
    queueVars, historyVars, loopVars
<1>3. ASSUME NEW e \in events, AcceptFails(e) PROVE ClientTypeOK'
  BY <1>h, <1>3 DEF ClientTypeOK, AcceptFails, Takes, kernelVars, userVars, localVars,
    timerVars, queueVars, historyVars
<1>4. ASSUME NEW e \in events, Accept(e) PROVE ClientTypeOK'
  BY <1>h, <1>4 DEF ClientTypeOK, Accept, Takes, Goto, timerVars, queueVars
<1>5. ASSUME NEW e \in events, HandleRead(e) PROVE ClientTypeOK'
  BY <1>h, <1>5 DEF ClientTypeOK, HandleRead, Takes, AdjustTimer, Pool!Post, kernelVars,
    localVars, historyVars
<1>6. ASSUME WriteStep PROVE ClientTypeOK'
  <2>1. full' \subseteq Conns
    <3>1. full' = full \/ (Valid(obj) /\ full' = full \cup {sock[obj]})
      BY <1>6 DEF WriteStep, WritePart, WriteRest, WriteBlocks, WriteFails, clientVars
    <3>2. Valid(obj) => sock[obj] \in Conns
      BY <1>h, <1>6, WriteTurn DEF Valid, KernelTypeOK, ThreadsOK, Conns
    <3> QED
      BY <1>h, <3>1, <3>2 DEF ClientTypeOK
  <2> QED
    BY <1>h, <1>6, <2>1, WriteTurn DEF ClientTypeOK
<1>7. ASSUME NEW t \in Threads, CloseShut(t) PROVE ClientTypeOK'
  <2>1. \/ UNCHANGED <<peer, inbuf>>
        \/ /\ peer' = [c \in Conns |-> IF c = sock[Working(t)] THEN "gone" ELSE peer[c]]
           /\ inbuf' = [c \in Conns |-> IF c = sock[Working(t)] THEN "none" ELSE inbuf[c]]
    BY <1>7 DEF CloseShut
  <2>2. UNCHANGED <<sends, full>>
    BY <1>7 DEF CloseShut
  <2> QED
    BY <1>h, <2>1, <2>2 DEF ClientTypeOK
<1>8. ASSUME ~(\E c \in Conns, k \in Kinds : Send(c, k)),
            ~(\E c \in Conns : HangUp(c) \/ Drain(c)),
            ~(\E e \in events : AcceptFails(e) \/ Accept(e) \/ HandleRead(e)),
            ~WriteStep,
            ~(\E t \in Threads : CloseShut(t))
      PROVE  ClientTypeOK'
  <2>1. UNCHANGED clientVars
    BY <1>h, <1>8 DEF Next, ReactorStep, Handle, Close, Teardown, WorkerStep, Threads,
      Elapse, kernelVars, clientVars, userVars, localVars, queueVars, historyVars, loopVars,
      AlarmFires, timerVars, Terminate, EpollWait, Goto, HandleHup, Takes, CloseThen,
      HandleReadFails, DelTimer, HandleNothingToWrite, Rearm, HandleWrite,
      HandleSignal, AcceptInit, EndOfBatch, LoopOrStop, TickExpires, TickPops, TickEnds,
      DeleteUsers, DeletePool, Pool!Cancel, JoinThenDestroyEngines, CloseCheck, Return,
      Working, Pool!Finish, CloseClear, CloseCount, Start, Pool!Dispatch, Parse, Command,
      RearmOneShot, Leave, Pool!Leave
  <2> QED
    BY <1>h, <2>1 DEF ClientTypeOK, clientVars
<1> QED
  BY <1>1, <1>2, <1>3, <1>4, <1>5, <1>6, <1>7, <1>8

(* Types of the objects. *)
LEMMA UserTypes ==
    ASSUME Inductive, Next
    PROVE  UserTypeOK'
<1>h. KernelTypeOK /\ ClientTypeOK /\ UserTypeOK /\ ThreadTypeOK /\ LoopTypeOK /\ PoolTypeOK /\
  ThreadsOK
  BY DEF Inductive, TypeOK
<1>b. Nothing \in Data /\ NoReply \in Replies
  BY BoundsAssumption, AnswerAssumption DEF Nothing, NoReply, Data, Replies
<1>1. ASSUME NEW e \in events, Accept(e) PROVE UserTypeOK'
  <2>1. m_sockfd' = [m_sockfd EXCEPT ![LowestFree] = LowestFree] /\ LowestFree \in FDs
        /\ UNCHANGED <<buf, reply, m_user_count>>
    BY <1>1, LowestFreeIsFree DEF Accept, Takes, Goto, timerVars, queueVars
  <2> QED
    BY <1>h, <2>1 DEF UserTypeOK
<1>2. ASSUME AcceptInit PROVE UserTypeOK'
  <2>1. /\ buf' = [buf EXCEPT ![obj] = Nothing] /\ reply' = [reply EXCEPT ![obj] = NoReply]
        /\ m_user_count' = cnt[Main] + 1 /\ UNCHANGED m_sockfd
    BY <1>2 DEF AcceptInit
  <2>2. cnt[Main] + 1 \in Int
    BY <1>h DEF ThreadTypeOK, Threads
  <2> QED
    BY <1>h, <1>b, <2>1, <2>2 DEF UserTypeOK
<1>3. ASSUME NEW e \in events, HandleRead(e) PROVE UserTypeOK'
  <2>1. /\ buf' = buf \/ buf' = [buf EXCEPT ![e.fd] = [conn |-> sock[e.fd], data |-> inbuf[sock[e.fd]]]]
        /\ UNCHANGED <<m_sockfd, reply, m_user_count>>
    BY <1>3 DEF HandleRead
  <2>2. e.fd \in FDs /\ sock[e.fd] \in Conns
    BY <1>h, <1>3 DEF HandleRead, Takes, LoopTypeOK, Events, Alive, Valid, KernelTypeOK, Conns
  <2>3. [conn |-> sock[e.fd], data |-> inbuf[sock[e.fd]]] \in Data
    BY <1>h, <2>2 DEF ClientTypeOK, Data, Conns
  <2> QED
    BY <1>h, <2>1, <2>3 DEF UserTypeOK
<1>4. ASSUME NEW e \in events, HandleNothingToWrite(e) PROVE UserTypeOK'
  <2>1. buf' = [buf EXCEPT ![e.fd] = Nothing] /\ UNCHANGED <<m_sockfd, reply, m_user_count>>
    BY <1>4 DEF HandleNothingToWrite, Takes, Rearm, clientVars, localVars, timerVars,
      queueVars, historyVars
  <2> QED
    BY <1>h, <2>1, <1>b DEF UserTypeOK
<1>5. ASSUME WriteStep PROVE UserTypeOK'
  <2>0. obj \in FDs /\ UNCHANGED <<m_sockfd, m_user_count>>
    BY <1>h, <1>5, WriteTurn DEF ThreadsOK
  <2>1. ASSUME NEW n \in 1..AnswerSize, WritePart(n) PROVE UserTypeOK'
    <3> DEFINE r == reply[obj]
    <3>1. /\ UNCHANGED buf /\ n <= r.iov /\ n < r.left
          /\ reply' = [reply EXCEPT ![obj] =
                [r EXCEPT !.have = r.have + n, !.left = r.left - n,
                          !.iov = IF r.have + n >= r.iov THEN 0 ELSE r.iov - n]]
      BY <2>1 DEF WritePart
    <3>2. /\ r \in Replies /\ r.have \in Nat /\ r.left \in 0..AnswerSize
          /\ r.iov \in 0..AnswerSize
      BY <1>h, <2>0 DEF UserTypeOK, Replies
    <3>3. /\ r.have + n \in Nat /\ r.left - n \in 0..AnswerSize
          /\ (IF r.have + n >= r.iov THEN 0 ELSE r.iov - n) \in 0..AnswerSize
      BY <3>1, <3>2, AnswerAssumption
    <3> HIDE DEF r
    <3>4. [r EXCEPT !.have = r.have + n, !.left = r.left - n,
                    !.iov = IF r.have + n >= r.iov THEN 0 ELSE r.iov - n] \in Replies
      BY <3>2, <3>3 DEF Replies
    <3> QED
      BY <1>h, <2>0, <3>1, <3>4 DEF UserTypeOK
  <2>2. ASSUME WriteRest \/ WriteBlocks \/ WriteFails PROVE UserTypeOK'
    <3>1. /\ buf' = buf \/ buf' = [buf EXCEPT ![obj] = Nothing]
          /\ reply' = reply \/ reply' = [reply EXCEPT ![obj] = NoReply]
      BY <2>2 DEF WriteRest, WriteBlocks, WriteFails, userVars
    <3> QED
      BY <1>h, <1>b, <2>0, <3>1 DEF UserTypeOK
  <2> QED
    BY <1>5, <2>1, <2>2 DEF WriteStep
<1>6. ASSUME NEW t \in Threads, CloseClear(t) PROVE UserTypeOK'
  <2>1. m_sockfd' = [m_sockfd EXCEPT ![Working(t)] = NoFD] /\ UNCHANGED <<buf, reply, m_user_count>>
    BY <1>6 DEF CloseClear, Goto, Working, kernelVars, clientVars, timerVars, queueVars,
      loopVars
  <2> QED
    BY <1>h, <2>1 DEF UserTypeOK
<1>7. ASSUME NEW t \in Threads, CloseCount(t) PROVE UserTypeOK'
  <2>1. m_user_count' = cnt[t] - 1 /\ UNCHANGED <<m_sockfd, buf, reply>>
    BY <1>7 DEF CloseCount, Return, Goto, Pool!Finish, kernelVars, clientVars, userVars,
      timerVars, queueVars, historyVars, loopVars
  <2> QED
    BY <1>h, <2>1 DEF UserTypeOK, ThreadTypeOK
<1>8. ASSUME NEW w \in Workers, Command(w) PROVE UserTypeOK'
  <2>1. /\ \/ UNCHANGED reply
           \/ reply' = [reply EXCEPT ![running[w]] =
                           [conn |-> req[w].conn, keep |-> req[w].data = "keep",
                            have |-> reply[running[w]].have, left |-> AnswerSize,
                            iov |-> AnswerSize]]
        /\ UNCHANGED <<m_sockfd, buf, m_user_count>>
    BY <1>8 DEF Command
  <2>2. req[w].conn \in 0..MaxConns /\ reply[running[w]].have \in Nat
    BY <1>h, <1>8, FDsAssumption DEF Command, ThreadsOK, PoolTypeOK, UserTypeOK, ThreadTypeOK, Data,
      Replies
  <2>3. [conn |-> req[w].conn, keep |-> req[w].data = "keep", have |-> reply[running[w]].have,
         left |-> AnswerSize, iov |-> AnswerSize] \in Replies
    BY <2>2, AnswerAssumption DEF Replies
  <2> QED
    BY <1>h, <2>1, <2>3 DEF UserTypeOK
<1>9. ASSUME ~(AcceptInit),
            ~(\E e \in events : Accept(e) \/ HandleRead(e) \/ HandleNothingToWrite(e)),
            ~WriteStep,
            ~(\E t \in Threads : CloseClear(t) \/ CloseCount(t)),
            ~(\E w \in Workers : Command(w))
      PROVE  UserTypeOK'
  <2>1. UNCHANGED <<m_sockfd, buf, reply, m_user_count>>
    BY <1>h, <1>9 DEF Next, ReactorStep, Handle, Close, Teardown, WorkerStep, Threads,
      userVars, Send, kernelVars, localVars, timerVars, queueVars, historyVars, loopVars,
      HangUp, Elapse, clientVars, AlarmFires, Terminate, EpollWait, Goto, AcceptFails,
      Takes, HandleHup, CloseThen, HandleReadFails, DelTimer, Drain, HandleWrite,
      HandleSignal, EndOfBatch, LoopOrStop, TickExpires, TickPops, TickEnds, DeleteUsers,
      DeletePool, Pool!Cancel, JoinThenDestroyEngines, CloseCheck, Return, Working,
      Pool!Finish, CloseShut, Start, Pool!Dispatch, Parse, RearmOneShot, Rearm, Leave,
      Pool!Leave
  <2> QED
    BY <1>h, <2>1 DEF UserTypeOK
<1> QED
  BY <1>1, <1>2, <1>3, <1>4, <1>5, <1>6, <1>7, <1>8, <1>9

(* Unlinking a timer: what is left was there, everything else is left, and  *)
(* the expired ones are still a prefix.                                     *)
LEMMA WithoutTimer ==
    ASSUME TimerTypeOK, NEW t
    PROVE  /\ Without(t) \in Seq(Conns)
           /\ \A i \in DOMAIN Without(t) : \E j \in DOMAIN timers : Without(t)[i] = timers[j]
           /\ \A j \in DOMAIN timers :
                 timers[j] # t => \E i \in DOMAIN Without(t) : Without(t)[i] = timers[j]
           /\ DueWithout(t) \in 0..Len(Without(t))
<1>h. timers \in Seq(Conns) /\ Len(timers) \in Nat /\ DOMAIN timers = 1..Len(timers) /\ due \in 0..Len(timers)
  BY LenProperties DEF TimerTypeOK
<1>1. CASE ~Listed(t)
  <2>1. Without(t) = timers
    BY <1>1 DEF Without
  <2>2. DueWithout(t) = due
    BY <1>1, <1>h DEF DueWithout, Listed, InRange
  <2> QED
    BY <1>h, <2>1, <2>2
<1>2. CASE Listed(t)
  <2> DEFINE i == CHOOSE j \in DOMAIN timers : timers[j] = t
             a == SubSeq(timers, 1, i - 1)
             b == SubSeq(timers, i + 1, Len(timers))
  <2>1. i \in 1..Len(timers) /\ timers[i] = t
    BY <1>2, <1>h DEF Listed, InRange
  <2>2. Without(t) = a \o b
    BY <1>2 DEF Without
  <2>3. /\ a \in Seq(Conns) /\ Len(a) = i - 1
        /\ \A k \in 1..(i - 1) : a[k] = timers[k]
    BY <1>h, <2>1, ElementOfSeq, SubSeqProperties
  <2>4. /\ b \in Seq(Conns) /\ Len(b) = Len(timers) - i
        /\ \A k \in 1..(Len(timers) - i) : b[k] = timers[i + k]
    BY <1>h, <2>1, ElementOfSeq, SubSeqProperties, SMTT(30)
  <2> HIDE DEF a, b, i
  <2>5. /\ a \o b \in Seq(Conns) /\ Len(a \o b) = Len(timers) - 1
        /\ \A k \in 1..(Len(timers) - 1) :
              (a \o b)[k] = IF k <= i - 1 THEN timers[k] ELSE timers[k + 1]
    <3>1. /\ a \o b \in Seq(Conns) /\ Len(a \o b) = Len(a) + Len(b)
          /\ \A k \in 1..(Len(a) + Len(b)) :
                (a \o b)[k] = IF k <= Len(a) THEN a[k] ELSE b[k - Len(a)]
      BY <2>3, <2>4, ConcatProperties
    <3>2. Len(a) + Len(b) = Len(timers) - 1
      BY <1>h, <2>1, <2>3, <2>4
    <3>3. ASSUME NEW k \in 1..(Len(timers) - 1), k <= i - 1 PROVE (a \o b)[k] = timers[k]
      BY <1>h, <2>1, <2>3, <3>1, <3>2, <3>3
    <3>4. ASSUME NEW k \in 1..(Len(timers) - 1), ~(k <= i - 1)
          PROVE  (a \o b)[k] = timers[k + 1]
      <4>1. k - (i - 1) \in 1..(Len(timers) - i) /\ i + (k - (i - 1)) = k + 1
        BY <1>h, <2>1, <3>4
      <4>2. (a \o b)[k] = b[k - (i - 1)]
        BY <2>3, <3>1, <3>2, <3>4
      <4> QED
        BY <2>4, <4>1, <4>2
    <3> QED
      BY <3>1, <3>2, <3>3, <3>4
  <2>6. DOMAIN Without(t) = 1..(Len(timers) - 1)
    BY <2>2, <2>5, LenProperties
  <2>7. ASSUME NEW k \in DOMAIN Without(t)
        PROVE  \E j \in DOMAIN timers : Without(t)[k] = timers[j]
    <3>1. k \in 1..(Len(timers) - 1) /\ k \in DOMAIN timers /\ k + 1 \in DOMAIN timers
      BY <1>h, <2>6, <2>7
    <3> QED
      BY <2>2, <2>5, <3>1
  <2>8. ASSUME NEW j \in DOMAIN timers, timers[j] # t
        PROVE  \E k \in DOMAIN Without(t) : Without(t)[k] = timers[j]
    <3>1. CASE j < i
      <4>1. j \in 1..(Len(timers) - 1) /\ j <= i - 1
        BY <1>h, <2>1, <3>1
      <4> QED
        BY <2>2, <2>5, <2>6, <4>1
    <3>2. CASE j > i
      <4>1. j - 1 \in 1..(Len(timers) - 1) /\ ~(j - 1 <= i - 1) /\ (j - 1) + 1 = j
        BY <1>h, <2>1, <3>2
      <4> QED
        BY <2>2, <2>5, <2>6, <4>1
    <3> QED
      BY <1>h, <2>1, <2>8, <3>1, <3>2
  <2>9. DueWithout(t) \in 0..Len(Without(t))
    <3>1. CASE \E k \in 1..due : timers[k] = t
      <4>1. DueWithout(t) = due - 1 /\ due > 0
        BY <1>h, <3>1 DEF DueWithout
      <4> QED
        BY <1>h, <2>1, <2>2, <2>5, <4>1
    <3>2. CASE ~\E k \in 1..due : timers[k] = t
      <4>1. ~(i <= due)
        BY <1>h, <2>1, <3>2
      <4>2. DueWithout(t) = due
        BY <1>h, <3>2, SMT DEF DueWithout
      <4> QED
        BY <1>h, <2>1, <2>2, <2>5, <4>1, <4>2
    <3> QED
      BY <3>1, <3>2
  <2> QED
    BY <2>2, <2>5, <2>7, <2>8, <2>9
<1> QED
  BY <1>1, <1>2

(* Pushing a timer back only reorders the list. *)
LEMMA AdjustedTimers ==
    ASSUME TimerTypeOK, NEW t, AdjustTimer(t)
    PROVE  /\ TimerTypeOK'
           /\ \A i \in DOMAIN timers' : \E j \in DOMAIN timers : timers'[i] = timers[j]
           /\ \A j \in DOMAIN timers : \E i \in DOMAIN timers' : timers'[i] = timers[j]
<1>h. timers \in Seq(Conns) /\ Len(timers) \in Nat /\ DOMAIN timers = 1..Len(timers) /\ due \in 0..Len(timers)
  BY LenProperties DEF TimerTypeOK
<1>1. CASE ~Listed(t)
  <2>1. timers' = timers
    BY <1>1 DEF AdjustTimer
  <2>2. due' = due
    BY <1>1, <1>h DEF AdjustTimer, DueWithout, Listed, InRange
  <2> QED
    BY <1>h, <2>1, <2>2 DEF TimerTypeOK, AdjustTimer
<1>2. CASE Listed(t)
  <2> DEFINE s == Without(t)
  <2>1. PICK k \in DOMAIN timers : timers[k] = t
    BY <1>2 DEF Listed, InRange
  <2>2. t \in Conns
    BY <1>h, <2>1, ElementOfSeq
  <2>3. timers' = Append(s, t) /\ due' = DueWithout(t) /\ UNCHANGED <<timer, where>>
    BY <1>2 DEF AdjustTimer
  <2>4. /\ s \in Seq(Conns) /\ DueWithout(t) \in 0..Len(s)
        /\ \A i \in DOMAIN s : \E j \in DOMAIN timers : s[i] = timers[j]
        /\ \A j \in DOMAIN timers : timers[j] # t => \E i \in DOMAIN s : s[i] = timers[j]
    BY WithoutTimer
  <2> HIDE DEF s
  <2>5. /\ Append(s, t) \in Seq(Conns) /\ Len(Append(s, t)) = Len(s) + 1 /\ Len(s) \in Nat
        /\ DOMAIN s = 1..Len(s) /\ DOMAIN Append(s, t) = 1..(Len(s) + 1)
        /\ \A i \in 1..Len(s) : Append(s, t)[i] = s[i]
        /\ Append(s, t)[Len(s) + 1] = t
    BY <2>2, <2>4, AppendProperties, LenProperties
  <2>6. TimerTypeOK'
    BY <2>3, <2>4, <2>5 DEF TimerTypeOK
  <2>7. ASSUME NEW i \in DOMAIN timers'
        PROVE  \E j \in DOMAIN timers : timers'[i] = timers[j]
    BY <2>1, <2>3, <2>4, <2>5, <2>7
  <2>8. ASSUME NEW j \in DOMAIN timers
        PROVE  \E i \in DOMAIN timers' : timers'[i] = timers[j]
    BY <2>3, <2>4, <2>5, <2>8
  <2> QED
    BY <2>6, <2>7, <2>8
<1> QED
  BY <1>1, <1>2

(* Types of the timers. *)
LEMMA TimerTypes ==
    ASSUME Inductive, Next
    PROVE  TimerTypeOK'
<1>h. TimerTypeOK /\ LoopTypeOK /\ KernelTypeOK /\ ClientTypeOK /\ InOrder /\ TimersOK /\
  ThreadsOK
  BY DEF Inductive, TypeOK
<1>1. ASSUME Elapse PROVE TimerTypeOK'
  BY <1>h, <1>1 DEF TimerTypeOK, Elapse, kernelVars, clientVars, userVars, localVars,
    queueVars, historyVars, loopVars
<1>2. ASSUME AcceptInit PROVE TimerTypeOK'
  <2>1. Accepted \in Conns
    BY <1>h, <1>2, AcceptedConns, BoundsAssumption DEF AcceptInit, InOrder, Conns
  <2>2. /\ timers' = Append(timers, Accepted) /\ UNCHANGED due
        /\ timer' = [timer EXCEPT ![obj] = Accepted] /\ where' = [where EXCEPT ![Accepted] = obj]
    BY <1>2 DEF AcceptInit
  <2>3. timers' \in Seq(Conns) /\ due' \in 0..Len(timers')
    BY <1>h, <2>1, <2>2, AppendProperties, LenProperties DEF TimerTypeOK
  <2>4. timer' \in [FDs -> 0..MaxConns] /\ where' \in [Conns -> FDs \cup {NoFD}]
    <3>1. Accepted \in 0..MaxConns /\ Accepted \in Conns /\ obj \in FDs \cup {NoFD}
      BY <1>h, <2>1, BoundsAssumption DEF LoopTypeOK, Conns
    <3>2. timer' \in [FDs -> 0..MaxConns]
      BY <1>h, <2>2, <3>1 DEF TimerTypeOK
    <3>3. where' \in [Conns -> FDs \cup {NoFD}]
      BY <1>h, <2>2, <3>1 DEF TimerTypeOK
    <3> QED
      BY <3>2, <3>3
  <2> QED
    BY <2>3, <2>4 DEF TimerTypeOK
<1>3. ASSUME NEW e \in events, HandleRead(e) PROVE TimerTypeOK'
  BY <1>h, <1>3, AdjustedTimers DEF HandleRead
<1>4. ASSUME NEW e \in events, HandleReadFails(e) PROVE TimerTypeOK'
  BY <1>h, <1>4, WithoutTimer DEF HandleReadFails, DelTimer, TimerTypeOK
<1>5. ASSUME TickPops PROVE TimerTypeOK'
  <2>1. due > 0 /\ timers # << >>
    BY <1>h, <1>5, EmptySeq DEF TickPops, TimersOK, Popping, TimerTypeOK
  <2>2. timers' \in Seq(Conns) /\ Len(timers') = Len(timers) - 1
    BY <1>h, <1>5, <2>1, HeadTailProperties DEF TickPops, TimerTypeOK
  <2> QED
    BY <1>h, <1>5, <2>1, <2>2 DEF TickPops, TimerTypeOK
<1>w. ASSUME WriteStep PROVE TimerTypeOK'
  BY <1>h, <1>w, WriteTurn DEF TimerTypeOK
<1>6. ASSUME ~(Elapse),
            ~WriteStep,
            ~(AcceptInit),
            ~(TickPops),
            ~(\E e \in events : HandleRead(e) \/ HandleReadFails(e))
      PROVE  TimerTypeOK'
  <2>1. UNCHANGED timerVars
    BY <1>h, <1>6, ZenonT(30) DEF Next, ReactorStep, Handle, Close, Teardown, WorkerStep, Threads, Send,
      kernelVars, userVars, localVars, timerVars, queueVars, historyVars, loopVars, HangUp,
      AlarmFires, clientVars, Terminate, EpollWait, Goto, AcceptFails, Takes, Accept,
      HandleHup, CloseThen, HandleNothingToWrite, Rearm, HandleWrite, Drain,
      HandleSignal, EndOfBatch, LoopOrStop, TickExpires, TickEnds, DeleteUsers, DeletePool,
      Pool!Cancel, JoinThenDestroyEngines, CloseCheck, Return, Working, Pool!Finish,
      CloseShut, CloseClear, CloseCount, Start, Pool!Dispatch, Parse, Command, RearmOneShot,
      Leave, Pool!Leave
  <2> QED
    BY <1>h, <2>1 DEF TimerTypeOK, timerVars
<1> QED
  BY <1>1, <1>2, <1>3, <1>4, <1>5, <1>6, <1>w

(* Types of the reactor thread's variables. *)
LEMMA LoopTypes ==
    ASSUME Inductive, Next
    PROVE  LoopTypeOK'
<1>h. LoopTypeOK /\ TimerTypeOK /\ TimersOK /\ KernelTypeOK
  BY DEF Inductive, TypeOK
<1>1. ASSUME AlarmFires PROVE LoopTypeOK'
  BY <1>h, <1>1 DEF LoopTypeOK, AlarmFires, kernelVars, clientVars, userVars, localVars,
    timerVars, queueVars, historyVars
<1>2. ASSUME Terminate PROVE LoopTypeOK'
  BY <1>h, <1>2 DEF LoopTypeOK, Terminate, kernelVars, clientVars, userVars, localVars,
    timerVars, queueVars, historyVars
<1>3. ASSUME EpollWait PROVE LoopTypeOK'
  <2>1. PICK listen \in {{}, {[fd |-> 0, kind |-> "listen"]}} : events' = Ready \cup listen
    BY <1>3 DEF EpollWait
  <2>2. Ready \subseteq Events
    BY DEF Ready, Event, Events
  <2>3. events' \subseteq Events
    BY <2>1, <2>2 DEF Events
  <2> QED
    BY <1>h, <1>3, <2>3 DEF EpollWait, LoopTypeOK
<1>4. ASSUME NEW e \in events, AcceptFails(e) PROVE LoopTypeOK'
  BY <1>h, <1>4 DEF LoopTypeOK, AcceptFails, Takes, kernelVars, userVars, localVars,
    timerVars, queueVars, historyVars
<1>5. ASSUME NEW e \in events, Accept(e) PROVE LoopTypeOK'
  <2>1. events' = events \ {e} /\ obj' = LowestFree /\ LowestFree \in FDs /\ UNCHANGED <<alarm, term, ret>>
    BY <1>5, LowestFreeIsFree DEF Accept, Takes, Goto, timerVars, queueVars
  <2> QED
    BY <1>h, <2>1 DEF LoopTypeOK
<1>6. ASSUME NEW e \in events, HandleHup(e) PROVE LoopTypeOK'
  <2>1. /\ events' = events \ {e} /\ obj' = e.fd /\ ret' = "loop"
        /\ e.fd \in FDs /\ UNCHANGED <<alarm, term>>
    BY <1>6, <1>h DEF HandleHup, Takes, CloseThen, Goto, kernelVars, clientVars, userVars,
      localVars, timerVars, queueVars, historyVars, LoopTypeOK, Events
  <2> QED
    BY <1>h, <2>1 DEF LoopTypeOK
<1>7. ASSUME NEW e \in events, HandleRead(e) PROVE LoopTypeOK'
  BY <1>h, <1>7 DEF LoopTypeOK, HandleRead, Takes, AdjustTimer, Pool!Post, kernelVars,
    localVars, historyVars
<1>8. ASSUME NEW e \in events, HandleReadFails(e) PROVE LoopTypeOK'
  <2>1. /\ events' = events \ {e} /\ obj' = e.fd /\ ret' = "loop"
        /\ e.fd \in FDs /\ UNCHANGED <<alarm, term>>
    BY <1>8, <1>h DEF HandleReadFails, Takes, CloseThen, DelTimer, Goto, kernelVars,
      clientVars, userVars, localVars, queueVars, historyVars, LoopTypeOK, Events
  <2> QED
    BY <1>h, <2>1 DEF LoopTypeOK
<1>9. ASSUME NEW e \in events, HandleNothingToWrite(e) PROVE LoopTypeOK'
  BY <1>h, <1>9 DEF LoopTypeOK, HandleNothingToWrite, Takes, Rearm, clientVars, localVars,
    timerVars, queueVars, historyVars
<1>10. ASSUME NEW e \in events, HandleWrite(e) PROVE LoopTypeOK'
  <2>1. events' = events \ {e} /\ obj' = e.fd /\ e.fd \in FDs /\ UNCHANGED <<alarm, term, ret>>
    BY <1>10, <1>h DEF HandleWrite, Takes, LoopTypeOK, Events
  <2> QED
    BY <1>h, <2>1 DEF LoopTypeOK
<1>11. ASSUME WriteStep PROVE LoopTypeOK'
  BY <1>h, <1>11, WriteTurn DEF LoopTypeOK
<1>12. ASSUME NEW e \in events, HandleSignal(e) PROVE LoopTypeOK'
  BY <1>h, <1>12 DEF LoopTypeOK, HandleSignal, Takes, kernelVars, clientVars, userVars,
    localVars, timerVars, queueVars, historyVars
<1>13. ASSUME TickExpires PROVE LoopTypeOK'
  <2>1. obj' = where[Head(timers)] /\ ret' = "pop" /\ UNCHANGED <<alarm, term, events>>
    BY <1>13 DEF TickExpires, CloseThen
  <2>2. timers # << >> /\ 1 \in DOMAIN timers /\ Head(timers) = timers[1]
    BY <1>h, <1>13, LenProperties, HeadTailProperties DEF TickExpires, TimerTypeOK
  <2>3. where[Head(timers)] \in FDs
    BY <1>h, <2>2 DEF TimersOK
  <2> QED
    BY <1>h, <2>1, <2>3 DEF LoopTypeOK
<1>14. ASSUME TickEnds PROVE LoopTypeOK'
  BY <1>h, <1>14 DEF LoopTypeOK, TickEnds, LoopOrStop, Goto, kernelVars, clientVars,
    userVars, localVars, timerVars, queueVars, historyVars
<1>15. ASSUME ~(AlarmFires),
            ~(Terminate),
            ~(EpollWait),
            ~(TickExpires),
            ~(TickEnds),
            ~(\E e \in events : AcceptFails(e) \/ Accept(e) \/ HandleHup(e) \/ HandleRead(e) \/ HandleReadFails(e) \/ HandleNothingToWrite(e) \/ HandleWrite(e) \/ HandleSignal(e)),
            ~WriteStep
      PROVE  LoopTypeOK'
  <2>1. UNCHANGED loopVars
    BY <1>h, <1>15 DEF Next, ReactorStep, Handle, Close, Teardown, WorkerStep, Threads,
      Send, kernelVars, userVars, localVars, timerVars, queueVars, historyVars, loopVars,
      HangUp, Drain, Elapse, clientVars, AcceptInit, Goto, EndOfBatch, LoopOrStop, TickPops,
      DeleteUsers, DeletePool, Pool!Cancel, JoinThenDestroyEngines, CloseCheck, Return,
      Working, Pool!Finish, CloseShut, CloseClear, CloseCount, Start, Pool!Dispatch, Parse,
      Command, RearmOneShot, Rearm, Leave, Pool!Leave
  <2> QED
    BY <1>h, <2>1 DEF LoopTypeOK, loopVars
<1> QED
  BY <1>1, <1>2, <1>3, <1>4, <1>5, <1>6, <1>7, <1>8, <1>9, <1>10, <1>11, <1>12, <1>13,
    <1>14, <1>15

(* Types of the threads' variables. *)
LEMMA ThreadTypes ==
    ASSUME Inductive, Next
    PROVE  ThreadTypeOK'
<1>h. ThreadTypeOK /\ LoopTypeOK /\ UserTypeOK /\ PoolTypeOK /\ ThreadsOK
  BY DEF Inductive, TypeOK
<1>b. Nothing \in Data
  BY BoundsAssumption DEF Nothing, Data
<1>1. ASSUME NEW c \in Conns, NEW k \in Kinds, Send(c, k) PROVE ThreadTypeOK'
  BY <1>h, <1>1 DEF ThreadTypeOK, LoopTypeOK, Steps, Threads, Send, kernelVars, userVars,
    localVars, timerVars, queueVars, historyVars, loopVars
<1>2. ASSUME NEW c \in Conns, HangUp(c) \/ Drain(c) PROVE ThreadTypeOK'
  BY <1>h, <1>2 DEF ThreadTypeOK, LoopTypeOK, Steps, Threads, HangUp, Drain, kernelVars, userVars,
    localVars, timerVars, queueVars, historyVars, loopVars
<1>3. ASSUME Elapse PROVE ThreadTypeOK'
  BY <1>h, <1>3 DEF ThreadTypeOK, LoopTypeOK, Steps, Threads, Elapse, kernelVars,
    clientVars, userVars, localVars, queueVars, historyVars, loopVars
<1>4. ASSUME AlarmFires PROVE ThreadTypeOK'
  BY <1>h, <1>4 DEF ThreadTypeOK, LoopTypeOK, Steps, Threads, AlarmFires, kernelVars,
    clientVars, userVars, localVars, timerVars, queueVars, historyVars
<1>5. ASSUME Terminate PROVE ThreadTypeOK'
  BY <1>h, <1>5 DEF ThreadTypeOK, LoopTypeOK, Steps, Threads, Terminate, kernelVars,
    clientVars, userVars, localVars, timerVars, queueVars, historyVars
<1>6. ASSUME EpollWait PROVE ThreadTypeOK'
  BY <1>h, <1>6 DEF ThreadTypeOK, LoopTypeOK, Steps, Threads, EpollWait, Goto, clientVars,
    userVars, localVars, timerVars, queueVars, historyVars
<1>7. ASSUME NEW e \in events, AcceptFails(e) PROVE ThreadTypeOK'
  BY <1>h, <1>7 DEF ThreadTypeOK, LoopTypeOK, Steps, Threads, AcceptFails, Takes,
    kernelVars, userVars, localVars, timerVars, queueVars, historyVars
<1>8. ASSUME NEW e \in events, Accept(e) PROVE ThreadTypeOK'
  <2>1. at' = [at EXCEPT ![Main] = "accept"] /\ cnt' = [cnt EXCEPT ![Main] = m_user_count] /\ UNCHANGED req
    BY <1>8 DEF Accept, Goto
  <2> QED
    BY <1>h, <2>1 DEF ThreadTypeOK, UserTypeOK, Steps
<1>9. ASSUME NEW e \in events, HandleHup(e) PROVE ThreadTypeOK'
  BY <1>h, <1>9 DEF ThreadTypeOK, LoopTypeOK, Steps, Threads, HandleHup, Takes, CloseThen,
    Goto, kernelVars, clientVars, userVars, localVars, timerVars, queueVars, historyVars
<1>10. ASSUME NEW e \in events, HandleRead(e) PROVE ThreadTypeOK'
  BY <1>h, <1>10 DEF ThreadTypeOK, LoopTypeOK, Steps, Threads, HandleRead, Takes,
    AdjustTimer, Pool!Post, kernelVars, localVars, historyVars
<1>11. ASSUME NEW e \in events, HandleReadFails(e) PROVE ThreadTypeOK'
  BY <1>h, <1>11 DEF ThreadTypeOK, LoopTypeOK, Steps, Threads, HandleReadFails, Takes,
    CloseThen, DelTimer, Goto, kernelVars, clientVars, userVars, localVars, queueVars,
    historyVars
<1>12. ASSUME NEW e \in events, HandleNothingToWrite(e) PROVE ThreadTypeOK'
  BY <1>h, <1>12 DEF ThreadTypeOK, LoopTypeOK, Steps, Threads, HandleNothingToWrite, Takes,
    Rearm, clientVars, localVars, timerVars, queueVars, historyVars
<1>13. ASSUME NEW e \in events, HandleWrite(e) PROVE ThreadTypeOK'
  BY <1>h, <1>13 DEF ThreadTypeOK, LoopTypeOK, Steps, Threads, HandleWrite, Takes, Goto, kernelVars, clientVars,
    userVars, localVars, timerVars, queueVars, historyVars
<1>15. ASSUME NEW e \in events, HandleSignal(e) PROVE ThreadTypeOK'
  BY <1>h, <1>15 DEF ThreadTypeOK, LoopTypeOK, Steps, Threads, HandleSignal, Takes,
    kernelVars, clientVars, userVars, localVars, timerVars, queueVars, historyVars
<1>16. ASSUME AcceptInit PROVE ThreadTypeOK'
  BY <1>h, <1>16 DEF ThreadTypeOK, LoopTypeOK, Steps, Threads, AcceptInit, Goto, kernelVars,
    clientVars, queueVars, historyVars, loopVars
<1>17. ASSUME EndOfBatch PROVE ThreadTypeOK'
  BY <1>h, <1>17 DEF ThreadTypeOK, LoopTypeOK, Steps, Threads, EndOfBatch, Goto, LoopOrStop,
    kernelVars, clientVars, userVars, localVars, timerVars, queueVars, historyVars, loopVars
<1>18. ASSUME TickExpires PROVE ThreadTypeOK'
  BY <1>h, <1>18 DEF ThreadTypeOK, LoopTypeOK, Steps, Threads, TickExpires, CloseThen, Goto,
    kernelVars, clientVars, userVars, localVars, timerVars, queueVars
<1>19. ASSUME TickPops PROVE ThreadTypeOK'
  BY <1>h, <1>19 DEF ThreadTypeOK, LoopTypeOK, Steps, Threads, TickPops, Goto, kernelVars,
    clientVars, userVars, localVars, queueVars, historyVars, loopVars
<1>20. ASSUME TickEnds PROVE ThreadTypeOK'
  BY <1>h, <1>20 DEF ThreadTypeOK, LoopTypeOK, Steps, Threads, TickEnds, LoopOrStop, Goto,
    kernelVars, clientVars, userVars, localVars, timerVars, queueVars, historyVars
<1>21. ASSUME DeleteUsers PROVE ThreadTypeOK'
  BY <1>h, <1>21 DEF ThreadTypeOK, LoopTypeOK, Steps, Threads, DeleteUsers, Goto,
    kernelVars, clientVars, userVars, localVars, timerVars, queueVars, historyVars, loopVars
<1>22. ASSUME DeletePool PROVE ThreadTypeOK'
  BY <1>h, <1>22 DEF ThreadTypeOK, LoopTypeOK, Steps, Threads, DeletePool, Goto,
    Pool!Cancel, kernelVars, clientVars, userVars, localVars, timerVars, historyVars,
    loopVars
<1>23. ASSUME JoinThenDestroyEngines PROVE ThreadTypeOK'
  BY <1>h, <1>23 DEF ThreadTypeOK, LoopTypeOK, Steps, Threads, JoinThenDestroyEngines, Goto,
    kernelVars, clientVars, userVars, localVars, timerVars, queueVars, historyVars, loopVars
<1>24. ASSUME NEW t \in Threads, CloseCheck(t) PROVE ThreadTypeOK'
  BY <1>h, <1>24 DEF ThreadTypeOK, LoopTypeOK, Steps, Threads, CloseCheck, Goto, Return,
    Working, Pool!Finish, kernelVars, clientVars, userVars, localVars, timerVars, queueVars,
    historyVars, loopVars
<1>25. ASSUME NEW t \in Threads, CloseShut(t) PROVE ThreadTypeOK'
  BY <1>h, <1>25 DEF ThreadTypeOK, LoopTypeOK, Steps, Threads, CloseShut, Goto, Working,
    kernelVars, userVars, localVars, timerVars, queueVars, historyVars, loopVars
<1>26. ASSUME NEW t \in Threads, CloseClear(t) PROVE ThreadTypeOK'
  <2>1. at' = [at EXCEPT ![t] = "count"] /\ cnt' = [cnt EXCEPT ![t] = m_user_count] /\ UNCHANGED req
    BY <1>26 DEF CloseClear, Goto
  <2> QED
    BY <1>h, <2>1 DEF ThreadTypeOK, UserTypeOK, Steps
<1>27. ASSUME NEW t \in Threads, CloseCount(t) PROVE ThreadTypeOK'
  BY <1>h, <1>27 DEF ThreadTypeOK, LoopTypeOK, Steps, Threads, CloseCount, Return, Goto,
    Pool!Finish, kernelVars, clientVars, userVars, timerVars, queueVars, historyVars,
    loopVars
<1>28. ASSUME NEW w \in Workers, Start(w) PROVE ThreadTypeOK'
  BY <1>h, <1>28 DEF ThreadTypeOK, LoopTypeOK, Steps, Threads, Start, Goto, Pool!Dispatch,
    kernelVars, clientVars, userVars, localVars, timerVars, historyVars, loopVars
<1>29. ASSUME NEW w \in Workers, Parse(w) PROVE ThreadTypeOK'
  <2>1. /\ at' = [at EXCEPT ![w] = "rearm_in"] \/ at' = [at EXCEPT ![w] = "command"]
        /\ req' = req \/ req' = [req EXCEPT ![w] = buf[running[w]]]
        /\ running[w] \in FDs /\ UNCHANGED cnt
    BY <1>h, <1>29 DEF Parse, Goto, ThreadsOK, PoolTypeOK
  <2> QED
    BY <1>h, <2>1 DEF ThreadTypeOK, UserTypeOK, Steps, Threads
<1>30. ASSUME NEW w \in Workers, Command(w) PROVE ThreadTypeOK'
  <2>1. /\ at' = [at EXCEPT ![w] = "check"] \/ at' = [at EXCEPT ![w] = "rearm_out"]
        /\ req' = [req EXCEPT ![w] = Nothing] /\ UNCHANGED cnt
    BY <1>30 DEF Command, Goto
  <2> QED
    BY <1>b, <1>h, <2>1 DEF ThreadTypeOK, Steps, Threads
<1>31. ASSUME NEW w \in Workers, RearmOneShot(w) PROVE ThreadTypeOK'
  BY <1>h, <1>31 DEF ThreadTypeOK, LoopTypeOK, Steps, Threads, RearmOneShot, Return, Rearm,
    Goto, Pool!Finish, clientVars, userVars, localVars, timerVars, queueVars, historyVars,
    loopVars
<1>32. ASSUME NEW w \in Workers, Leave(w) PROVE ThreadTypeOK'
  BY <1>h, <1>32 DEF ThreadTypeOK, LoopTypeOK, Steps, Threads, Leave, Pool!Leave,
    kernelVars, clientVars, userVars, localVars, timerVars, historyVars, loopVars
<1>w. ASSUME WriteStep PROVE ThreadTypeOK'
  BY <1>h, <1>w, WriteTurn DEF ThreadTypeOK, Steps, Threads
<1> QED
  BY <1>w, <1>1, <1>2, <1>3, <1>4, <1>5, <1>6, <1>7, <1>8, <1>9, <1>10, <1>11, <1>12, <1>13,
    <1>15, <1>16, <1>17, <1>18, <1>19, <1>20, <1>21, <1>22, <1>23, <1>24, <1>25,
    <1>26, <1>27, <1>28, <1>29, <1>30, <1>31, <1>32 DEF Next, ReactorStep, Handle, Close,
    Teardown, WorkerStep, Threads

(* Types of the pool's variables. *)
LEMMA PoolTypes ==
    ASSUME Inductive, Next
    PROVE  PoolTypeOK'
<1>h. PoolTypeOK /\ LoopTypeOK /\ ThreadsOK
  BY DEF Inductive, TypeOK
<1>1. ASSUME NEW e \in events, HandleRead(e) PROVE PoolTypeOK'
  <2>1. pending' = Append(pending, e.fd) /\ UNCHANGED <<running, gone, cancelled>> /\ e.fd \in FDs
    BY <1>h, <1>1 DEF HandleRead, Takes, Pool!Post, LoopTypeOK, Events
  <2>2. pending' \in Seq(FDs)
    BY <1>h, <2>1, AppendProperties DEF PoolTypeOK
  <2> QED
    BY <1>h, <2>1, <2>2 DEF PoolTypeOK
<1>2. ASSUME NEW w \in Workers, Start(w) PROVE PoolTypeOK'
  <2>1. /\ pending # << >> /\ pending' = Tail(pending)
        /\ running' = [running EXCEPT ![w] = Head(pending)] /\ UNCHANGED <<gone, cancelled>>
    BY <1>2 DEF Start, Pool!Dispatch
  <2>2. Head(pending) \in FDs /\ pending' \in Seq(FDs)
    BY <1>h, <2>1, HeadTailProperties DEF PoolTypeOK
  <2> QED
    BY <1>h, <2>1, <2>2 DEF PoolTypeOK
<1>3. ASSUME DeletePool PROVE PoolTypeOK'
  BY <1>h, <1>3 DEF PoolTypeOK, DeletePool, Goto, Pool!Cancel, kernelVars, clientVars,
    userVars, localVars, timerVars, historyVars, loopVars
<1>4. ASSUME NEW t \in Threads, CloseCheck(t) PROVE PoolTypeOK'
  BY <1>h, <1>4 DEF PoolTypeOK, CloseCheck, Goto, Return, Working, Pool!Finish, kernelVars,
    clientVars, userVars, localVars, timerVars, queueVars, historyVars, loopVars
<1>5. ASSUME NEW t \in Threads, CloseCount(t) PROVE PoolTypeOK'
  BY <1>h, <1>5 DEF PoolTypeOK, CloseCount, Return, Goto, Pool!Finish, kernelVars,
    clientVars, userVars, timerVars, queueVars, historyVars, loopVars
<1>6. ASSUME NEW w \in Workers, RearmOneShot(w) PROVE PoolTypeOK'
  BY <1>h, <1>6 DEF PoolTypeOK, RearmOneShot, Return, Rearm, Goto, Pool!Finish, clientVars,
    userVars, localVars, timerVars, queueVars, historyVars, loopVars
<1>7. ASSUME NEW w \in Workers, Leave(w) PROVE PoolTypeOK'
  BY <1>h, <1>7 DEF PoolTypeOK, Leave, Pool!Leave, kernelVars, clientVars, userVars,
    localVars, timerVars, historyVars, loopVars
<1>w. ASSUME WriteStep PROVE PoolTypeOK'
  BY <1>h, <1>w, WriteTurn DEF PoolTypeOK
<1>8. ASSUME ~(DeletePool),
            ~WriteStep,
            ~(\E e \in events : HandleRead(e)),
            ~(\E t \in Threads : CloseCheck(t) \/ CloseCount(t)),
            ~(\E w \in Workers : Start(w) \/ RearmOneShot(w) \/ Leave(w))
      PROVE  PoolTypeOK'
  <2>1. UNCHANGED queueVars
    BY <1>h, <1>8, ZenonT(30) DEF Next, ReactorStep, Handle, Close, Teardown, WorkerStep, Threads, Send,
      kernelVars, userVars, localVars, timerVars, queueVars, historyVars, loopVars, HangUp,
      Elapse, clientVars, AlarmFires, Terminate, EpollWait, Goto, AcceptFails, Takes,
      Accept, HandleHup, CloseThen, HandleReadFails, DelTimer, HandleNothingToWrite, Rearm,
      HandleWrite, Drain, HandleSignal, AcceptInit, EndOfBatch, LoopOrStop,
      TickExpires, TickPops, TickEnds, DeleteUsers, JoinThenDestroyEngines, CloseShut,
      Working, CloseClear, Parse, Command
  <2> QED
    BY <1>h, <2>1 DEF PoolTypeOK, queueVars
<1> QED
  BY <1>1, <1>2, <1>3, <1>4, <1>5, <1>6, <1>7, <1>8, <1>w

(* Types of the history variables. *)
LEMMA HistoryTypes ==
    ASSUME Inductive, Next
    PROVE  HistoryTypeOK'
<1>h. HistoryTypeOK
  BY DEF Inductive, TypeOK
<1>1. ASSUME NEW e \in events, Accept(e) PROVE HistoryTypeOK'
  BY <1>h, <1>1 DEF HistoryTypeOK, Accept, Takes, Goto, timerVars, queueVars
<1>2. ASSUME WriteStep PROVE HistoryTypeOK'
  <2>1. wrong' \in BOOLEAN
    BY <1>h, <1>2 DEF HistoryTypeOK, WriteStep, WritePart, WriteRest, WriteBlocks, WriteFails,
      historyVars
  <2> QED
    BY <1>h, <1>2, <2>1, WriteTurn DEF HistoryTypeOK
<1>3. ASSUME TickExpires PROVE HistoryTypeOK'
  BY <1>h, <1>3 DEF HistoryTypeOK, TickExpires, CloseThen, Goto, kernelVars, clientVars,
    userVars, localVars, timerVars, queueVars
<1>4. ASSUME NEW t \in Threads, CloseClear(t) PROVE HistoryTypeOK'
  BY <1>h, <1>4 DEF HistoryTypeOK, CloseClear, Goto, Working, kernelVars, clientVars,
    timerVars, queueVars, loopVars
<1>5. ASSUME ~(TickExpires),
            ~(\E e \in events : Accept(e)),
            ~WriteStep,
            ~(\E t \in Threads : CloseClear(t))
      PROVE  HistoryTypeOK'
  <2>1. UNCHANGED historyVars
    BY <1>h, <1>5, ZenonT(30) DEF Next, ReactorStep, Handle, Close, Teardown, WorkerStep, Threads, Send,
      kernelVars, userVars, localVars, timerVars, queueVars, historyVars, loopVars, HangUp,
      Elapse, clientVars, AlarmFires, Terminate, EpollWait, Goto, AcceptFails, Takes,
      HandleHup, CloseThen, HandleRead, AdjustTimer, Pool!Post, HandleReadFails, DelTimer,
      HandleNothingToWrite, Rearm, HandleWrite, Drain, HandleSignal, AcceptInit, EndOfBatch,
      LoopOrStop, TickPops, TickEnds, DeleteUsers, DeletePool, Pool!Cancel,
      JoinThenDestroyEngines, CloseCheck, Return, Working, Pool!Finish, CloseShut,
      CloseCount, Start, Pool!Dispatch, Parse, Command, RearmOneShot, Leave, Pool!Leave
  <2> QED
    BY <1>h, <2>1 DEF HistoryTypeOK, historyVars
<1> QED
  BY <1>1, <1>2, <1>3, <1>4, <1>5

-----------------------------------------------------------------------------
(* A worker that is not idle has a task, a closing reactor thread a descriptor. *)
LEMMA ThreadsKeep ==
    ASSUME Inductive, Next
    PROVE  ThreadsOK'
<1>h. ThreadsOK /\ ThreadTypeOK /\ PoolTypeOK /\ LoopTypeOK /\ TimersOK /\ TimerTypeOK
  BY DEF Inductive, TypeOK
<1>1. ASSUME NEW c \in Conns, NEW k \in Kinds, Send(c, k) PROVE ThreadsOK'
  BY <1>h, <1>1 DEF ThreadsOK, ThreadTypeOK, PoolTypeOK, LoopTypeOK, Events, Threads,
    MainSteps, WorkerSteps, Closing, Send, kernelVars, userVars, localVars, timerVars,
    queueVars, historyVars, loopVars
<1>2. ASSUME NEW c \in Conns, HangUp(c) \/ Drain(c) PROVE ThreadsOK'
  BY <1>h, <1>2 DEF ThreadsOK, ThreadTypeOK, PoolTypeOK, LoopTypeOK, Events, Threads,
    MainSteps, WorkerSteps, Closing, HangUp, Drain, kernelVars, userVars, localVars, timerVars,
    queueVars, historyVars, loopVars
<1>3. ASSUME Elapse \/ AlarmFires \/ Terminate PROVE ThreadsOK'
  BY <1>h, <1>3 DEF ThreadsOK, ThreadTypeOK, PoolTypeOK, LoopTypeOK, Events, Threads,
    MainSteps, WorkerSteps, Closing, Elapse, kernelVars, clientVars, userVars, localVars,
    queueVars, historyVars, loopVars, AlarmFires, timerVars, Terminate
<1>4. ASSUME EpollWait PROVE ThreadsOK'
  BY <1>h, <1>4 DEF ThreadsOK, ThreadTypeOK, PoolTypeOK, LoopTypeOK, Events, Threads,
    MainSteps, WorkerSteps, Closing, EpollWait, Goto, clientVars, userVars, localVars,
    timerVars, queueVars, historyVars
<1>5. ASSUME NEW e \in events, AcceptFails(e) \/ HandleSignal(e) PROVE ThreadsOK'
  BY <1>h, <1>5 DEF ThreadsOK, ThreadTypeOK, PoolTypeOK, LoopTypeOK, Events, Threads,
    MainSteps, WorkerSteps, Closing, AcceptFails, Takes, kernelVars, userVars, localVars,
    timerVars, queueVars, historyVars, HandleSignal, clientVars
<1>6. ASSUME NEW e \in events, Accept(e) PROVE ThreadsOK'
  <2>1. /\ at' = [at EXCEPT ![Main] = "accept"] /\ obj' = LowestFree /\ LowestFree \in FDs
        /\ UNCHANGED running
    BY <1>6, LowestFreeIsFree DEF Accept, Goto, queueVars
  <2> QED
    BY <1>h, <2>1, MainAssumption DEF ThreadsOK, ThreadTypeOK, Threads, MainSteps, Closing
<1>7. ASSUME NEW e \in events, HandleReadFails(e) PROVE ThreadsOK'
  BY <1>h, <1>7 DEF ThreadsOK, ThreadTypeOK, PoolTypeOK, LoopTypeOK, Events, Threads,
    MainSteps, WorkerSteps, Closing, HandleReadFails, Takes, CloseThen, DelTimer, Goto,
    kernelVars, clientVars, userVars, localVars, queueVars, historyVars
<1>8. ASSUME NEW e \in events, HandleHup(e) PROVE ThreadsOK'
  BY <1>h, <1>8 DEF ThreadsOK, ThreadTypeOK, PoolTypeOK, LoopTypeOK, Events, Threads,
    MainSteps, WorkerSteps, Closing, HandleHup, Takes, CloseThen, Goto, kernelVars,
    clientVars, userVars, localVars, timerVars, queueVars, historyVars
<1>9. ASSUME NEW e \in events, HandleRead(e) PROVE ThreadsOK'
  BY <1>h, <1>9 DEF ThreadsOK, ThreadTypeOK, PoolTypeOK, LoopTypeOK, Events, Threads,
    MainSteps, WorkerSteps, Closing, HandleRead, Takes, AdjustTimer, Pool!Post, kernelVars,
    localVars, historyVars
<1>10. ASSUME NEW e \in events, HandleNothingToWrite(e) PROVE ThreadsOK'
  BY <1>h, <1>10 DEF ThreadsOK, ThreadTypeOK, PoolTypeOK, LoopTypeOK, Events, Threads,
    MainSteps, WorkerSteps, Closing, HandleNothingToWrite, Takes, Rearm, clientVars,
    localVars, timerVars, queueVars, historyVars
<1>11. ASSUME NEW e \in events, HandleWrite(e) PROVE ThreadsOK'
  BY <1>h, <1>11 DEF ThreadsOK, ThreadTypeOK, PoolTypeOK, LoopTypeOK, Events, Threads,
    MainSteps, WorkerSteps, Closing, HandleWrite, Takes, Goto, kernelVars, clientVars,
    userVars, localVars, timerVars, queueVars, historyVars
<1>12. ASSUME AcceptInit PROVE ThreadsOK'
  BY <1>h, <1>12 DEF ThreadsOK, ThreadTypeOK, PoolTypeOK, LoopTypeOK, Events, Threads,
    MainSteps, WorkerSteps, Closing, AcceptInit, Goto, kernelVars, clientVars, queueVars,
    historyVars, loopVars
<1>13. ASSUME EndOfBatch \/ TickEnds PROVE ThreadsOK'
  BY <1>h, <1>13 DEF ThreadsOK, ThreadTypeOK, PoolTypeOK, LoopTypeOK, Events, Threads,
    MainSteps, WorkerSteps, Closing, EndOfBatch, Goto, LoopOrStop, kernelVars, clientVars,
    userVars, localVars, timerVars, queueVars, historyVars, loopVars, TickEnds
<1>14. ASSUME TickExpires PROVE ThreadsOK'
  <2>1. timers # << >> /\ 1 \in DOMAIN timers /\ Head(timers) = timers[1]
    BY <1>h, <1>14, LenProperties, HeadTailProperties DEF TickExpires, TimerTypeOK
  <2>2. /\ at' = [at EXCEPT ![Main] = "check"] /\ obj' = where[Head(timers)]
        /\ UNCHANGED running
    BY <1>14 DEF TickExpires, CloseThen, Goto, queueVars
  <2>3. obj' \in FDs
    BY <1>h, <2>1, <2>2 DEF TimersOK
  <2> QED
    BY <1>h, <2>2, <2>3, MainAssumption DEF ThreadsOK, ThreadTypeOK, Threads, MainSteps, Closing
<1>15. ASSUME TickPops PROVE ThreadsOK'
  BY <1>h, <1>15 DEF ThreadsOK, ThreadTypeOK, PoolTypeOK, LoopTypeOK, Events, Threads,
    MainSteps, WorkerSteps, Closing, TickPops, Goto, kernelVars, clientVars, userVars,
    localVars, queueVars, historyVars, loopVars
<1>16. ASSUME DeleteUsers \/ DeletePool \/ JoinThenDestroyEngines PROVE ThreadsOK'
  BY <1>h, <1>16 DEF ThreadsOK, ThreadTypeOK, PoolTypeOK, LoopTypeOK, Events, Threads,
    MainSteps, WorkerSteps, Closing, DeleteUsers, Goto, kernelVars, clientVars, userVars,
    localVars, timerVars, queueVars, historyVars, loopVars, DeletePool, Pool!Cancel,
    JoinThenDestroyEngines
<1>17. ASSUME NEW t \in Threads, CloseCheck(t) PROVE ThreadsOK'
  <2>1. CASE t = Main
    BY <1>h, <1>17, <2>1, MainAssumption
    DEF CloseCheck, Return, Goto, queueVars, loopVars, ThreadsOK, ThreadTypeOK, LoopTypeOK, Threads, MainSteps, Closing
  <2>2. CASE t # Main
    <3>1. /\ t \in Workers /\ UNCHANGED obj
          /\ \/ at' = [at EXCEPT ![t] = "idle"] /\ running' = [running EXCEPT ![t] = NoFD]
             \/ at' = [at EXCEPT ![t] = "shut"] /\ running' = running /\ running[t] # NoFD
      BY <1>h, <1>17, <2>2 DEF CloseCheck, Return, Goto, Pool!Finish, queueVars, loopVars, Threads, ThreadsOK
    <3> QED
      BY <1>h, <3>1, MainAssumption DEF ThreadsOK, ThreadTypeOK, PoolTypeOK, Threads, WorkerSteps, Closing
  <2> QED
    BY <2>1, <2>2
<1>18. ASSUME NEW t \in Threads, CloseShut(t) PROVE ThreadsOK'
  BY <1>h, <1>18 DEF ThreadsOK, ThreadTypeOK, PoolTypeOK, LoopTypeOK, Events, Threads,
    MainSteps, WorkerSteps, Closing, CloseShut, Goto, Working, kernelVars, userVars,
    localVars, timerVars, queueVars, historyVars, loopVars
<1>19. ASSUME NEW t \in Threads, CloseClear(t) PROVE ThreadsOK'
  BY <1>h, <1>19 DEF ThreadsOK, ThreadTypeOK, PoolTypeOK, LoopTypeOK, Events, Threads,
    MainSteps, WorkerSteps, Closing, CloseClear, Goto, Working, kernelVars, clientVars,
    timerVars, queueVars, loopVars
<1>20. ASSUME NEW t \in Threads, CloseCount(t) PROVE ThreadsOK'
  <2>1. CASE t = Main
    BY <1>h, <1>20, <2>1, MainAssumption
    DEF CloseCount, Return, Goto, queueVars, loopVars, ThreadsOK, ThreadTypeOK, LoopTypeOK, Threads, MainSteps, Closing
  <2>2. CASE t # Main
    <3>1. /\ t \in Workers /\ UNCHANGED obj
          /\ at' = [at EXCEPT ![t] = "idle"] /\ running' = [running EXCEPT ![t] = NoFD]
      BY <1>h, <1>20, <2>2 DEF CloseCount, Return, Goto, Pool!Finish, loopVars, Threads
    <3> QED
      BY <1>h, <3>1, MainAssumption DEF ThreadsOK, ThreadTypeOK, PoolTypeOK, Threads, WorkerSteps, Closing
  <2> QED
    BY <2>1, <2>2
<1>21. ASSUME NEW w \in Workers, Start(w) PROVE ThreadsOK'
  <2>1. /\ pending # << >> /\ running' = [running EXCEPT ![w] = Head(pending)]
        /\ at' = [at EXCEPT ![w] = "process"] /\ UNCHANGED obj
    BY <1>21 DEF Start, Pool!Dispatch, Goto, loopVars
  <2>2. Head(pending) \in FDs /\ Head(pending) # NoFD
    BY <1>h, <2>1, HeadTailProperties, FDsAssumption DEF PoolTypeOK
  <2> QED
    BY <1>h, <2>1, <2>2, MainAssumption DEF ThreadsOK, ThreadTypeOK, PoolTypeOK, Threads, WorkerSteps, Closing
<1>22. ASSUME NEW w \in Workers, Parse(w) \/ Command(w) PROVE ThreadsOK'
  BY <1>h, <1>22 DEF ThreadsOK, ThreadTypeOK, PoolTypeOK, LoopTypeOK, Events, Threads,
    MainSteps, WorkerSteps, Closing, Parse, Goto, kernelVars, clientVars, userVars,
    timerVars, queueVars, historyVars, loopVars, Command
<1>23. ASSUME NEW w \in Workers, RearmOneShot(w) PROVE ThreadsOK'
  BY <1>h, <1>23 DEF ThreadsOK, ThreadTypeOK, PoolTypeOK, LoopTypeOK, Events, Threads,
    MainSteps, WorkerSteps, Closing, RearmOneShot, Return, Rearm, Goto, Pool!Finish,
    clientVars, userVars, localVars, timerVars, queueVars, historyVars, loopVars
<1>24. ASSUME NEW w \in Workers, Leave(w) PROVE ThreadsOK'
  BY <1>h, <1>24 DEF ThreadsOK, ThreadTypeOK, PoolTypeOK, LoopTypeOK, Events, Threads,
    MainSteps, WorkerSteps, Closing, Leave, Pool!Leave, kernelVars, clientVars, userVars,
    localVars, timerVars, historyVars, loopVars
<1>w. ASSUME WriteStep PROVE ThreadsOK'
  BY <1>h, <1>w, WriteTurn, MainAssumption DEF ThreadsOK, ThreadTypeOK, Threads, MainSteps, Closing
<1> QED
  BY <1>w, <1>1, <1>2, <1>3, <1>4, <1>5, <1>6, <1>7, <1>8, <1>9, <1>10, <1>11, <1>12, <1>13,
    <1>14, <1>15, <1>16, <1>17, <1>18, <1>19, <1>20, <1>21, <1>22, <1>23, <1>24 DEF Next,
    ReactorStep, Handle, Close, Teardown, WorkerStep, Threads

(* The pool is cancelled last, and left after that. *)
LEMMA PoolKeeps ==
    ASSUME Inductive, Next
    PROVE  PoolOK'
<1>h. PoolOK /\ ThreadsOK /\ ThreadTypeOK /\ PoolTypeOK /\ LoopTypeOK
  BY DEF Inductive, TypeOK
<1>1. ASSUME NEW c \in Conns, NEW k \in Kinds, Send(c, k) PROVE PoolOK'
  BY <1>h, <1>1 DEF PoolOK, ThreadTypeOK, ThreadsOK, PoolTypeOK, LoopTypeOK, Threads,
    MainSteps, WorkerSteps, Closing, Send, kernelVars, userVars, localVars, timerVars,
    queueVars, historyVars, loopVars
<1>2. ASSUME NEW c \in Conns, HangUp(c) \/ Drain(c) PROVE PoolOK'
  BY <1>h, <1>2 DEF PoolOK, ThreadTypeOK, ThreadsOK, PoolTypeOK, LoopTypeOK, Threads,
    MainSteps, WorkerSteps, Closing, HangUp, Drain, kernelVars, userVars, localVars, timerVars,
    queueVars, historyVars, loopVars
<1>3. ASSUME Elapse \/ AlarmFires \/ Terminate PROVE PoolOK'
  BY <1>h, <1>3 DEF PoolOK, ThreadTypeOK, ThreadsOK, PoolTypeOK, LoopTypeOK, Threads,
    MainSteps, WorkerSteps, Closing, Elapse, kernelVars, clientVars, userVars, localVars,
    queueVars, historyVars, loopVars, AlarmFires, timerVars, Terminate
<1>4. ASSUME EpollWait PROVE PoolOK'
  BY <1>h, <1>4 DEF PoolOK, ThreadTypeOK, ThreadsOK, PoolTypeOK, LoopTypeOK, Threads,
    MainSteps, WorkerSteps, Closing, EpollWait, Goto, clientVars, userVars, localVars,
    timerVars, queueVars, historyVars
<1>5. ASSUME NEW e \in events, AcceptFails(e) \/ HandleSignal(e) PROVE PoolOK'
  BY <1>h, <1>5 DEF PoolOK, ThreadTypeOK, ThreadsOK, PoolTypeOK, LoopTypeOK, Threads,
    MainSteps, WorkerSteps, Closing, AcceptFails, Takes, kernelVars, userVars, localVars,
    timerVars, queueVars, historyVars, HandleSignal, clientVars
<1>6. ASSUME NEW e \in events, Accept(e) PROVE PoolOK'
  BY <1>h, <1>6 DEF PoolOK, ThreadTypeOK, ThreadsOK, PoolTypeOK, LoopTypeOK, Threads,
    MainSteps, WorkerSteps, Closing, Accept, Takes, Goto, timerVars, queueVars
<1>7. ASSUME NEW e \in events, HandleHup(e) \/ HandleReadFails(e) PROVE
  PoolOK'
  BY <1>h, <1>7 DEF PoolOK, ThreadTypeOK, ThreadsOK, PoolTypeOK, LoopTypeOK, Threads,
    MainSteps, WorkerSteps, Closing, HandleHup, Takes, CloseThen, Goto, kernelVars,
    clientVars, userVars, localVars, timerVars, queueVars, historyVars, HandleReadFails,
    DelTimer
<1>8. ASSUME NEW e \in events, HandleRead(e) PROVE PoolOK'
  BY <1>h, <1>8 DEF PoolOK, ThreadTypeOK, ThreadsOK, PoolTypeOK, LoopTypeOK, Threads,
    MainSteps, WorkerSteps, Closing, HandleRead, Takes, AdjustTimer, Pool!Post, kernelVars,
    localVars, historyVars
<1>9. ASSUME NEW e \in events, HandleNothingToWrite(e) PROVE PoolOK'
  BY <1>h, <1>9 DEF PoolOK, ThreadTypeOK, ThreadsOK, PoolTypeOK, LoopTypeOK, Threads,
    MainSteps, WorkerSteps, Closing, HandleNothingToWrite, Takes, Rearm, clientVars,
    localVars, timerVars, queueVars, historyVars
<1>10. ASSUME NEW e \in events, HandleWrite(e) PROVE PoolOK'
  BY <1>h, <1>10 DEF PoolOK, ThreadTypeOK, ThreadsOK, PoolTypeOK, LoopTypeOK, Threads,
    MainSteps, WorkerSteps, Closing, HandleWrite, Takes, Goto, kernelVars, clientVars,
    userVars, localVars, timerVars, queueVars, historyVars
<1>11. ASSUME AcceptInit PROVE PoolOK'
  BY <1>h, <1>11 DEF PoolOK, ThreadTypeOK, ThreadsOK, PoolTypeOK, LoopTypeOK, Threads,
    MainSteps, WorkerSteps, Closing, AcceptInit, Goto, kernelVars, clientVars, queueVars,
    historyVars, loopVars
<1>12. ASSUME EndOfBatch \/ TickEnds PROVE PoolOK'
  BY <1>h, <1>12 DEF PoolOK, ThreadTypeOK, ThreadsOK, PoolTypeOK, LoopTypeOK, Threads,
    MainSteps, WorkerSteps, Closing, EndOfBatch, Goto, LoopOrStop, kernelVars, clientVars,
    userVars, localVars, timerVars, queueVars, historyVars, loopVars, TickEnds
<1>13. ASSUME TickExpires PROVE PoolOK'
  BY <1>h, <1>13 DEF PoolOK, ThreadTypeOK, ThreadsOK, PoolTypeOK, LoopTypeOK, Threads,
    MainSteps, WorkerSteps, Closing, TickExpires, CloseThen, Goto, kernelVars, clientVars,
    userVars, localVars, timerVars, queueVars
<1>14. ASSUME TickPops PROVE PoolOK'
  BY <1>h, <1>14 DEF PoolOK, ThreadTypeOK, ThreadsOK, PoolTypeOK, LoopTypeOK, Threads,
    MainSteps, WorkerSteps, Closing, TickPops, Goto, kernelVars, clientVars, userVars,
    localVars, queueVars, historyVars, loopVars
<1>15. ASSUME DeleteUsers \/ DeletePool \/ JoinThenDestroyEngines PROVE PoolOK'
  BY <1>h, <1>15 DEF PoolOK, ThreadTypeOK, ThreadsOK, PoolTypeOK, LoopTypeOK, Threads,
    MainSteps, WorkerSteps, Closing, DeleteUsers, Goto, kernelVars, clientVars, userVars,
    localVars, timerVars, queueVars, historyVars, loopVars, DeletePool, Pool!Cancel,
    JoinThenDestroyEngines
<1>16. ASSUME NEW t \in Threads, CloseCheck(t) PROVE PoolOK'
  BY <1>h, <1>16 DEF PoolOK, ThreadTypeOK, ThreadsOK, PoolTypeOK, LoopTypeOK, Threads,
    MainSteps, WorkerSteps, Closing, CloseCheck, Goto, Return, Working, Pool!Finish,
    kernelVars, clientVars, userVars, localVars, timerVars, queueVars, historyVars, loopVars
<1>17. ASSUME NEW t \in Threads, CloseShut(t) PROVE PoolOK'
  BY <1>h, <1>17 DEF PoolOK, ThreadTypeOK, ThreadsOK, PoolTypeOK, LoopTypeOK, Threads,
    MainSteps, WorkerSteps, Closing, CloseShut, Goto, Working, kernelVars, userVars,
    localVars, timerVars, queueVars, historyVars, loopVars
<1>18. ASSUME NEW t \in Threads, CloseClear(t) PROVE PoolOK'
  BY <1>h, <1>18 DEF PoolOK, ThreadTypeOK, ThreadsOK, PoolTypeOK, LoopTypeOK, Threads,
    MainSteps, WorkerSteps, Closing, CloseClear, Goto, Working, kernelVars, clientVars,
    timerVars, queueVars, loopVars
<1>19. ASSUME NEW t \in Threads, CloseCount(t) PROVE PoolOK'
  BY <1>h, <1>19 DEF PoolOK, ThreadTypeOK, ThreadsOK, PoolTypeOK, LoopTypeOK, Threads,
    MainSteps, WorkerSteps, Closing, CloseCount, Return, Goto, Pool!Finish, kernelVars,
    clientVars, userVars, timerVars, queueVars, historyVars, loopVars
<1>20. ASSUME NEW w \in Workers, Start(w) PROVE PoolOK'
  BY <1>h, <1>20 DEF PoolOK, ThreadTypeOK, ThreadsOK, PoolTypeOK, LoopTypeOK, Threads,
    MainSteps, WorkerSteps, Closing, Start, Goto, Pool!Dispatch, kernelVars, clientVars,
    userVars, localVars, timerVars, historyVars, loopVars
<1>21. ASSUME NEW w \in Workers, Parse(w) \/ Command(w) PROVE PoolOK'
  BY <1>h, <1>21 DEF PoolOK, ThreadTypeOK, ThreadsOK, PoolTypeOK, LoopTypeOK, Threads,
    MainSteps, WorkerSteps, Closing, Parse, Goto, kernelVars, clientVars, userVars,
    timerVars, queueVars, historyVars, loopVars, Command
<1>22. ASSUME NEW w \in Workers, RearmOneShot(w) PROVE PoolOK'
  BY <1>h, <1>22 DEF PoolOK, ThreadTypeOK, ThreadsOK, PoolTypeOK, LoopTypeOK, Threads,
    MainSteps, WorkerSteps, Closing, RearmOneShot, Return, Rearm, Goto, Pool!Finish,
    clientVars, userVars, localVars, timerVars, queueVars, historyVars, loopVars
<1>23. ASSUME NEW w \in Workers, Leave(w) PROVE PoolOK'
  BY <1>h, <1>23 DEF PoolOK, ThreadTypeOK, ThreadsOK, PoolTypeOK, LoopTypeOK, Threads,
    MainSteps, WorkerSteps, Closing, Leave, Pool!Leave, kernelVars, clientVars, userVars,
    localVars, timerVars, historyVars, loopVars
<1>w. ASSUME WriteStep PROVE PoolOK'
  BY <1>h, <1>w, WriteTurn, MainAssumption DEF PoolOK, ThreadTypeOK, Threads
<1> QED
  BY <1>w, <1>1, <1>2, <1>3, <1>4, <1>5, <1>6, <1>7, <1>8, <1>9, <1>10, <1>11, <1>12, <1>13,
    <1>14, <1>15, <1>16, <1>17, <1>18, <1>19, <1>20, <1>21, <1>22, <1>23 DEF Next,
    ReactorStep, Handle, Close, Teardown, WorkerStep, Threads

(* Only open sockets are registered, and a batch has one event of a descriptor. *)
LEMMA BatchKeeps ==
    ASSUME Inductive, Next
    PROVE  BatchOK'
<1>h. BatchOK /\ ThreadsOK /\ ThreadTypeOK /\ PoolTypeOK /\ LoopTypeOK /\ KernelTypeOK /\
  ClientTypeOK /\ InOrder
  BY DEF Inductive, TypeOK
<1>1. ASSUME NEW c \in Conns, NEW k \in Kinds, Send(c, k) PROVE BatchOK'
  BY <1>h, <1>1 DEF BatchOK, ThreadTypeOK, ThreadsOK, PoolTypeOK, LoopTypeOK, KernelTypeOK,
    Popping, Threads, MainSteps, WorkerSteps, Closing, Send, kernelVars, userVars,
    localVars, timerVars, queueVars, historyVars, loopVars
<1>2. ASSUME NEW c \in Conns, HangUp(c) \/ Drain(c) PROVE BatchOK'
  BY <1>h, <1>2 DEF BatchOK, ThreadTypeOK, ThreadsOK, PoolTypeOK, LoopTypeOK, KernelTypeOK,
    Popping, Threads, MainSteps, WorkerSteps, Closing, HangUp, Drain, kernelVars, userVars,
    localVars, timerVars, queueVars, historyVars, loopVars
<1>3. ASSUME Elapse \/ AlarmFires \/ Terminate PROVE BatchOK'
  BY <1>h, <1>3 DEF BatchOK, ThreadTypeOK, ThreadsOK, PoolTypeOK, LoopTypeOK, KernelTypeOK,
    Popping, Threads, MainSteps, WorkerSteps, Closing, Elapse, kernelVars, clientVars,
    userVars, localVars, queueVars, historyVars, loopVars, AlarmFires, timerVars, Terminate
<1>4. ASSUME EpollWait PROVE BatchOK'
  <2>1. PICK listen \in {{}, {[fd |-> 0, kind |-> "listen"]}} : events' = Ready \cup listen
    BY <1>4 DEF EpollWait
  <2>2. /\ at' = [at EXCEPT ![Main] = "loop"] /\ UNCHANGED sock
        /\ \A fd \in FDs : armed[fd] = "no" => armed'[fd] = "no"
    <3>1. \A e \in Ready : e.fd \in FDs => armed[e.fd] # "no"
      BY <1>h, FDsAssumption DEF Ready, Event
    <3>2. \A e \in events' : e.fd \in FDs => armed[e.fd] # "no"
      BY <2>1, <3>1, FDsAssumption
    <3> QED
      BY <1>4, <3>2 DEF EpollWait, Goto
  <2>3. \A e \in Ready : e.fd \in FDs => e = Event(e.fd)
    BY FDsAssumption DEF Ready, Event
  <2>4. \A e \in events' : e.fd \in FDs => e = Event(e.fd)
    BY <2>1, <2>3, FDsAssumption
  <2>5. \A e1, e2 \in events' : e1.fd = e2.fd /\ e1.fd \in FDs => e1 = e2
    BY <2>4
  <2>6. ~(at'[Main] = "tick" \/ Popping')
    BY <1>h, <2>2 DEF Popping, Closing, ThreadTypeOK, Threads
  <2> QED
    BY <1>h, <2>2, <2>5, <2>6 DEF BatchOK
<1>5. ASSUME NEW e \in events, AcceptFails(e) \/ HandleSignal(e) PROVE BatchOK'
  BY <1>h, <1>5 DEF BatchOK, ThreadTypeOK, ThreadsOK, PoolTypeOK, LoopTypeOK, KernelTypeOK,
    Popping, Threads, MainSteps, WorkerSteps, Closing, AcceptFails, Takes, kernelVars,
    userVars, localVars, timerVars, queueVars, historyVars, HandleSignal, clientVars
<1>6. ASSUME NEW e \in events, Accept(e) PROVE BatchOK'
  <2>1. /\ sock' = [sock EXCEPT ![LowestFree] = NextConn] /\ armed' = [armed EXCEPT ![LowestFree] = "in"]
        /\ events' = events \ {e} /\ at' = [at EXCEPT ![Main] = "accept"]
    BY <1>6 DEF Accept, Takes, Goto
  <2>2. NextConn # 0
    BY <1>h, AcceptedConns DEF NextConn
  <2>3. LowestFree \in FDs
    BY <1>6, LowestFreeIsFree DEF Accept
  <2> QED
    BY <1>h, <2>1, <2>2, <2>3 DEF BatchOK, KernelTypeOK, ThreadTypeOK, Popping, Closing, Threads
<1>7. ASSUME NEW e \in events, HandleHup(e) \/ HandleReadFails(e) PROVE
  BatchOK'
  BY <1>h, <1>7 DEF BatchOK, ThreadTypeOK, ThreadsOK, PoolTypeOK, LoopTypeOK, KernelTypeOK,
    Popping, Threads, MainSteps, WorkerSteps, Closing, HandleHup, Takes, CloseThen, Goto,
    kernelVars, clientVars, userVars, localVars, timerVars, queueVars, historyVars,
    HandleReadFails, DelTimer
<1>8. ASSUME NEW e \in events, HandleRead(e) PROVE BatchOK'
  BY <1>h, <1>8 DEF BatchOK, ThreadTypeOK, ThreadsOK, PoolTypeOK, LoopTypeOK, KernelTypeOK,
    Popping, Threads, MainSteps, WorkerSteps, Closing, HandleRead, Takes, AdjustTimer,
    Pool!Post, kernelVars, localVars, historyVars
<1>9. ASSUME NEW e \in events, HandleNothingToWrite(e) PROVE BatchOK'
  <2>1. /\ e \in events /\ events' = events \ {e} /\ at[Main] = "loop" /\ UNCHANGED <<sock, at>>
        /\ armed' = armed \/ (sock[e.fd] # 0 /\ armed' = [armed EXCEPT ![e.fd] = "in"])
    BY <1>9 DEF HandleNothingToWrite, Takes, Rearm, Valid
  <2> QED
    BY <1>h, <2>1 DEF BatchOK, KernelTypeOK, Popping, Closing
<1>10. ASSUME NEW e \in events, HandleWrite(e) PROVE BatchOK'
  BY <1>h, <1>10 DEF BatchOK, ThreadTypeOK, Popping, Threads, Closing, HandleWrite, Takes, Goto,
    kernelVars
<1>11. ASSUME AcceptInit PROVE BatchOK'
  BY <1>h, <1>11 DEF BatchOK, ThreadTypeOK, ThreadsOK, PoolTypeOK, LoopTypeOK, KernelTypeOK,
    Popping, Threads, MainSteps, WorkerSteps, Closing, AcceptInit, Goto, kernelVars,
    clientVars, queueVars, historyVars, loopVars
<1>12. ASSUME EndOfBatch \/ TickEnds PROVE BatchOK'
  BY <1>h, <1>12 DEF BatchOK, ThreadTypeOK, ThreadsOK, PoolTypeOK, LoopTypeOK, KernelTypeOK,
    Popping, Threads, MainSteps, WorkerSteps, Closing, EndOfBatch, Goto, LoopOrStop,
    kernelVars, clientVars, userVars, localVars, timerVars, queueVars, historyVars,
    loopVars, TickEnds
<1>13. ASSUME TickExpires PROVE BatchOK'
  BY <1>h, <1>13 DEF BatchOK, ThreadTypeOK, ThreadsOK, PoolTypeOK, LoopTypeOK, KernelTypeOK,
    Popping, Threads, MainSteps, WorkerSteps, Closing, TickExpires, CloseThen, Goto,
    kernelVars, clientVars, userVars, localVars, timerVars, queueVars
<1>14. ASSUME TickPops PROVE BatchOK'
  BY <1>h, <1>14 DEF BatchOK, ThreadTypeOK, ThreadsOK, PoolTypeOK, LoopTypeOK, KernelTypeOK,
    Popping, Threads, MainSteps, WorkerSteps, Closing, TickPops, Goto, kernelVars,
    clientVars, userVars, localVars, queueVars, historyVars, loopVars
<1>15. ASSUME DeleteUsers \/ DeletePool \/ JoinThenDestroyEngines PROVE BatchOK'
  BY <1>h, <1>15 DEF BatchOK, ThreadTypeOK, ThreadsOK, PoolTypeOK, LoopTypeOK, KernelTypeOK,
    Popping, Threads, MainSteps, WorkerSteps, Closing, DeleteUsers, Goto, kernelVars,
    clientVars, userVars, localVars, timerVars, queueVars, historyVars, loopVars,
    DeletePool, Pool!Cancel, JoinThenDestroyEngines
<1>16. ASSUME NEW t \in Threads, CloseCheck(t) PROVE BatchOK'
  BY <1>h, <1>16 DEF BatchOK, ThreadTypeOK, ThreadsOK, PoolTypeOK, LoopTypeOK, KernelTypeOK,
    Popping, Threads, MainSteps, WorkerSteps, Closing, CloseCheck, Goto, Return, Working,
    Pool!Finish, kernelVars, clientVars, userVars, localVars, timerVars, queueVars,
    historyVars, loopVars
<1>17. ASSUME NEW t \in Threads, CloseShut(t) PROVE BatchOK'
  BY <1>h, <1>17 DEF BatchOK, ThreadTypeOK, ThreadsOK, PoolTypeOK, LoopTypeOK, KernelTypeOK,
    Popping, Threads, MainSteps, WorkerSteps, Closing, CloseShut, Goto, Working, kernelVars,
    userVars, localVars, timerVars, queueVars, historyVars, loopVars
<1>18. ASSUME NEW t \in Threads, CloseClear(t) PROVE BatchOK'
  BY <1>h, <1>18 DEF BatchOK, ThreadTypeOK, ThreadsOK, PoolTypeOK, LoopTypeOK, KernelTypeOK,
    Popping, Threads, MainSteps, WorkerSteps, Closing, CloseClear, Goto, Working,
    kernelVars, clientVars, timerVars, queueVars, loopVars
<1>19. ASSUME NEW t \in Threads, CloseCount(t) PROVE BatchOK'
  BY <1>h, <1>19 DEF BatchOK, ThreadTypeOK, ThreadsOK, PoolTypeOK, LoopTypeOK, KernelTypeOK,
    Popping, Threads, MainSteps, WorkerSteps, Closing, CloseCount, Return, Goto,
    Pool!Finish, kernelVars, clientVars, userVars, timerVars, queueVars, historyVars,
    loopVars
<1>20. ASSUME NEW w \in Workers, Start(w) PROVE BatchOK'
  BY <1>h, <1>20 DEF BatchOK, ThreadTypeOK, ThreadsOK, PoolTypeOK, LoopTypeOK, KernelTypeOK,
    Popping, Threads, MainSteps, WorkerSteps, Closing, Start, Goto, Pool!Dispatch,
    kernelVars, clientVars, userVars, localVars, timerVars, historyVars, loopVars
<1>21. ASSUME NEW w \in Workers, Parse(w) \/ Command(w) PROVE BatchOK'
  BY <1>h, <1>21 DEF BatchOK, ThreadTypeOK, ThreadsOK, PoolTypeOK, LoopTypeOK, KernelTypeOK,
    Popping, Threads, MainSteps, WorkerSteps, Closing, Parse, Goto, kernelVars, clientVars,
    userVars, timerVars, queueVars, historyVars, loopVars, Command
<1>22. ASSUME NEW w \in Workers, RearmOneShot(w) PROVE BatchOK'
  <2>1. /\ UNCHANGED <<sock, events, ret>> /\ at'[Main] = at[Main]
        /\ armed' = armed \/ \E mode \in {"in", "out"} :
              sock[running[w]] # 0 /\ armed' = [armed EXCEPT ![running[w]] = mode]
    BY <1>h, <1>22, MainAssumption DEF RearmOneShot, Return, Goto, Rearm, Valid, loopVars, ThreadTypeOK, Threads
  <2> QED
    BY <1>h, <2>1 DEF BatchOK, KernelTypeOK, Popping, Closing
<1>23. ASSUME NEW w \in Workers, Leave(w) PROVE BatchOK'
  BY <1>h, <1>23 DEF BatchOK, ThreadTypeOK, ThreadsOK, PoolTypeOK, LoopTypeOK, KernelTypeOK,
    Popping, Threads, MainSteps, WorkerSteps, Closing, Leave, Pool!Leave, kernelVars,
    clientVars, userVars, localVars, timerVars, historyVars, loopVars
<1>w. ASSUME WriteStep PROVE BatchOK'
  BY <1>h, <1>w, WriteTurn DEF BatchOK, ThreadsOK, Valid, KernelTypeOK, ThreadTypeOK, Popping, Closing, Threads
<1> QED
  BY <1>w, <1>1, <1>2, <1>3, <1>4, <1>5, <1>6, <1>7, <1>8, <1>9, <1>10, <1>11, <1>12, <1>13,
    <1>14, <1>15, <1>16, <1>17, <1>18, <1>19, <1>20, <1>21, <1>22, <1>23 DEF Next,
    ReactorStep, Handle, Close, Teardown, WorkerStep, Threads

(* The timers of the list are named by connections. *)
LEMMA ListedConns ==
    ASSUME TimerTypeOK
    PROVE  \A i \in DOMAIN timers : timers[i] \in Conns /\ timers[i] \in Nat
<1>1. ASSUME NEW i \in DOMAIN timers PROVE timers[i] \in Conns
  BY ElementOfSeq, LenProperties DEF TimerTypeOK
<1> QED
  BY <1>1, BoundsAssumption DEF Conns

(* A step that accepts nobody and lists no new timer keeps the order. *)
LEMMA OrderKept ==
    ASSUME ClientTypeOK, KernelTypeOK, InOrder,
           \A c \in Conns : peer'[c] = "new" <=> peer[c] = "new",
           [fd |-> 0, kind |-> "listen"] \in events' => [fd |-> 0, kind |-> "listen"] \in events,
           \A fd \in FDs : sock'[fd] \in {0, sock[fd]},
           timer' = timer,
           \A i \in DOMAIN timers' : \E j \in DOMAIN timers : timers'[i] = timers[j],
           at'[Main] = "accept" => at[Main] = "accept" /\ obj' = obj /\ obj \in FDs
    PROVE  InOrder'
<1>1. {c \in Conns : peer'[c] # "new"} = {c \in Conns : peer[c] # "new"}
  OBVIOUS
<1>2. Accepted' = Accepted /\ Accepted \in Nat
  BY <1>1, AcceptedConns DEF Accepted
<1> QED
  BY <1>2 DEF InOrder, KernelTypeOK

(* What the tail of a sequence holds. *)
LEMMA TailElements ==
    ASSUME NEW S, NEW s \in Seq(S), s # << >>
    PROVE  /\ \A i \in DOMAIN Tail(s) : \E j \in DOMAIN s : Tail(s)[i] = s[j]
           /\ \A j \in DOMAIN s : s[j] # Head(s) => \E i \in DOMAIN Tail(s) : Tail(s)[i] = s[j]
           /\ \A i \in DOMAIN Tail(s) : i + 1 \in DOMAIN s /\ Tail(s)[i] = s[i + 1]
<1>1. /\ Tail(s) \in Seq(S) /\ Len(Tail(s)) = Len(s) - 1 /\ Head(s) = s[1]
      /\ \A i \in 1..Len(Tail(s)) : Tail(s)[i] = s[i + 1]
      /\ Len(s) \in Nat /\ DOMAIN s = 1..Len(s)
  BY HeadTailProperties, LenProperties
<1>2. DOMAIN Tail(s) = 1..(Len(s) - 1)
  BY <1>1, LenProperties
<1>3. ASSUME NEW j \in DOMAIN s, s[j] # Head(s)
      PROVE  \E i \in DOMAIN Tail(s) : Tail(s)[i] = s[j]
  <2>1. j - 1 \in 1..(Len(s) - 1) /\ (j - 1) + 1 = j
    BY <1>1, <1>3
  <2> QED
    BY <1>1, <1>2, <2>1
<1>4. ASSUME NEW i \in DOMAIN Tail(s) PROVE i + 1 \in DOMAIN s /\ Tail(s)[i] = s[i + 1]
  BY <1>1, <1>2
<1> QED
  BY <1>3, <1>4

(* Connections are numbered in the order of accept(). *)
LEMMA OrderKeeps ==
    ASSUME Inductive, Next
    PROVE  InOrder'
<1>h. InOrder /\ ThreadsOK /\ ThreadTypeOK /\ LoopTypeOK /\ KernelTypeOK /\ ClientTypeOK /\
  TimerTypeOK /\ TimersOK /\ PoolTypeOK
  BY DEF Inductive, TypeOK
<1>1. ASSUME NEW c \in Conns, NEW k \in Kinds, Send(c, k) PROVE InOrder'
  <2>1. /\ UNCHANGED <<sock, timer, timers>>
        /\ [fd |-> 0, kind |-> "listen"] \in events' => [fd |-> 0, kind |-> "listen"] \in events
        /\ at'[Main] = "accept" => at[Main] = "accept" /\ obj' = obj
    BY <1>h, <1>1, MainAssumption DEF Send, kernelVars, userVars, localVars, timerVars,
      queueVars, historyVars, loopVars, Threads, ThreadTypeOK, LoopTypeOK
  <2>2. \A x \in Conns : peer'[x] = "new" <=> peer[x] = "new"
    BY <1>h, <1>1 DEF Send, ClientTypeOK
  <2> QED
    BY <1>h, <2>1, <2>2, OrderKept DEF ThreadsOK
<1>2. ASSUME NEW c \in Conns, HangUp(c) PROVE InOrder'
  <2>1. /\ UNCHANGED <<sock, timer, timers>>
        /\ [fd |-> 0, kind |-> "listen"] \in events' => [fd |-> 0, kind |-> "listen"] \in events
        /\ at'[Main] = "accept" => at[Main] = "accept" /\ obj' = obj
    BY <1>h, <1>2, MainAssumption DEF HangUp, kernelVars, userVars, localVars, timerVars,
      queueVars, historyVars, loopVars, Threads, ThreadTypeOK, LoopTypeOK
  <2>2. c <= Accepted
    BY <1>h, <1>2 DEF HangUp, Connected, InRange, InOrder, KernelTypeOK
  <2>3. \A x \in Conns : peer'[x] = "new" <=> peer[x] = "new"
    BY <1>h, <1>2, <2>2 DEF HangUp, ClientTypeOK, InOrder
  <2> QED
    BY <1>h, <2>1, <2>3, OrderKept DEF ThreadsOK
<1>d. ASSUME NEW c \in Conns, Drain(c) PROVE InOrder'
  <2>1. UNCHANGED <<peer, sock, timer, timers, events, at, obj>>
    BY <1>d DEF Drain, kernelVars, timerVars, loopVars
  <2> QED
    BY <1>h, <2>1, OrderKept DEF ThreadsOK
<1>3. ASSUME Elapse \/ AlarmFires \/ Terminate PROVE InOrder'
  <2>1. /\ UNCHANGED <<peer, sock, timer, timers>>
        /\ [fd |-> 0, kind |-> "listen"] \in events' => [fd |-> 0, kind |-> "listen"] \in events
        /\ at'[Main] = "accept" => at[Main] = "accept" /\ obj' = obj
    BY <1>h, <1>3, MainAssumption DEF Elapse, kernelVars, clientVars, userVars, localVars,
      queueVars, historyVars, loopVars, AlarmFires, timerVars, Terminate, Threads,
      ThreadTypeOK, LoopTypeOK, Events
  <2> QED
    BY <1>h, <2>1, OrderKept DEF ThreadsOK
<1>4. ASSUME EpollWait PROVE InOrder'
  <2>1. PICK listen \in {{}, {[fd |-> 0, kind |-> "listen"]}} :
           /\ listen # {} => \E c \in Conns : peer[c] = "new"
           /\ events' = Ready \cup listen
    BY <1>4 DEF EpollWait
  <2>2. at'[Main] = "loop" /\ UNCHANGED <<peer, sock, timer, timers>>
    BY <1>h, <1>4 DEF EpollWait, Goto, clientVars, timerVars, ThreadTypeOK, Threads
  <2>3. [fd |-> 0, kind |-> "listen"] \notin Ready
    BY FDsAssumption DEF Ready, Event
  <2>4. [fd |-> 0, kind |-> "listen"] \in events' => Accepted < MaxConns
    BY <1>h, <2>1, <2>3, AcceptedConns, BoundsAssumption DEF InOrder, Conns
  <2>5. Accepted' = Accepted
    BY <2>2 DEF Accepted
  <2> QED
    BY <1>h, <2>2, <2>4, <2>5 DEF InOrder
<1>5. ASSUME NEW e \in events, AcceptFails(e) PROVE InOrder'
  <2>1. /\ UNCHANGED <<sock, timer, timers, at>> /\ events' = events \ {e} /\ at[Main] = "loop"
        /\ peer' = peer \/ peer' = [peer EXCEPT ![NextConn] = "gone"]
    BY <1>5 DEF AcceptFails, Takes, kernelVars, timerVars
  <2>2. CASE peer' = peer
    BY <1>h, <2>1, <2>2, OrderKept
  <2>3. CASE peer' = [peer EXCEPT ![NextConn] = "gone"]
    <3>1. e = [fd |-> 0, kind |-> "listen"]
      BY <1>h, <1>5 DEF AcceptFails, Takes, LoopTypeOK, Events
    <3>2. Accepted < MaxConns /\ Accepted' = Accepted + 1
      BY <1>h, <2>3, <3>1, AcceptedAfter DEF InOrder
    <3>3. Accepted \in Nat /\ NextConn \in Conns
      BY <1>h, <3>2, AcceptedConns, BoundsAssumption DEF NextConn, Conns
    <3>4. \A c \in Conns : peer'[c] # "new" <=> c <= Accepted'
      BY <1>h, <2>3, <3>2, <3>3 DEF InOrder, ClientTypeOK, NextConn, Conns
    <3>5. [fd |-> 0, kind |-> "listen"] \notin events'
      BY <2>1, <3>1
    <3>6. \A i \in DOMAIN timers' : timers'[i] <= Accepted'
      BY <1>h, <2>1, <3>2, <3>3, ListedConns DEF InOrder
    <3>7. \A fd \in FDs : sock'[fd] <= Accepted' /\ timer'[fd] <= Accepted'
      BY <1>h, <2>1, <3>2, <3>3 DEF InOrder, KernelTypeOK, TimerTypeOK
    <3> QED
      BY <2>1, <3>4, <3>5, <3>6, <3>7 DEF InOrder
  <2> QED
    BY <2>1, <2>2, <2>3
<1>6. ASSUME NEW e \in events, HandleSignal(e) PROVE InOrder'
  <2>1. /\ UNCHANGED <<peer, sock, timer, timers>>
        /\ [fd |-> 0, kind |-> "listen"] \in events' => [fd |-> 0, kind |-> "listen"] \in events
        /\ at'[Main] = "accept" => at[Main] = "accept" /\ obj' = obj
    BY <1>h, <1>6, MainAssumption DEF HandleSignal, Takes, kernelVars, clientVars,
      userVars, localVars, timerVars, queueVars, historyVars, Threads, ThreadTypeOK,
      LoopTypeOK, Events
  <2> QED
    BY <1>h, <2>1, OrderKept DEF ThreadsOK
<1>7. ASSUME NEW e \in events, Accept(e) PROVE InOrder'
  <2>1. /\ UNCHANGED <<timer, timers>> /\ events' = events \ {e}
        /\ obj' = LowestFree /\ sock' = [sock EXCEPT ![LowestFree] = NextConn]
        /\ peer' = [peer EXCEPT ![NextConn] = "up"]
    BY <1>7 DEF Accept, Takes, timerVars
  <2>2. e = [fd |-> 0, kind |-> "listen"]
    BY <1>h, <1>7 DEF Accept, Takes, LoopTypeOK, Events
  <2>3. Accepted < MaxConns /\ Accepted' = Accepted + 1
    BY <1>h, <2>1, <2>2, AcceptedAfter DEF InOrder
  <2>4. Accepted \in Nat /\ NextConn \in Conns /\ NextConn = Accepted'
    BY <1>h, <2>3, AcceptedConns, BoundsAssumption DEF NextConn, Conns
  <2>5. LowestFree \in FDs
    BY <1>7, LowestFreeIsFree DEF Accept
  <2>6. \A c \in Conns : peer'[c] # "new" <=> c <= Accepted'
    BY <1>h, <2>1, <2>3, <2>4 DEF InOrder, ClientTypeOK, NextConn, Conns
  <2>7. [fd |-> 0, kind |-> "listen"] \notin events'
    BY <2>1, <2>2
  <2>8. \A fd \in FDs : /\ sock'[fd] <= Accepted' /\ timer'[fd] <= Accepted'
                        /\ timer'[fd] # Accepted' /\ (fd # obj' => sock'[fd] # Accepted')
    BY <1>h, <2>1, <2>3, <2>4, <2>5 DEF InOrder, KernelTypeOK, TimerTypeOK, Conns
  <2>9. \A i \in DOMAIN timers' : timers'[i] <= Accepted' /\ timers'[i] # Accepted'
    <3>1. \A i \in DOMAIN timers : timers[i] \in Nat
      BY <1>h, ListedConns
    <3> QED
      BY <1>h, <2>1, <2>3, <2>4, <3>1 DEF InOrder
  <2>10. sock'[obj'] = Accepted' /\ Accepted' > 0
    BY <1>h, <2>1, <2>3, <2>4, <2>5 DEF KernelTypeOK
  <2> QED
    BY <2>6, <2>7, <2>8, <2>9, <2>10 DEF InOrder
<1>8. ASSUME NEW e \in events, HandleReadFails(e) PROVE InOrder'
  <2>1. /\ UNCHANGED <<peer, sock, timer>> /\ events' = events \ {e}
        /\ timers' = Without(timer[e.fd]) /\ at'[Main] # "accept"
    BY <1>h, <1>8 DEF HandleReadFails, Takes, DelTimer, CloseThen, Goto, clientVars, kernelVars, ThreadTypeOK, Threads
  <2> QED
    BY <1>h, <2>1, OrderKept, WithoutTimer
<1>9. ASSUME NEW e \in events, HandleHup(e) PROVE InOrder'
  <2>1. /\ UNCHANGED <<peer, sock, timer, timers>>
        /\ [fd |-> 0, kind |-> "listen"] \in events' => [fd |-> 0, kind |-> "listen"] \in events
        /\ at'[Main] = "accept" => at[Main] = "accept" /\ obj' = obj
    BY <1>h, <1>9, MainAssumption DEF HandleHup, Takes, CloseThen, Goto, kernelVars,
      clientVars, userVars, localVars, timerVars, queueVars, historyVars,
      Threads, ThreadTypeOK, LoopTypeOK, Events
  <2> QED
    BY <1>h, <2>1, OrderKept DEF ThreadsOK
<1>10. ASSUME NEW e \in events, HandleRead(e) PROVE InOrder'
  <2>1. /\ UNCHANGED <<peer, sock, at>> /\ events' = events \ {e} /\ at[Main] # "accept"
        /\ AdjustTimer(timer[e.fd]) /\ UNCHANGED timer
    BY <1>10 DEF HandleRead, Takes, AdjustTimer, kernelVars
  <2> QED
    BY <1>h, <2>1, OrderKept, AdjustedTimers
<1>11. ASSUME NEW e \in events, HandleNothingToWrite(e) PROVE InOrder'
  <2>1. /\ UNCHANGED <<peer, sock, timer, timers>>
        /\ [fd |-> 0, kind |-> "listen"] \in events' => [fd |-> 0, kind |-> "listen"] \in events
        /\ at'[Main] = "accept" => at[Main] = "accept" /\ obj' = obj
    BY <1>h, <1>11, MainAssumption DEF HandleNothingToWrite, Takes, Rearm, clientVars,
      localVars, timerVars, queueVars, historyVars, Threads, ThreadTypeOK, LoopTypeOK,
      Events
  <2> QED
    BY <1>h, <2>1, OrderKept DEF ThreadsOK
<1>12. ASSUME NEW e \in events, HandleWrite(e) PROVE InOrder'
  <2>1. /\ UNCHANGED <<peer, sock, timer, timers>> /\ events' = events \ {e} /\ at'[Main] = "write"
    BY <1>h, <1>12 DEF HandleWrite, Takes, Goto, kernelVars, clientVars, timerVars, ThreadTypeOK, Threads
  <2> QED
    BY <1>h, <2>1, OrderKept
<1>13. ASSUME AcceptInit PROVE InOrder'
  <2>1. /\ UNCHANGED <<peer, sock, events>> /\ at'[Main] = "loop"
        /\ timer' = [timer EXCEPT ![obj] = Accepted] /\ timers' = Append(timers, Accepted)
    BY <1>h, <1>13 DEF AcceptInit, Goto, kernelVars, clientVars, loopVars, ThreadTypeOK, Threads
  <2>2. Accepted' = Accepted /\ Accepted \in Conns
    BY <1>h, <1>13, <2>1, AcceptedConns, BoundsAssumption DEF Accepted, AcceptInit, InOrder, Conns
  <2>3. \A i \in DOMAIN timers' : timers'[i] <= Accepted
    <3>1. /\ DOMAIN timers' = 1..(Len(timers) + 1) /\ Len(timers) \in Nat
          /\ DOMAIN timers = 1..Len(timers)
          /\ \A i \in 1..Len(timers) : timers'[i] = timers[i]
          /\ timers'[Len(timers) + 1] = Accepted
      BY <1>h, <2>1, <2>2, AppendProperties, LenProperties DEF TimerTypeOK
    <3>2. \A i \in DOMAIN timers : timers[i] <= Accepted
      BY <1>h DEF InOrder
    <3> QED
      BY <2>2, <3>1, <3>2 DEF Conns
  <2>4. \A fd \in FDs : timer'[fd] <= Accepted
    BY <1>h, <2>1, <2>2 DEF InOrder, TimerTypeOK, Conns
  <2> QED
    BY <1>h, <2>1, <2>2, <2>3, <2>4 DEF InOrder
<1>14. ASSUME EndOfBatch \/ TickEnds PROVE InOrder'
  <2>1. /\ UNCHANGED <<peer, sock, timer, timers>>
        /\ [fd |-> 0, kind |-> "listen"] \in events' => [fd |-> 0, kind |-> "listen"] \in events
        /\ at'[Main] = "accept" => at[Main] = "accept" /\ obj' = obj
    BY <1>h, <1>14, MainAssumption DEF EndOfBatch, Goto, LoopOrStop, kernelVars, clientVars,
      userVars, localVars, timerVars, queueVars, historyVars, loopVars, TickEnds, Threads,
      ThreadTypeOK, LoopTypeOK, Events
  <2> QED
    BY <1>h, <2>1, OrderKept DEF ThreadsOK
<1>15. ASSUME TickExpires PROVE InOrder'
  <2>1. /\ UNCHANGED <<peer, sock, timer, timers>>
        /\ [fd |-> 0, kind |-> "listen"] \in events' => [fd |-> 0, kind |-> "listen"] \in events
        /\ at'[Main] = "accept" => at[Main] = "accept" /\ obj' = obj
    BY <1>h, <1>15, MainAssumption DEF TickExpires, CloseThen, Goto, kernelVars, clientVars,
      userVars, localVars, timerVars, queueVars, Threads, ThreadTypeOK, LoopTypeOK, Events
  <2> QED
    BY <1>h, <2>1, OrderKept DEF ThreadsOK
<1>16. ASSUME TickPops PROVE InOrder'
  <2>1. /\ UNCHANGED <<peer, sock, timer, events, obj>> /\ timers' = Tail(timers) /\ at'[Main] = "tick"
    BY <1>h, <1>16 DEF TickPops, Goto, kernelVars, clientVars, loopVars, ThreadTypeOK, Threads
  <2>2. timers # << >>
    BY <1>h, <1>16, EmptySeq DEF TickPops, TimersOK, Popping, TimerTypeOK
  <2>3. \A i \in DOMAIN timers' : \E j \in DOMAIN timers : timers'[i] = timers[j]
    BY <1>h, <2>1, <2>2, TailElements DEF TimerTypeOK
  <2> QED
    BY <1>h, <2>1, <2>3, OrderKept
<1>17. ASSUME DeleteUsers \/ DeletePool \/ JoinThenDestroyEngines PROVE InOrder'
  <2>1. /\ UNCHANGED <<peer, sock, timer, timers>>
        /\ [fd |-> 0, kind |-> "listen"] \in events' => [fd |-> 0, kind |-> "listen"] \in events
        /\ at'[Main] = "accept" => at[Main] = "accept" /\ obj' = obj
    BY <1>h, <1>17, MainAssumption DEF DeleteUsers, Goto, kernelVars, clientVars, userVars,
      localVars, timerVars, queueVars, historyVars, loopVars, DeletePool, Pool!Cancel,
      JoinThenDestroyEngines, Threads, ThreadTypeOK, LoopTypeOK, Events
  <2> QED
    BY <1>h, <2>1, OrderKept DEF ThreadsOK
<1>18. ASSUME NEW t \in Threads, CloseCheck(t) PROVE InOrder'
  <2>1. /\ UNCHANGED <<peer, sock, timer, timers>>
        /\ [fd |-> 0, kind |-> "listen"] \in events' => [fd |-> 0, kind |-> "listen"] \in events
        /\ at'[Main] = "accept" => at[Main] = "accept" /\ obj' = obj
    BY <1>h, <1>18, MainAssumption DEF CloseCheck, Goto, Return, Working, Pool!Finish,
      kernelVars, clientVars, userVars, localVars, timerVars, queueVars, historyVars,
      loopVars, Threads, ThreadTypeOK, LoopTypeOK, Events
  <2> QED
    BY <1>h, <2>1, OrderKept DEF ThreadsOK
<1>19. ASSUME NEW t \in Threads, CloseShut(t) PROVE InOrder'
  <2>1. /\ UNCHANGED <<timer, timers, events>> /\ obj' = obj
        /\ at'[Main] = "accept" => at[Main] = "accept"
    BY <1>h, <1>19, MainAssumption DEF CloseShut, Goto, timerVars, loopVars, ThreadTypeOK, Threads
  <2>2. \/ UNCHANGED <<sock, peer>>
        \/ /\ sock' = [sock EXCEPT ![Working(t)] = 0]
           /\ peer' = [c \in Conns |-> IF c = sock[Working(t)] THEN "gone" ELSE peer[c]]
    BY <1>19 DEF CloseShut, kernelVars
  <2>3. Working(t) \in FDs
    BY <1>h, <1>19 DEF CloseShut, Working, ThreadsOK, Closing, Threads, PoolTypeOK
  <2>4. \A c \in Conns : peer'[c] = "new" <=> peer[c] = "new"
    BY <1>h, <2>2, <2>3 DEF InOrder, KernelTypeOK, ClientTypeOK
  <2>5. \A fd \in FDs : sock'[fd] \in {0, sock[fd]}
    BY <1>h, <2>2 DEF KernelTypeOK
  <2> QED
    BY <1>h, <2>1, <2>4, <2>5, OrderKept DEF ThreadsOK
<1>20. ASSUME NEW t \in Threads, CloseClear(t) PROVE InOrder'
  <2>1. /\ UNCHANGED <<peer, sock, timer, timers>>
        /\ [fd |-> 0, kind |-> "listen"] \in events' => [fd |-> 0, kind |-> "listen"] \in events
        /\ at'[Main] = "accept" => at[Main] = "accept" /\ obj' = obj
    BY <1>h, <1>20, MainAssumption DEF CloseClear, Goto, Working, kernelVars, clientVars,
      timerVars, queueVars, loopVars, Threads, ThreadTypeOK, LoopTypeOK, Events
  <2> QED
    BY <1>h, <2>1, OrderKept DEF ThreadsOK
<1>21. ASSUME NEW t \in Threads, CloseCount(t) PROVE InOrder'
  <2>1. /\ UNCHANGED <<peer, sock, timer, timers>>
        /\ [fd |-> 0, kind |-> "listen"] \in events' => [fd |-> 0, kind |-> "listen"] \in events
        /\ at'[Main] = "accept" => at[Main] = "accept" /\ obj' = obj
    BY <1>h, <1>21, MainAssumption DEF CloseCount, Return, Goto, Pool!Finish, kernelVars,
      clientVars, userVars, timerVars, queueVars, historyVars, loopVars, Threads,
      ThreadTypeOK, LoopTypeOK, Events
  <2> QED
    BY <1>h, <2>1, OrderKept DEF ThreadsOK
<1>22. ASSUME NEW w \in Workers, Start(w) PROVE InOrder'
  <2>1. /\ UNCHANGED <<peer, sock, timer, timers>>
        /\ [fd |-> 0, kind |-> "listen"] \in events' => [fd |-> 0, kind |-> "listen"] \in events
        /\ at'[Main] = "accept" => at[Main] = "accept" /\ obj' = obj
    BY <1>h, <1>22, MainAssumption DEF Start, Goto, Pool!Dispatch, kernelVars, clientVars,
      userVars, localVars, timerVars, historyVars, loopVars, Threads, ThreadTypeOK,
      LoopTypeOK, Events
  <2> QED
    BY <1>h, <2>1, OrderKept DEF ThreadsOK
<1>23. ASSUME NEW w \in Workers, Parse(w) \/ Command(w) PROVE InOrder'
  <2>1. /\ UNCHANGED <<peer, sock, timer, timers>>
        /\ [fd |-> 0, kind |-> "listen"] \in events' => [fd |-> 0, kind |-> "listen"] \in events
        /\ at'[Main] = "accept" => at[Main] = "accept" /\ obj' = obj
    BY <1>h, <1>23, MainAssumption DEF Parse, Goto, kernelVars, clientVars, userVars,
      timerVars, queueVars, historyVars, loopVars, Command, Threads, ThreadTypeOK,
      LoopTypeOK, Events
  <2> QED
    BY <1>h, <2>1, OrderKept DEF ThreadsOK
<1>24. ASSUME NEW w \in Workers, RearmOneShot(w) PROVE InOrder'
  <2>1. /\ UNCHANGED <<peer, sock, timer, timers>>
        /\ [fd |-> 0, kind |-> "listen"] \in events' => [fd |-> 0, kind |-> "listen"] \in events
        /\ at'[Main] = "accept" => at[Main] = "accept" /\ obj' = obj
    BY <1>h, <1>24, MainAssumption DEF RearmOneShot, Return, Rearm, Goto, Pool!Finish,
      clientVars, userVars, localVars, timerVars, queueVars, historyVars, loopVars, Threads,
      ThreadTypeOK, LoopTypeOK, Events
  <2> QED
    BY <1>h, <2>1, OrderKept DEF ThreadsOK
<1>25. ASSUME NEW w \in Workers, Leave(w) PROVE InOrder'
  <2>1. /\ UNCHANGED <<peer, sock, timer, timers>>
        /\ [fd |-> 0, kind |-> "listen"] \in events' => [fd |-> 0, kind |-> "listen"] \in events
        /\ at'[Main] = "accept" => at[Main] = "accept" /\ obj' = obj
    BY <1>h, <1>25, MainAssumption DEF Leave, Pool!Leave, kernelVars, clientVars, userVars,
      localVars, timerVars, historyVars, loopVars, Threads, ThreadTypeOK, LoopTypeOK, Events
  <2> QED
    BY <1>h, <2>1, OrderKept DEF ThreadsOK
<1>w. ASSUME WriteStep PROVE InOrder'
  <2>1. \A x \in Conns : peer'[x] = "new" <=> peer[x] = "new"
    BY <1>h, <1>w, WriteTurn DEF ClientTypeOK
  <2>2. at'[Main] # "accept"
    BY <1>h, <1>w, WriteTurn DEF ThreadTypeOK, Threads
  <2> QED
    BY <1>h, <1>w, <2>1, <2>2, WriteTurn, OrderKept
<1> QED
  BY <1>d, <1>w, <1>1, <1>2, <1>3, <1>4, <1>5, <1>6, <1>7, <1>8, <1>9, <1>10, <1>11, <1>12, <1>13,
    <1>14, <1>15, <1>16, <1>17, <1>18, <1>19, <1>20, <1>21, <1>22, <1>23, <1>24, <1>25 DEF
    Next, ReactorStep, Handle, Close, Teardown, WorkerStep, Threads

(* A step that hands out no descriptor and lists no new timer. *)
LEMMA TimersKept ==
    ASSUME KernelTypeOK, TimerTypeOK, TimersOK,
           \A fd \in FDs : sock'[fd] \in {0, sock[fd]},
           timer' = timer, where' = where,
           \A i \in DOMAIN timers' : \E j \in DOMAIN timers : timers'[i] = timers[j],
           at[Main] = "accept" => at'[Main] = "accept" /\ obj' = obj,
           Popping' => due' > 0 /\ where[Head(timers')] = obj'
    PROVE  TimersOK'
BY DEF TimersOK, KernelTypeOK, TimerTypeOK

(* A timer of the list knows the descriptor of its connection. *)
LEMMA TimersKeep ==
    ASSUME Inductive, Next
    PROVE  TimersOK'
<1>h. TimersOK /\ ThreadsOK /\ ThreadTypeOK /\ LoopTypeOK /\ KernelTypeOK /\ ClientTypeOK /\
  TimerTypeOK /\ PoolTypeOK /\ BatchOK /\ InOrder
  BY DEF Inductive, TypeOK
<1>1. ASSUME NEW c \in Conns, NEW k \in Kinds, Send(c, k) PROVE TimersOK'
  <2>1. /\ UNCHANGED <<timer, where, timers, due, sock>>
        /\ at[Main] = "accept" => at'[Main] = "accept" /\ obj' = obj
        /\ Popping' => Popping /\ obj' = obj
    BY <1>h, <1>1, MainAssumption DEF Send, kernelVars, userVars, localVars, timerVars,
      queueVars, historyVars, loopVars, Threads, ThreadTypeOK, LoopTypeOK, Popping, Closing
  <2> QED
    BY <1>h, <2>1, TimersKept DEF TimersOK
<1>2. ASSUME NEW c \in Conns, HangUp(c) \/ Drain(c) PROVE TimersOK'
  <2>1. /\ UNCHANGED <<timer, where, timers, due, sock>>
        /\ at[Main] = "accept" => at'[Main] = "accept" /\ obj' = obj
        /\ Popping' => Popping /\ obj' = obj
    BY <1>h, <1>2, MainAssumption DEF HangUp, Drain, kernelVars, userVars, localVars, timerVars,
      queueVars, historyVars, loopVars, Threads, ThreadTypeOK, LoopTypeOK, Popping, Closing
  <2> QED
    BY <1>h, <2>1, TimersKept DEF TimersOK
<1>3. ASSUME Elapse \/ AlarmFires \/ Terminate PROVE TimersOK'
  <2>1. /\ UNCHANGED <<timer, where, timers, sock, at, obj, ret>> /\ due' \in {due, due + 1}
    BY <1>3 DEF Elapse, AlarmFires, Terminate, timerVars, kernelVars, loopVars
  <2>2. Popping' => due' > 0 /\ where[Head(timers')] = obj'
    BY <1>h, <2>1 DEF Popping, Closing, TimersOK, TimerTypeOK
  <2> QED
    BY <1>h, <2>1, <2>2, TimersKept
<1>4. ASSUME EpollWait PROVE TimersOK'
  <2>1. /\ UNCHANGED <<timer, where, timers, due, sock>>
        /\ at[Main] = "accept" => at'[Main] = "accept" /\ obj' = obj
        /\ Popping' => Popping /\ obj' = obj
    BY <1>h, <1>4, MainAssumption DEF EpollWait, Goto, clientVars, userVars, localVars,
      timerVars, queueVars, historyVars, Threads, ThreadTypeOK, LoopTypeOK, Popping, Closing
  <2> QED
    BY <1>h, <2>1, TimersKept DEF TimersOK
<1>5. ASSUME NEW e \in events, AcceptFails(e) \/ HandleSignal(e) PROVE TimersOK'
  <2>1. /\ UNCHANGED <<timer, where, timers, due, sock>>
        /\ at[Main] = "accept" => at'[Main] = "accept" /\ obj' = obj
        /\ Popping' => Popping /\ obj' = obj
    BY <1>h, <1>5, MainAssumption DEF AcceptFails, Takes, kernelVars, userVars, localVars,
      timerVars, queueVars, historyVars, HandleSignal, clientVars, Threads, ThreadTypeOK,
      LoopTypeOK, Popping, Closing
  <2> QED
    BY <1>h, <2>1, TimersKept DEF TimersOK
<1>6. ASSUME NEW e \in events, Accept(e) PROVE TimersOK'
  <2>1. /\ UNCHANGED <<timer, where, timers, due>> /\ at'[Main] = "accept"
        /\ obj' = LowestFree /\ sock' = [sock EXCEPT ![LowestFree] = NextConn]
    BY <1>h, <1>6 DEF Accept, Takes, Goto, timerVars, ThreadTypeOK, Threads
  <2>2. at[Main] # "accept"
    BY <1>6 DEF Accept, Takes
  <2> QED
    BY <1>h, <2>1, <2>2 DEF TimersOK, KernelTypeOK, Popping, Closing
<1>7. ASSUME NEW e \in events, HandleReadFails(e) PROVE TimersOK'
  <2>1. /\ UNCHANGED <<sock, timer, where>> /\ timers' = Without(timer[e.fd])
        /\ at[Main] = "loop" /\ at'[Main] = "check" /\ ret' = "loop"
    BY <1>h, <1>7 DEF HandleReadFails, Takes, DelTimer, CloseThen, Goto, kernelVars, ThreadTypeOK, Threads
  <2> QED
    BY <1>h, <2>1, TimersKept, WithoutTimer DEF Popping, Closing
<1>8. ASSUME NEW e \in events, HandleHup(e) PROVE TimersOK'
  <2>1. /\ UNCHANGED <<timer, where, timers, due, sock>>
        /\ at[Main] = "accept" => at'[Main] = "accept" /\ obj' = obj
        /\ Popping' => Popping /\ obj' = obj
    BY <1>h, <1>8, MainAssumption DEF HandleHup, Takes, CloseThen, Goto, kernelVars,
      clientVars, userVars, localVars, timerVars, queueVars, historyVars,
      Threads, ThreadTypeOK, LoopTypeOK, Popping, Closing
  <2> QED
    BY <1>h, <2>1, TimersKept DEF TimersOK
<1>9. ASSUME NEW e \in events, HandleRead(e) PROVE TimersOK'
  <2>1. /\ UNCHANGED <<sock, at, obj, ret>> /\ at[Main] = "loop" /\ AdjustTimer(timer[e.fd])
    BY <1>9 DEF HandleRead, Takes, kernelVars
  <2>2. UNCHANGED <<timer, where>>
    BY <2>1 DEF AdjustTimer
  <2> QED
    BY <1>h, <2>1, <2>2, TimersKept, AdjustedTimers DEF Popping, Closing
<1>10. ASSUME NEW e \in events, HandleNothingToWrite(e) PROVE TimersOK'
  <2>1. /\ UNCHANGED <<timer, where, timers, due, sock>>
        /\ at[Main] = "accept" => at'[Main] = "accept" /\ obj' = obj
        /\ Popping' => Popping /\ obj' = obj
    BY <1>h, <1>10, MainAssumption DEF HandleNothingToWrite, Takes, Rearm, clientVars,
      localVars, timerVars, queueVars, historyVars, Threads, ThreadTypeOK, LoopTypeOK,
      Popping, Closing
  <2> QED
    BY <1>h, <2>1, TimersKept DEF TimersOK
<1>11. ASSUME NEW e \in events, HandleWrite(e) PROVE TimersOK'
  <2>1. /\ UNCHANGED <<timer, where, timers, due, sock>>
        /\ at[Main] = "accept" => at'[Main] = "accept" /\ obj' = obj
        /\ Popping' => Popping /\ obj' = obj
    BY <1>h, <1>11, MainAssumption DEF HandleWrite, Takes, Goto, kernelVars, clientVars,
    userVars, localVars, timerVars, queueVars, historyVars, Threads, ThreadTypeOK, LoopTypeOK, Popping, Closing
  <2> QED
    BY <1>h, <2>1, TimersKept DEF TimersOK
<1>12. ASSUME AcceptInit PROVE TimersOK'
  <2>1. /\ UNCHANGED <<sock, due>> /\ at'[Main] = "loop"
        /\ timer' = [timer EXCEPT ![obj] = Accepted] /\ timers' = Append(timers, Accepted)
        /\ where' = [where EXCEPT ![Accepted] = obj]
    BY <1>h, <1>12 DEF AcceptInit, Goto, kernelVars, ThreadTypeOK, Threads
  <2>2. /\ Accepted \in Conns /\ obj \in FDs /\ sock[obj] \in {0, Accepted}
        /\ \A fd \in FDs : timer[fd] # Accepted
        /\ \A i \in DOMAIN timers : timers[i] # Accepted
    BY <1>h, <1>12, AcceptedConns, BoundsAssumption DEF AcceptInit, InOrder, ThreadsOK, Conns
  <2>3. \A fd \in FDs : timer'[fd] # 0 => where'[timer'[fd]] = fd
    BY <1>h, <2>1, <2>2 DEF TimersOK, TimerTypeOK, Conns
  <2>4. \A i \in DOMAIN timers' : where'[timers'[i]] \in FDs
    <3>1. /\ DOMAIN timers' = 1..(Len(timers) + 1) /\ Len(timers) \in Nat
          /\ DOMAIN timers = 1..Len(timers)
          /\ \A i \in 1..Len(timers) : timers'[i] = timers[i]
          /\ timers'[Len(timers) + 1] = Accepted
      BY <1>h, <2>1, <2>2, AppendProperties, LenProperties DEF TimerTypeOK
    <3>2. \A i \in DOMAIN timers : where'[timers[i]] \in FDs
      BY <1>h, <2>1, <2>2, ListedConns DEF TimersOK, TimerTypeOK
    <3>3. where'[Accepted] = obj
      BY <1>h, <2>1, <2>2 DEF TimerTypeOK
    <3>4. ASSUME NEW i \in DOMAIN timers' PROVE where'[timers'[i]] \in FDs
      <4>1. CASE i \in 1..Len(timers)
        BY <3>1, <3>2, <4>1
      <4>2. CASE i = Len(timers) + 1
        BY <2>2, <3>1, <3>3, <4>2
      <4> QED
        BY <3>1, <4>1, <4>2
    <3> QED
      BY <3>4
  <2>5. \A fd \in FDs : sock'[fd] # 0 => where'[sock'[fd]] = fd
    <3>1. where'[Accepted] = obj /\ \A c \in Conns : c # Accepted => where'[c] = where[c]
      BY <1>h, <2>1, <2>2 DEF TimerTypeOK
    <3>2. ASSUME NEW fd \in FDs, sock[fd] # 0, fd # obj PROVE sock[fd] \in Conns /\ where[sock[fd]] = fd
      BY <1>h, <3>2 DEF TimersOK, KernelTypeOK, Conns
    <3>3. ASSUME NEW fd \in FDs, sock[fd] # 0, fd # obj PROVE sock[fd] # Accepted
      BY <1>h, <1>12, <3>3 DEF AcceptInit, InOrder
    <3> QED
      BY <2>1, <2>2, <3>1, <3>2, <3>3
  <2> QED
    BY <2>1, <2>3, <2>4, <2>5 DEF TimersOK, Popping, Closing
<1>13. ASSUME TickEnds PROVE TimersOK'
  <2>1. /\ UNCHANGED <<timer, where, timers, due, sock>>
        /\ at[Main] = "accept" => at'[Main] = "accept" /\ obj' = obj
        /\ Popping' => Popping /\ obj' = obj
    BY <1>h, <1>13, MainAssumption DEF TickEnds, LoopOrStop, Goto, kernelVars, clientVars,
      userVars, localVars, timerVars, queueVars, historyVars, Threads, ThreadTypeOK,
      LoopTypeOK, Popping, Closing
  <2> QED
    BY <1>h, <2>1, TimersKept DEF TimersOK
<1>14. ASSUME EndOfBatch PROVE TimersOK'
  <2>1. /\ UNCHANGED <<timer, where, timers, due, sock>>
        /\ at[Main] = "accept" => at'[Main] = "accept" /\ obj' = obj
        /\ Popping' => Popping /\ obj' = obj
    BY <1>h, <1>14, MainAssumption DEF EndOfBatch, Goto, LoopOrStop, kernelVars, clientVars,
      userVars, localVars, timerVars, queueVars, historyVars, loopVars, Threads,
      ThreadTypeOK, LoopTypeOK, Popping, Closing
  <2> QED
    BY <1>h, <2>1, TimersKept DEF TimersOK
<1>15. ASSUME TickExpires PROVE TimersOK'
  <2>1. /\ UNCHANGED <<timer, where, timers, due, sock>> /\ at'[Main] = "check"
        /\ due > 0 /\ obj' = where[Head(timers)] /\ at[Main] = "tick"
    BY <1>h, <1>15 DEF TickExpires, CloseThen, Goto, kernelVars, timerVars, ThreadTypeOK, Threads
  <2> QED
    BY <1>h, <2>1, TimersKept DEF TimersOK, KernelTypeOK
<1>16. ASSUME TickPops PROVE TimersOK'
  <2>1. /\ UNCHANGED <<sock, timer, where>> /\ timers' = Tail(timers) /\ at'[Main] = "tick" /\ at[Main] = "pop"
    BY <1>h, <1>16 DEF TickPops, Goto, kernelVars, ThreadTypeOK, Threads
  <2>2. timers # << >>
    BY <1>h, <2>1, EmptySeq DEF TimersOK, Popping, TimerTypeOK
  <2>3. \A i \in DOMAIN timers' : \E j \in DOMAIN timers : timers'[i] = timers[j]
    BY <1>h, <2>1, <2>2, TailElements DEF TimerTypeOK
  <2> QED
    BY <1>h, <2>1, <2>3, TimersKept DEF KernelTypeOK, Popping, Closing
<1>17. ASSUME DeleteUsers \/ DeletePool \/ JoinThenDestroyEngines PROVE TimersOK'
  <2>1. /\ UNCHANGED <<timer, where, timers, due, sock>>
        /\ at[Main] = "accept" => at'[Main] = "accept" /\ obj' = obj
        /\ Popping' => Popping /\ obj' = obj
    BY <1>h, <1>17, MainAssumption DEF DeleteUsers, Goto, kernelVars, clientVars, userVars,
      localVars, timerVars, queueVars, historyVars, loopVars, DeletePool, Pool!Cancel,
      JoinThenDestroyEngines, Threads, ThreadTypeOK, LoopTypeOK, Popping, Closing
  <2> QED
    BY <1>h, <2>1, TimersKept DEF TimersOK
<1>18. ASSUME NEW t \in Threads, CloseCheck(t) PROVE TimersOK'
  <2>1. /\ UNCHANGED <<timer, where, timers, due, sock>>
        /\ at[Main] = "accept" => at'[Main] = "accept" /\ obj' = obj
        /\ Popping' => Popping /\ obj' = obj
    BY <1>h, <1>18, MainAssumption DEF CloseCheck, Goto, Return, Working, Pool!Finish,
      kernelVars, clientVars, userVars, localVars, timerVars, queueVars, historyVars,
      loopVars, Threads, ThreadTypeOK, LoopTypeOK, Popping, Closing
  <2> QED
    BY <1>h, <2>1, TimersKept DEF TimersOK
<1>19. ASSUME NEW t \in Threads, CloseShut(t) PROVE TimersOK'
  <2>1. /\ UNCHANGED <<timer, where, timers, due>>
        /\ at[Main] = "accept" => at'[Main] = "accept" /\ obj' = obj
        /\ Popping' => Popping /\ obj' = obj
    BY <1>h, <1>19, MainAssumption
    DEF CloseShut, Goto, timerVars, loopVars, ThreadTypeOK, Threads, Popping, Closing
  <2>2. UNCHANGED sock \/ sock' = [sock EXCEPT ![Working(t)] = 0]
    BY <1>19 DEF CloseShut, kernelVars
  <2> QED
    BY <1>h, <2>1, <2>2, TimersKept DEF TimersOK, KernelTypeOK
<1>20. ASSUME NEW t \in Threads, CloseClear(t) PROVE TimersOK'
  <2>1. /\ UNCHANGED <<timer, where, timers, due, sock>>
        /\ at[Main] = "accept" => at'[Main] = "accept" /\ obj' = obj
        /\ Popping' => Popping /\ obj' = obj
    BY <1>h, <1>20, MainAssumption DEF CloseClear, Goto, Working, kernelVars, clientVars,
      timerVars, queueVars, loopVars, Threads, ThreadTypeOK, LoopTypeOK, Popping, Closing
  <2> QED
    BY <1>h, <2>1, TimersKept DEF TimersOK
<1>21. ASSUME NEW t \in Threads, CloseCount(t) PROVE TimersOK'
  <2>1. /\ UNCHANGED <<timer, where, timers, due, sock>>
        /\ at[Main] = "accept" => at'[Main] = "accept" /\ obj' = obj
        /\ Popping' => Popping /\ obj' = obj
    BY <1>h, <1>21, MainAssumption DEF CloseCount, Return, Goto, Pool!Finish, kernelVars,
      clientVars, userVars, timerVars, queueVars, historyVars, loopVars, Threads,
      ThreadTypeOK, LoopTypeOK, Popping, Closing
  <2> QED
    BY <1>h, <2>1, TimersKept DEF TimersOK
<1>22. ASSUME NEW w \in Workers, Start(w) PROVE TimersOK'
  <2>1. /\ UNCHANGED <<timer, where, timers, due, sock>>
        /\ at[Main] = "accept" => at'[Main] = "accept" /\ obj' = obj
        /\ Popping' => Popping /\ obj' = obj
    BY <1>h, <1>22, MainAssumption DEF Start, Goto, Pool!Dispatch, kernelVars, clientVars,
      userVars, localVars, timerVars, historyVars, loopVars, Threads, ThreadTypeOK,
      LoopTypeOK, Popping, Closing
  <2> QED
    BY <1>h, <2>1, TimersKept DEF TimersOK
<1>23. ASSUME NEW w \in Workers, Parse(w) \/ Command(w) PROVE TimersOK'
  <2>1. /\ UNCHANGED <<timer, where, timers, due, sock>>
        /\ at[Main] = "accept" => at'[Main] = "accept" /\ obj' = obj
        /\ Popping' => Popping /\ obj' = obj
    BY <1>h, <1>23, MainAssumption DEF Parse, Goto, kernelVars, clientVars, userVars,
      timerVars, queueVars, historyVars, loopVars, Command, Threads, ThreadTypeOK,
      LoopTypeOK, Popping, Closing
  <2> QED
    BY <1>h, <2>1, TimersKept DEF TimersOK
<1>24. ASSUME NEW w \in Workers, RearmOneShot(w) PROVE TimersOK'
  <2>1. /\ UNCHANGED <<timer, where, timers, due, sock>>
        /\ at[Main] = "accept" => at'[Main] = "accept" /\ obj' = obj
        /\ Popping' => Popping /\ obj' = obj
    BY <1>h, <1>24, MainAssumption DEF RearmOneShot, Return, Rearm, Goto, Pool!Finish,
      clientVars, userVars, localVars, timerVars, queueVars, historyVars, loopVars, Threads,
      ThreadTypeOK, LoopTypeOK, Popping, Closing
  <2> QED
    BY <1>h, <2>1, TimersKept DEF TimersOK
<1>25. ASSUME NEW w \in Workers, Leave(w) PROVE TimersOK'
  <2>1. /\ UNCHANGED <<timer, where, timers, due, sock>>
        /\ at[Main] = "accept" => at'[Main] = "accept" /\ obj' = obj
        /\ Popping' => Popping /\ obj' = obj
    BY <1>h, <1>25, MainAssumption DEF Leave, Pool!Leave, kernelVars, clientVars, userVars,
      localVars, timerVars, historyVars, loopVars, Threads, ThreadTypeOK, LoopTypeOK,
      Popping, Closing
  <2> QED
    BY <1>h, <2>1, TimersKept DEF TimersOK
<1>w. ASSUME WriteStep PROVE TimersOK'
  <2>1. /\ UNCHANGED <<timer, where, timers, due, sock>>
        /\ at[Main] = "accept" => at'[Main] = "accept" /\ obj' = obj
        /\ Popping' => Popping /\ obj' = obj
    BY <1>h, <1>w, WriteTurn DEF ThreadTypeOK, Threads, Popping, Closing
  <2> QED
    BY <1>h, <2>1, TimersKept DEF TimersOK
<1> QED
  BY <1>w, <1>1, <1>2, <1>3, <1>4, <1>5, <1>6, <1>7, <1>8, <1>9, <1>10, <1>11, <1>12, <1>13,
    <1>14, <1>15, <1>16, <1>17, <1>18, <1>19, <1>20, <1>21, <1>22, <1>23, <1>24, <1>25 DEF
    Next, ReactorStep, Handle, Close, Teardown, WorkerStep, Threads

=============================================================================
