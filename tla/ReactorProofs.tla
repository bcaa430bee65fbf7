--------------------------- MODULE ReactorProofs ---------------------------
(***************************************************************************)
(* The invariant of the reactor is inductive, and the safety properties    *)
(* follow from it.  Each lemma takes one conjunct of the invariant: it is  *)
(* kept by the actions that leave its variables alone (one lemma says so), *)
(* and every action that does not is a step of its own.  The histories     *)
(* reused, overtaken and raced only rise, so a conjunct that holds while   *)
(* one of them is FALSE may use every other conjunct that does.            *)
(***************************************************************************)
EXTENDS ReactorOrderProofs

(* The history variables only rise. *)
LEMMA HistoryGrows ==
    ASSUME Next
    PROVE  (reused => reused') /\ (overtaken => overtaken') /\ (raced => raced')
<1>w. WriteStep => UNCHANGED <<reused, overtaken, raced>>
  BY WriteTurn
<1>1. reused => reused'
  BY <1>w, ZenonT(30) DEF Next, ReactorStep, Handle, Close, Teardown, WorkerStep, Threads, Send, kernelVars,
    userVars, localVars, timerVars, queueVars, historyVars, loopVars, HangUp, Drain, Elapse,
    clientVars, AlarmFires, Terminate, EpollWait, Goto, AcceptFails, Takes, Accept,
    HandleHup, CloseThen, HandleRead, AdjustTimer, Pool!Post, HandleReadFails, DelTimer,
    HandleNothingToWrite, Rearm, HandleWrite, HandleSignal, AcceptInit,
    EndOfBatch, LoopOrStop, TickExpires, TickPops, TickEnds, DeleteUsers, DeletePool,
    Pool!Cancel, JoinThenDestroyEngines, CloseCheck, Return, Working, Pool!Finish,
    CloseShut, CloseClear, CloseCount, Start, Pool!Dispatch, Parse, Command, RearmOneShot,
    Leave, Pool!Leave
<1>2. overtaken => overtaken'
  BY <1>w, ZenonT(30) DEF Next, ReactorStep, Handle, Close, Teardown, WorkerStep, Threads, Send, kernelVars,
    userVars, localVars, timerVars, queueVars, historyVars, loopVars, HangUp, Drain, Elapse,
    clientVars, AlarmFires, Terminate, EpollWait, Goto, AcceptFails, Takes, Accept,
    HandleHup, CloseThen, HandleRead, AdjustTimer, Pool!Post, HandleReadFails, DelTimer,
    HandleNothingToWrite, Rearm, HandleWrite, HandleSignal, AcceptInit,
    EndOfBatch, LoopOrStop, TickExpires, TickPops, TickEnds, DeleteUsers, DeletePool,
    Pool!Cancel, JoinThenDestroyEngines, CloseCheck, Return, Working, Pool!Finish,
    CloseShut, CloseClear, CloseCount, Start, Pool!Dispatch, Parse, Command, RearmOneShot,
    Leave, Pool!Leave
<1>3. raced => raced'
  BY <1>w, ZenonT(30) DEF Next, ReactorStep, Handle, Close, Teardown, WorkerStep, Threads, Send, kernelVars,
    userVars, localVars, timerVars, queueVars, historyVars, loopVars, HangUp, Drain, Elapse,
    clientVars, AlarmFires, Terminate, EpollWait, Goto, AcceptFails, Takes, Accept,
    HandleHup, CloseThen, HandleRead, AdjustTimer, Pool!Post, HandleReadFails, DelTimer,
    HandleNothingToWrite, Rearm, HandleWrite, HandleSignal, AcceptInit,
    EndOfBatch, LoopOrStop, TickExpires, TickPops, TickEnds, DeleteUsers, DeletePool,
    Pool!Cancel, JoinThenDestroyEngines, CloseCheck, Return, Working, Pool!Finish,
    CloseShut, CloseClear, CloseCount, Start, Pool!Dispatch, Parse, Command, RearmOneShot,
    Leave, Pool!Leave
<1> QED
  BY <1>1, <1>2, <1>3

(* A step that opens and closes no socket keeps what is registered. *)
LEMMA RegisteredKept ==
    ASSUME Registered, UNCHANGED <<sock, m_sockfd>>,
           \A t \in Threads : at'[t] = "clear" => at[t] = "clear" /\ Working(t)' = Working(t),
           at'[Main] \in {"count", "pop"} => at[Main] \in {"count", "pop"} /\ obj' = obj
    PROVE  Registered'
BY DEF Registered

(* An open socket has an object that knows it. *)
LEMMA RegisteredKeeps ==
    ASSUME Inductive, Next, ~reused'
    PROVE  Registered'
<1>h. ThreadsOK /\ ThreadTypeOK /\ LoopTypeOK /\ KernelTypeOK /\ UserTypeOK /\ PoolTypeOK /\
  Registered
  BY HistoryGrows DEF Inductive, TypeOK
<1>1. ASSUME NEW c \in Conns, NEW k \in Kinds, Send(c, k) PROVE Registered'
  <2>1. /\ UNCHANGED <<sock, m_sockfd>>
        /\ \A t \in Threads : at'[t] = "clear" => at[t] = "clear" /\ Working(t)' = Working(t)
        /\ at'[Main] \in {"count", "pop"} => at[Main] \in {"count", "pop"} /\ obj' = obj
    BY <1>h, <1>1, MainAssumption DEF Send, kernelVars, userVars, localVars, timerVars,
      queueVars, historyVars, loopVars, Threads, ThreadTypeOK, LoopTypeOK, Working,
      PoolTypeOK
  <2> QED
    BY <1>h, <2>1, RegisteredKept
<1>2. ASSUME NEW c \in Conns, HangUp(c) \/ Drain(c) PROVE Registered'
  <2>1. /\ UNCHANGED <<sock, m_sockfd>>
        /\ \A t \in Threads : at'[t] = "clear" => at[t] = "clear" /\ Working(t)' = Working(t)
        /\ at'[Main] \in {"count", "pop"} => at[Main] \in {"count", "pop"} /\ obj' = obj
    BY <1>h, <1>2, MainAssumption DEF HangUp, Drain, kernelVars, userVars, localVars, timerVars,
      queueVars, historyVars, loopVars, Threads, ThreadTypeOK, LoopTypeOK, Working,
      PoolTypeOK
  <2> QED
    BY <1>h, <2>1, RegisteredKept
<1>3. ASSUME Elapse \/ AlarmFires \/ Terminate PROVE Registered'
  <2>1. /\ UNCHANGED <<sock, m_sockfd>>
        /\ \A t \in Threads : at'[t] = "clear" => at[t] = "clear" /\ Working(t)' = Working(t)
        /\ at'[Main] \in {"count", "pop"} => at[Main] \in {"count", "pop"} /\ obj' = obj
    BY <1>h, <1>3, MainAssumption DEF Elapse, kernelVars, clientVars, userVars, localVars,
      queueVars, historyVars, loopVars, AlarmFires, timerVars, Terminate, Threads,
      ThreadTypeOK, LoopTypeOK, Working, PoolTypeOK
  <2> QED
    BY <1>h, <2>1, RegisteredKept
<1>4. ASSUME EpollWait PROVE Registered'
  <2>1. /\ UNCHANGED <<sock, m_sockfd>>
        /\ \A t \in Threads : at'[t] = "clear" => at[t] = "clear" /\ Working(t)' = Working(t)
        /\ at'[Main] \in {"count", "pop"} => at[Main] \in {"count", "pop"} /\ obj' = obj
    BY <1>h, <1>4, MainAssumption DEF EpollWait, Goto, clientVars, userVars, localVars,
      timerVars, queueVars, historyVars, Threads, ThreadTypeOK, LoopTypeOK, Working,
      PoolTypeOK
  <2> QED
    BY <1>h, <2>1, RegisteredKept
<1>5. ASSUME NEW e \in events, AcceptFails(e) \/ HandleSignal(e) PROVE Registered'
  <2>1. /\ UNCHANGED <<sock, m_sockfd>>
        /\ \A t \in Threads : at'[t] = "clear" => at[t] = "clear" /\ Working(t)' = Working(t)
        /\ at'[Main] \in {"count", "pop"} => at[Main] \in {"count", "pop"} /\ obj' = obj
    BY <1>h, <1>5, MainAssumption DEF AcceptFails, Takes, kernelVars, userVars, localVars,
      timerVars, queueVars, historyVars, HandleSignal, clientVars, Threads, ThreadTypeOK,
      LoopTypeOK, Working, PoolTypeOK
  <2> QED
    BY <1>h, <2>1, RegisteredKept
<1>6. ASSUME NEW e \in events, Accept(e) PROVE Registered'
  <2>1. /\ at' = [at EXCEPT ![Main] = "accept"] /\ obj' = LowestFree /\ UNCHANGED running
        /\ sock' = [sock EXCEPT ![LowestFree] = NextConn]
        /\ m_sockfd' = [m_sockfd EXCEPT ![LowestFree] = LowestFree]
        /\ ~\E w \in Workers : running[w] = LowestFree /\ at[w] = "clear"
    BY <1>6 DEF Accept, Goto, queueVars
  <2>2. LowestFree \in FDs
    BY <1>6, LowestFreeIsFree DEF Accept
  <2>3. \A fd \in FDs : sock'[fd] # 0 => m_sockfd'[fd] = fd
    BY <1>h, <2>1, <2>2 DEF Registered, KernelTypeOK, UserTypeOK
  <2>4. ASSUME NEW t \in Threads, at'[t] = "clear" PROVE sock'[Working(t)'] = 0
    <3>1. t \in Workers /\ at[t] = "clear" /\ Working(t) = running[t] /\ Working(t)' = running[t]
      BY <1>h, <2>1, <2>4, MainAssumption DEF Threads, ThreadTypeOK, Working
    <3> QED
      BY <1>h, <2>1, <2>2, <3>1 DEF Registered, KernelTypeOK, PoolTypeOK
  <2>5. at'[Main] = "accept"
    BY <1>h, <2>1 DEF ThreadTypeOK, Threads
  <2> QED
    BY <2>3, <2>4, <2>5 DEF Registered
<1>7. ASSUME NEW e \in events, HandleHup(e) \/ HandleReadFails(e) PROVE
  Registered'
  <2>1. /\ UNCHANGED <<sock, m_sockfd>>
        /\ \A t \in Threads : at'[t] = "clear" => at[t] = "clear" /\ Working(t)' = Working(t)
        /\ at'[Main] \in {"count", "pop"} => at[Main] \in {"count", "pop"} /\ obj' = obj
    BY <1>h, <1>7, MainAssumption DEF HandleHup, Takes, CloseThen, Goto, kernelVars,
      clientVars, userVars, localVars, timerVars, queueVars, historyVars, HandleReadFails,
      DelTimer, Threads, ThreadTypeOK, LoopTypeOK, Working, PoolTypeOK
  <2> QED
    BY <1>h, <2>1, RegisteredKept
<1>8. ASSUME NEW e \in events, HandleRead(e) PROVE Registered'
  <2>1. /\ UNCHANGED <<sock, m_sockfd>>
        /\ \A t \in Threads : at'[t] = "clear" => at[t] = "clear" /\ Working(t)' = Working(t)
        /\ at'[Main] \in {"count", "pop"} => at[Main] \in {"count", "pop"} /\ obj' = obj
    BY <1>h, <1>8, MainAssumption DEF HandleRead, Takes, AdjustTimer, Pool!Post,
      kernelVars, localVars, historyVars, Threads, ThreadTypeOK, LoopTypeOK, Working,
      PoolTypeOK
  <2> QED
    BY <1>h, <2>1, RegisteredKept
<1>9. ASSUME NEW e \in events, HandleNothingToWrite(e) PROVE Registered'
  <2>1. /\ UNCHANGED <<sock, m_sockfd>>
        /\ \A t \in Threads : at'[t] = "clear" => at[t] = "clear" /\ Working(t)' = Working(t)
        /\ at'[Main] \in {"count", "pop"} => at[Main] \in {"count", "pop"} /\ obj' = obj
    BY <1>h, <1>9, MainAssumption DEF HandleNothingToWrite, Takes, Rearm, clientVars,
      localVars, timerVars, queueVars, historyVars, Threads, ThreadTypeOK, LoopTypeOK,
      Working, PoolTypeOK
  <2> QED
    BY <1>h, <2>1, RegisteredKept
<1>10. ASSUME NEW e \in events, HandleWrite(e) PROVE Registered'
  <2>1. /\ UNCHANGED <<sock, m_sockfd>>
        /\ \A t \in Threads : at'[t] = "clear" => at[t] = "clear" /\ Working(t)' = Working(t)
        /\ at'[Main] \in {"count", "pop"} => at[Main] \in {"count", "pop"} /\ obj' = obj
    BY <1>h, <1>10, MainAssumption DEF HandleWrite, Takes, Goto, kernelVars,
      clientVars, userVars, localVars, timerVars, queueVars, historyVars, Threads, ThreadTypeOK, LoopTypeOK, Working,
      PoolTypeOK
  <2> QED
    BY <1>h, <2>1, RegisteredKept
<1>w. ASSUME WriteStep PROVE Registered'
  <2>1. /\ UNCHANGED <<sock, m_sockfd>>
        /\ \A t \in Threads : at'[t] = "clear" => at[t] = "clear" /\ Working(t)' = Working(t)
        /\ at'[Main] \in {"count", "pop"} => at[Main] \in {"count", "pop"} /\ obj' = obj
    BY <1>h, <1>w, WriteTurn, MainAssumption DEF Threads, ThreadTypeOK, LoopTypeOK, Working,
      PoolTypeOK
  <2> QED
    BY <1>h, <2>1, RegisteredKept
<1>11. ASSUME AcceptInit PROVE Registered'
  <2>1. /\ UNCHANGED <<sock, m_sockfd>>
        /\ \A t \in Threads : at'[t] = "clear" => at[t] = "clear" /\ Working(t)' = Working(t)
        /\ at'[Main] \in {"count", "pop"} => at[Main] \in {"count", "pop"} /\ obj' = obj
    BY <1>h, <1>11, MainAssumption DEF AcceptInit, Goto, kernelVars, clientVars, queueVars,
      historyVars, loopVars, Threads, ThreadTypeOK, LoopTypeOK, Working, PoolTypeOK
  <2> QED
    BY <1>h, <2>1, RegisteredKept
<1>12. ASSUME EndOfBatch \/ TickEnds PROVE Registered'
  <2>1. /\ UNCHANGED <<sock, m_sockfd>>
        /\ \A t \in Threads : at'[t] = "clear" => at[t] = "clear" /\ Working(t)' = Working(t)
        /\ at'[Main] \in {"count", "pop"} => at[Main] \in {"count", "pop"} /\ obj' = obj
    BY <1>h, <1>12, MainAssumption DEF EndOfBatch, Goto, LoopOrStop, kernelVars, clientVars,
      userVars, localVars, timerVars, queueVars, historyVars, loopVars, TickEnds, Threads,
      ThreadTypeOK, LoopTypeOK, Working, PoolTypeOK
  <2> QED
    BY <1>h, <2>1, RegisteredKept
<1>13. ASSUME TickExpires PROVE Registered'
  <2>1. /\ UNCHANGED <<sock, m_sockfd>>
        /\ \A t \in Threads : at'[t] = "clear" => at[t] = "clear" /\ Working(t)' = Working(t)
        /\ at'[Main] \in {"count", "pop"} => at[Main] \in {"count", "pop"} /\ obj' = obj
    BY <1>h, <1>13, MainAssumption DEF TickExpires, CloseThen, Goto, kernelVars, clientVars,
      userVars, localVars, timerVars, queueVars, Threads, ThreadTypeOK, LoopTypeOK, Working,
      PoolTypeOK
  <2> QED
    BY <1>h, <2>1, RegisteredKept
<1>14. ASSUME TickPops PROVE Registered'
  <2>1. /\ UNCHANGED <<sock, m_sockfd>>
        /\ \A t \in Threads : at'[t] = "clear" => at[t] = "clear" /\ Working(t)' = Working(t)
        /\ at'[Main] \in {"count", "pop"} => at[Main] \in {"count", "pop"} /\ obj' = obj
    BY <1>h, <1>14, MainAssumption DEF TickPops, Goto, kernelVars, clientVars, userVars,
      localVars, queueVars, historyVars, loopVars, Threads, ThreadTypeOK, LoopTypeOK,
      Working, PoolTypeOK
  <2> QED
    BY <1>h, <2>1, RegisteredKept
<1>15. ASSUME DeleteUsers \/ DeletePool \/ JoinThenDestroyEngines PROVE Registered'
  <2>1. /\ UNCHANGED <<sock, m_sockfd>>
        /\ \A t \in Threads : at'[t] = "clear" => at[t] = "clear" /\ Working(t)' = Working(t)
        /\ at'[Main] \in {"count", "pop"} => at[Main] \in {"count", "pop"} /\ obj' = obj
    BY <1>h, <1>15, MainAssumption DEF DeleteUsers, Goto, kernelVars, clientVars, userVars,
      localVars, timerVars, queueVars, historyVars, loopVars, DeletePool, Pool!Cancel,
      JoinThenDestroyEngines, Threads, ThreadTypeOK, LoopTypeOK, Working, PoolTypeOK
  <2> QED
    BY <1>h, <2>1, RegisteredKept
<1>16. ASSUME NEW t \in Threads, CloseCheck(t) PROVE Registered'
  <2>1. /\ UNCHANGED <<sock, m_sockfd>> /\ obj' = obj
        /\ \A u \in Threads : at'[u] = "clear" => at[u] = "clear" /\ Working(u)' = Working(u)
        /\ at'[Main] = "pop" => at[Main] = "pop" \/ m_sockfd[obj] = NoFD
        /\ at'[Main] = "count" => at[Main] = "count"
    BY <1>h, <1>16, MainAssumption
    DEF CloseCheck, Return, Goto, Pool!Finish, kernelVars, userVars, loopVars, queueVars, Working,
        Threads, ThreadTypeOK, LoopTypeOK, PoolTypeOK
  <2>2. at'[Main] = "pop" => sock[obj] = 0
    BY <1>h, <1>16, <2>1, FDsAssumption DEF Registered, ThreadsOK, CloseCheck, Closing, Threads, ThreadTypeOK,
      Return, Goto
  <2> QED
    BY <1>h, <2>1, <2>2 DEF Registered
<1>17. ASSUME NEW t \in Threads, CloseShut(t) PROVE Registered'
  <2>1. /\ UNCHANGED <<m_sockfd, obj, running>> /\ at[t] = "shut" /\ at' = [at EXCEPT ![t] = "clear"]
        /\ \/ m_sockfd[Working(t)] = NoFD /\ UNCHANGED sock
           \/ sock' = [sock EXCEPT ![Working(t)] = 0]
    BY <1>17 DEF CloseShut, Goto, kernelVars, userVars, loopVars, queueVars
  <2>2. Working(t) \in FDs
    BY <1>h, <2>1 DEF Working, ThreadsOK, PoolTypeOK, Threads, Closing
  <2>3. sock'[Working(t)] = 0 /\ \A fd \in FDs : sock'[fd] \in {0, sock[fd]}
    BY <1>h, <2>1, <2>2, FDsAssumption DEF Registered, KernelTypeOK
  <2>4. \A fd \in FDs : sock'[fd] # 0 => m_sockfd'[fd] = fd
    BY <1>h, <2>1, <2>3 DEF Registered
  <2>5. ASSUME NEW u \in Threads, at'[u] = "clear" PROVE sock'[Working(u)'] = 0
    <3>1. Working(u)' = Working(u) /\ (u = t \/ at[u] = "clear")
      BY <1>h, <2>1, <2>5 DEF Working, ThreadTypeOK
    <3>2. u # t => Working(u) \in FDs
      BY <1>h, <3>1 DEF Working, ThreadsOK, PoolTypeOK, Threads, Closing
    <3> QED
      BY <1>h, <2>3, <3>1, <3>2 DEF Registered
  <2>6. at'[Main] \in {"count", "pop"} => at[Main] \in {"count", "pop"} /\ obj \in FDs
    BY <1>h, <2>1 DEF ThreadsOK, ThreadTypeOK, Threads, Closing
  <2> QED
    BY <1>h, <2>1, <2>3, <2>4, <2>5, <2>6 DEF Registered
<1>18. ASSUME NEW t \in Threads, CloseClear(t) PROVE Registered'
  <2>1. /\ UNCHANGED <<sock, obj, running>> /\ at[t] = "clear" /\ at' = [at EXCEPT ![t] = "count"]
        /\ m_sockfd' = [m_sockfd EXCEPT ![Working(t)] = NoFD]
    BY <1>18 DEF CloseClear, Goto, kernelVars, loopVars, queueVars
  <2>2. sock[Working(t)] = 0
    BY <1>h, <2>1 DEF Registered
  <2>3. \A fd \in FDs : sock'[fd] # 0 => m_sockfd'[fd] = fd
    BY <1>h, <2>1, <2>2 DEF Registered, UserTypeOK
  <2>4. \A u \in Threads : at'[u] = "clear" => at[u] = "clear" /\ Working(u)' = Working(u)
    BY <1>h, <2>1 DEF ThreadTypeOK, Working
  <2>5. at'[Main] \in {"count", "pop"} => sock[obj] = 0
    BY <1>h, <2>1, <2>2 DEF Registered, ThreadTypeOK, Threads, Working
  <2> QED
    BY <1>h, <2>1, <2>3, <2>4, <2>5 DEF Registered
<1>19. ASSUME NEW t \in Threads, CloseCount(t) PROVE Registered'
  <2>1. /\ UNCHANGED <<sock, m_sockfd>>
        /\ \A u \in Threads : at'[u] = "clear" => at[u] = "clear" /\ Working(u)' = Working(u)
        /\ at'[Main] \in {"count", "pop"} => at[Main] \in {"count", "pop"} /\ obj' = obj
    BY <1>h, <1>19, MainAssumption DEF CloseCount, Return, Goto, Pool!Finish, kernelVars,
      clientVars, userVars, timerVars, queueVars, historyVars, loopVars, Threads,
      ThreadTypeOK, LoopTypeOK, Working, PoolTypeOK
  <2> QED
    BY <1>h, <2>1, RegisteredKept
<1>20. ASSUME NEW w \in Workers, Start(w) PROVE Registered'
  <2>1. /\ UNCHANGED <<sock, m_sockfd>>
        /\ \A t \in Threads : at'[t] = "clear" => at[t] = "clear" /\ Working(t)' = Working(t)
        /\ at'[Main] \in {"count", "pop"} => at[Main] \in {"count", "pop"} /\ obj' = obj
    BY <1>h, <1>20, MainAssumption DEF Start, Goto, Pool!Dispatch, kernelVars, clientVars,
      userVars, localVars, timerVars, historyVars, loopVars, Threads, ThreadTypeOK,
      LoopTypeOK, Working, PoolTypeOK
  <2> QED
    BY <1>h, <2>1, RegisteredKept
<1>21. ASSUME NEW w \in Workers, Parse(w) \/ Command(w) PROVE Registered'
  <2>1. /\ UNCHANGED <<sock, m_sockfd>>
        /\ \A t \in Threads : at'[t] = "clear" => at[t] = "clear" /\ Working(t)' = Working(t)
        /\ at'[Main] \in {"count", "pop"} => at[Main] \in {"count", "pop"} /\ obj' = obj
    BY <1>h, <1>21, MainAssumption DEF Parse, Goto, kernelVars, clientVars, userVars,
      timerVars, queueVars, historyVars, loopVars, Command, Threads, ThreadTypeOK,
      LoopTypeOK, Working, PoolTypeOK
  <2> QED
    BY <1>h, <2>1, RegisteredKept
<1>22. ASSUME NEW w \in Workers, RearmOneShot(w) PROVE Registered'
  <2>1. /\ UNCHANGED <<sock, m_sockfd>>
        /\ \A t \in Threads : at'[t] = "clear" => at[t] = "clear" /\ Working(t)' = Working(t)
        /\ at'[Main] \in {"count", "pop"} => at[Main] \in {"count", "pop"} /\ obj' = obj
    BY <1>h, <1>22, MainAssumption DEF RearmOneShot, Return, Rearm, Goto, Pool!Finish,
      clientVars, userVars, localVars, timerVars, queueVars, historyVars, loopVars, Threads,
      ThreadTypeOK, LoopTypeOK, Working, PoolTypeOK
  <2> QED
    BY <1>h, <2>1, RegisteredKept
<1>23. ASSUME NEW w \in Workers, Leave(w) PROVE Registered'
  <2>1. /\ UNCHANGED <<sock, m_sockfd>>
        /\ \A t \in Threads : at'[t] = "clear" => at[t] = "clear" /\ Working(t)' = Working(t)
        /\ at'[Main] \in {"count", "pop"} => at[Main] \in {"count", "pop"} /\ obj' = obj
    BY <1>h, <1>23, MainAssumption DEF Leave, Pool!Leave, kernelVars, clientVars, userVars,
      localVars, timerVars, historyVars, loopVars, Threads, ThreadTypeOK, LoopTypeOK,
      Working, PoolTypeOK
  <2> QED
    BY <1>h, <2>1, RegisteredKept
<1> QED
  BY <1>w, <1>1, <1>2, <1>3, <1>4, <1>5, <1>6, <1>7, <1>8, <1>9, <1>10, <1>11, <1>12, <1>13,
    <1>14, <1>15, <1>16, <1>17, <1>18, <1>19, <1>20, <1>21, <1>22, <1>23 DEF Next,
    ReactorStep, Handle, Close, Teardown, WorkerStep, Threads

(* A step that unlinks no timer and opens no socket keeps the timers. *)
LEMMA TimedKept ==
    ASSUME Timed, timer' = timer,
           \A fd \in FDs : sock'[fd] \in {0, sock[fd]},
           \A j \in DOMAIN timers : \E i \in DOMAIN timers' : timers'[i] = timers[j],
           \A fd \in FDs : MainHas(fd) => MainHas(fd)' \/ sock'[fd] = 0,
           \A e \in events' : e.kind = "in" => e \in events
    PROVE  Timed'
BY DEF Timed, Listed, InRange

(* An open socket has its own timer in the list. *)
LEMMA TimedKeeps ==
    ASSUME Inductive, Next, ~reused'
    PROVE  Timed'
<1>h. Registered /\ Timed /\ ThreadsOK /\ ThreadTypeOK /\ LoopTypeOK /\ KernelTypeOK /\
  TimerTypeOK /\ TimersOK /\ PoolTypeOK /\ BatchOK /\ InOrder /\ ClientTypeOK
  BY HistoryGrows DEF Inductive, TypeOK
<1>1. ASSUME NEW c \in Conns, NEW k \in Kinds, Send(c, k) PROVE Timed'
  <2>1. /\ UNCHANGED <<timer, timers, sock>> /\ events' \subseteq events
        /\ \A fd \in FDs : MainHas(fd) => MainHas(fd)'
    BY <1>h, <1>1, MainAssumption DEF Send, kernelVars, userVars, localVars, timerVars,
      queueVars, historyVars, loopVars, Threads, ThreadTypeOK, LoopTypeOK, MainHas
  <2> QED
    BY <1>h, <2>1, TimedKept
<1>2. ASSUME NEW c \in Conns, HangUp(c) \/ Drain(c) PROVE Timed'
  <2>1. /\ UNCHANGED <<timer, timers, sock>> /\ events' \subseteq events
        /\ \A fd \in FDs : MainHas(fd) => MainHas(fd)'
    BY <1>h, <1>2, MainAssumption DEF HangUp, Drain, kernelVars, userVars, localVars, timerVars,
      queueVars, historyVars, loopVars, Threads, ThreadTypeOK, LoopTypeOK, MainHas
  <2> QED
    BY <1>h, <2>1, TimedKept
<1>3. ASSUME Elapse \/ AlarmFires \/ Terminate PROVE Timed'
  <2>1. /\ UNCHANGED <<timer, timers, sock>> /\ events' \subseteq events
        /\ \A fd \in FDs : MainHas(fd) => MainHas(fd)'
    BY <1>h, <1>3, MainAssumption DEF Elapse, kernelVars, clientVars, userVars, localVars,
      queueVars, historyVars, loopVars, AlarmFires, timerVars, Terminate, Threads,
      ThreadTypeOK, LoopTypeOK, MainHas
  <2> QED
    BY <1>h, <2>1, TimedKept
<1>4. ASSUME EpollWait PROVE Timed'
  <2>1. PICK listen \in {{}, {[fd |-> 0, kind |-> "listen"]}} : events' = Ready \cup listen
    BY <1>4 DEF EpollWait
  <2>2. /\ UNCHANGED <<timer, timers, sock>> /\ at[Main] = "wait"
    BY <1>4 DEF EpollWait, timerVars
  <2>3. ASSUME NEW e \in events', e.kind = "in" PROVE Listed(timer[e.fd])
    <3>1. e.fd \in FDs /\ armed[e.fd] # "no"
      BY <2>1, <2>3 DEF Ready, Event
    <3>2. sock[e.fd] # 0 /\ ~MainHas(e.fd)
      BY <1>h, <2>2, <3>1 DEF BatchOK, MainHas
    <3> QED
      BY <1>h, <3>1, <3>2 DEF Timed
  <2>4. \A fd \in FDs : ~MainHas(fd)
    BY <2>2 DEF MainHas
  <2> QED
    BY <1>h, <2>2, <2>3, <2>4 DEF Timed, Listed
<1>5. ASSUME NEW e \in events, AcceptFails(e) \/ HandleSignal(e) PROVE Timed'
  <2>1. /\ UNCHANGED <<timer, timers, sock>> /\ events' \subseteq events
        /\ \A fd \in FDs : MainHas(fd) => MainHas(fd)'
    BY <1>h, <1>5, MainAssumption DEF AcceptFails, Takes, kernelVars, userVars, localVars,
      timerVars, queueVars, historyVars, HandleSignal, clientVars, Threads, ThreadTypeOK,
      LoopTypeOK, MainHas
  <2> QED
    BY <1>h, <2>1, TimedKept
<1>6. ASSUME NEW e \in events, Accept(e) PROVE Timed'
  <2>1. /\ UNCHANGED <<timer, timers>> /\ events' = events \ {e} /\ at[Main] = "loop"
        /\ at'[Main] = "accept" /\ obj' = LowestFree
        /\ sock' = [sock EXCEPT ![LowestFree] = NextConn]
    BY <1>h, <1>6 DEF Accept, Takes, Goto, timerVars, ThreadTypeOK, Threads
  <2>2. \A fd \in FDs : ~MainHas(fd)' => sock'[fd] = sock[fd] /\ ~MainHas(fd)
    BY <1>h, <2>1 DEF MainHas, KernelTypeOK
  <2> QED
    BY <1>h, <2>1, <2>2 DEF Timed, Listed
<1>7. ASSUME NEW e \in events, HandleReadFails(e) PROVE Timed'
  <2>1. /\ UNCHANGED <<sock, timer>> /\ events' = events \ {e} /\ e \in events /\ e.kind = "in"
        /\ timers' = Without(timer[e.fd]) /\ at[Main] = "loop"
        /\ at'[Main] = "check" /\ obj' = e.fd
    BY <1>h, <1>7 DEF HandleReadFails, Takes, DelTimer, CloseThen, Goto, kernelVars, ThreadTypeOK, Threads
  <2>2. e.fd \in FDs
    BY <1>h, <2>1 DEF LoopTypeOK, Events
  <2>3. \A u : Listed(u) /\ u # timer[e.fd] => u \in InRange(timers')
    BY <1>h, <2>1, WithoutTimer DEF Listed, InRange
  <2>4. ASSUME NEW fd \in FDs, sock'[fd] # 0, ~MainHas(fd)' PROVE timer'[fd] = sock'[fd] /\ sock'[fd] \in InRange(timers')
    <3>1. fd # e.fd /\ timer[fd] = sock[fd] /\ Listed(sock[fd]) /\ sock[fd] # 0
      BY <1>h, <2>1, <2>4 DEF MainHas, Timed, Listed
    <3>2. timer[e.fd] # timer[fd]
      BY <1>h, <2>2, <3>1 DEF TimersOK
    <3> QED
      BY <2>1, <2>3, <3>1, <3>2 DEF Listed
  <2>5. ASSUME NEW f \in events', f.kind = "in" PROVE timer'[f.fd] \in InRange(timers')
    <3>1. f \in events /\ f.fd \in FDs /\ f.fd # e.fd /\ Listed(timer[f.fd])
      BY <1>h, <2>1, <2>2, <2>5 DEF Timed, BatchOK, LoopTypeOK, Events
    <3>2. timer[f.fd] # 0
      BY <3>1, <1>h, ListedConns, BoundsAssumption DEF Listed, InRange, Conns
    <3>3. timer[e.fd] # timer[f.fd]
      BY <1>h, <2>2, <3>1, <3>2 DEF TimersOK
    <3> QED
      BY <2>1, <2>3, <3>1, <3>3 DEF Listed
  <2> QED
    BY <2>4, <2>5 DEF Timed, Listed
<1>8. ASSUME NEW e \in events, HandleHup(e) PROVE Timed'
  <2>1. /\ UNCHANGED <<timer, timers, sock>> /\ events' \subseteq events
        /\ \A fd \in FDs : MainHas(fd) => MainHas(fd)'
    BY <1>h, <1>8, MainAssumption DEF HandleHup, Takes, CloseThen, Goto, kernelVars,
      clientVars, userVars, localVars, timerVars, queueVars, historyVars,
      Threads, ThreadTypeOK, LoopTypeOK, MainHas
  <2> QED
    BY <1>h, <2>1, TimedKept
<1>9. ASSUME NEW e \in events, HandleRead(e) PROVE Timed'
  <2>1. /\ UNCHANGED <<sock, at, timer>> /\ at[Main] = "loop" /\ AdjustTimer(timer[e.fd])
        /\ events' = events \ {e}
    BY <1>9 DEF HandleRead, Takes, AdjustTimer, kernelVars
  <2>2. \A fd \in FDs : ~MainHas(fd)
    BY <2>1 DEF MainHas
  <2> QED
    BY <1>h, <2>1, <2>2, TimedKept, AdjustedTimers
<1>10. ASSUME NEW e \in events, HandleNothingToWrite(e) PROVE Timed'
  <2>1. /\ UNCHANGED <<timer, timers, sock>> /\ events' \subseteq events
        /\ \A fd \in FDs : MainHas(fd) => MainHas(fd)'
    BY <1>h, <1>10, MainAssumption DEF HandleNothingToWrite, Takes, Rearm, clientVars,
      localVars, timerVars, queueVars, historyVars, Threads, ThreadTypeOK, LoopTypeOK,
      MainHas
  <2> QED
    BY <1>h, <2>1, TimedKept
<1>11. ASSUME NEW e \in events, HandleWrite(e) PROVE Timed'
  <2>1. /\ UNCHANGED <<timer, timers, sock>> /\ events' \subseteq events
        /\ \A fd \in FDs : MainHas(fd) => MainHas(fd)'
    BY <1>h, <1>11, MainAssumption DEF HandleWrite, Takes, Goto, kernelVars,
      clientVars, userVars, localVars, timerVars, queueVars, historyVars, Threads, ThreadTypeOK, LoopTypeOK, MainHas
  <2> QED
    BY <1>h, <2>1, TimedKept
<1>w. ASSUME WriteStep PROVE Timed'
  <2>1. /\ UNCHANGED <<timer, timers, sock>> /\ events' \subseteq events
        /\ \A fd \in FDs : MainHas(fd) => MainHas(fd)'
    BY <1>h, <1>w, WriteTurn, MainAssumption DEF Threads, ThreadTypeOK, LoopTypeOK, MainHas
  <2> QED
    BY <1>h, <2>1, TimedKept
<1>12. ASSUME AcceptInit PROVE Timed'
  <2>1. /\ UNCHANGED <<sock, events>> /\ at'[Main] = "loop" /\ at[Main] = "accept"
        /\ timer' = [timer EXCEPT ![obj] = Accepted] /\ timers' = Append(timers, Accepted)
    BY <1>h, <1>12 DEF AcceptInit, Goto, kernelVars, loopVars, ThreadTypeOK, Threads
  <2>2. Accepted \in Conns /\ obj \in FDs /\ sock[obj] \in {0, Accepted}
    BY <1>h, <2>1, AcceptedConns, BoundsAssumption DEF InOrder, ThreadsOK, Conns
  <2>3. Accepted \in InRange(timers') /\ \A u : Listed(u) => u \in InRange(timers')
    <3>1. /\ DOMAIN timers' = 1..(Len(timers) + 1) /\ Len(timers) \in Nat
          /\ DOMAIN timers = 1..Len(timers)
          /\ \A i \in 1..Len(timers) : timers'[i] = timers[i]
          /\ timers'[Len(timers) + 1] = Accepted
      BY <1>h, <2>1, <2>2, AppendProperties, LenProperties DEF TimerTypeOK
    <3>3. DOMAIN timers \subseteq DOMAIN timers' /\ Len(timers) + 1 \in DOMAIN timers'
      BY <3>1
    <3>4. Accepted \in InRange(timers')
      BY <3>1, <3>3 DEF InRange
    <3>5. \A u : u \in InRange(timers) => u \in InRange(timers')
      BY <3>1, <3>3 DEF InRange
    <3> QED
      BY <3>4, <3>5 DEF Listed
  <2>4. Accepted' = Accepted
    BY <1>12 DEF Accepted, AcceptInit, clientVars
  <2>5. ASSUME NEW fd \in FDs, sock'[fd] # 0 PROVE timer'[fd] = sock'[fd] /\ sock'[fd] \in InRange(timers')
    <3>1. CASE fd = obj
      BY <1>h, <2>1, <2>2, <2>3, <2>4, <2>5, <3>1 DEF TimerTypeOK
    <3>2. CASE fd # obj
      BY <1>h, <2>1, <2>2, <2>3, <2>5, <3>2 DEF TimerTypeOK, Timed, MainHas, Listed
    <3> QED
      BY <3>1, <3>2
  <2>6. ASSUME NEW f \in events', f.kind = "in" PROVE timer'[f.fd] \in InRange(timers')
    <3>1. f \in events /\ f.fd \in FDs /\ Listed(timer[f.fd])
      BY <1>h, <2>1, <2>6 DEF Timed, LoopTypeOK, Events
    <3> QED
      BY <1>h, <2>1, <2>2, <2>3, <3>1 DEF TimerTypeOK, Listed
  <2> QED
    BY <2>5, <2>6 DEF Timed, Listed
<1>13. ASSUME EndOfBatch \/ TickEnds PROVE Timed'
  <2>1. /\ UNCHANGED <<timer, timers, sock>> /\ events' \subseteq events
        /\ \A fd \in FDs : MainHas(fd) => MainHas(fd)'
    BY <1>h, <1>13, MainAssumption DEF EndOfBatch, Goto, LoopOrStop, kernelVars, clientVars,
      userVars, localVars, timerVars, queueVars, historyVars, loopVars, TickEnds, Threads,
      ThreadTypeOK, LoopTypeOK, MainHas
  <2> QED
    BY <1>h, <2>1, TimedKept
<1>14. ASSUME TickExpires PROVE Timed'
  <2>1. /\ UNCHANGED <<timer, timers, sock>> /\ events' \subseteq events
        /\ \A fd \in FDs : MainHas(fd) => MainHas(fd)'
    BY <1>h, <1>14, MainAssumption DEF TickExpires, CloseThen, Goto, kernelVars, clientVars,
      userVars, localVars, timerVars, queueVars, Threads, ThreadTypeOK, LoopTypeOK, MainHas
  <2> QED
    BY <1>h, <2>1, TimedKept
<1>15. ASSUME TickPops PROVE Timed'
  <2>1. /\ UNCHANGED <<sock, timer, events, obj>> /\ timers' = Tail(timers)
        /\ at'[Main] = "tick" /\ at[Main] = "pop"
    BY <1>h, <1>15 DEF TickPops, Goto, kernelVars, loopVars, ThreadTypeOK, Threads
  <2>2. timers # << >> /\ where[Head(timers)] = obj /\ sock[obj] = 0 /\ events = {}
    BY <1>h, <2>1, EmptySeq DEF TimersOK, Popping, TimerTypeOK, Registered, BatchOK
  <2>3. \A u : Listed(u) /\ u # Head(timers) => u \in InRange(timers')
    BY <1>h, <2>1, <2>2, TailElements DEF Listed, InRange, TimerTypeOK
  <2>4. ASSUME NEW fd \in FDs, sock'[fd] # 0 PROVE timer'[fd] = sock'[fd] /\ sock'[fd] \in InRange(timers')
    <3>1. fd # obj /\ sock[fd] # 0 /\ timer[fd] = sock[fd] /\ Listed(sock[fd])
      BY <1>h, <2>1, <2>2, <2>4 DEF Timed, MainHas, Listed
    <3>2. sock[fd] # Head(timers)
      BY <1>h, <2>2, <3>1 DEF TimersOK
    <3> QED
      BY <2>1, <2>3, <3>1, <3>2 DEF Listed
  <2> QED
    BY <2>1, <2>2, <2>4 DEF Timed, Listed
<1>16. ASSUME DeleteUsers \/ DeletePool \/ JoinThenDestroyEngines PROVE Timed'
  <2>1. /\ UNCHANGED <<timer, timers, sock>> /\ events' \subseteq events
        /\ \A fd \in FDs : MainHas(fd) => MainHas(fd)'
    BY <1>h, <1>16, MainAssumption DEF DeleteUsers, Goto, kernelVars, clientVars, userVars,
      localVars, timerVars, queueVars, historyVars, loopVars, DeletePool, Pool!Cancel,
      JoinThenDestroyEngines, Threads, ThreadTypeOK, LoopTypeOK, MainHas
  <2> QED
    BY <1>h, <2>1, TimedKept
<1>17. ASSUME NEW t \in Threads, CloseCheck(t) PROVE Timed'
  <2>1. /\ UNCHANGED <<timer, timers, sock, events, obj>>
        /\ t # Main => at'[Main] = at[Main]
    BY <1>h, <1>17, MainAssumption
    DEF CloseCheck, Return, Goto, kernelVars, timerVars, loopVars, ThreadTypeOK, Threads
  <2>2. \A fd \in FDs : MainHas(fd) => MainHas(fd)' \/ sock'[fd] = 0
    BY <1>h, <1>17, <2>1, FDsAssumption DEF CloseCheck, Return, Goto, MainHas, Registered, Working, ThreadTypeOK, Threads
  <2> QED
    BY <1>h, <2>1, <2>2, TimedKept
<1>18. ASSUME NEW t \in Threads, CloseShut(t) PROVE Timed'
  <2>1. /\ UNCHANGED <<timer, timers, events, obj>>
        /\ \A fd \in FDs : MainHas(fd) => MainHas(fd)'
    BY <1>h, <1>18, MainAssumption
    DEF CloseShut, Goto, timerVars, loopVars, ThreadTypeOK, Threads, MainHas
  <2>2. UNCHANGED sock \/ sock' = [sock EXCEPT ![Working(t)] = 0]
    BY <1>18 DEF CloseShut, kernelVars
  <2> QED
    BY <1>h, <2>1, <2>2, TimedKept DEF KernelTypeOK
<1>19. ASSUME NEW t \in Threads, CloseClear(t) PROVE Timed'
  <2>1. /\ UNCHANGED <<timer, timers, sock, events, obj>>
        /\ t # Main => at'[Main] = at[Main]
    BY <1>h, <1>19, MainAssumption
    DEF CloseClear, Goto, kernelVars, timerVars, loopVars, ThreadTypeOK, Threads
  <2>2. \A fd \in FDs : MainHas(fd) => MainHas(fd)' \/ sock'[fd] = 0
    BY <1>h, <1>19, <2>1, FDsAssumption DEF CloseClear, Goto, MainHas, Registered, Working, ThreadTypeOK, Threads
  <2> QED
    BY <1>h, <2>1, <2>2, TimedKept
<1>20. ASSUME NEW t \in Threads, CloseCount(t) PROVE Timed'
  <2>1. /\ UNCHANGED <<timer, timers, sock, events, obj>>
        /\ t # Main => at'[Main] = at[Main]
    BY <1>h, <1>20, MainAssumption
    DEF CloseCount, Return, Goto, kernelVars, timerVars, loopVars, ThreadTypeOK, Threads
  <2>2. \A fd \in FDs : MainHas(fd) => MainHas(fd)' \/ sock'[fd] = 0
    BY <1>h, <1>20, <2>1, FDsAssumption DEF CloseCount, Return, Goto, MainHas, Registered, Working, ThreadTypeOK, Threads
  <2> QED
    BY <1>h, <2>1, <2>2, TimedKept
<1>21. ASSUME NEW w \in Workers, Start(w) PROVE Timed'
  <2>1. /\ UNCHANGED <<timer, timers, sock>> /\ events' \subseteq events
        /\ \A fd \in FDs : MainHas(fd) => MainHas(fd)'
    BY <1>h, <1>21, MainAssumption DEF Start, Goto, Pool!Dispatch, kernelVars, clientVars,
      userVars, localVars, timerVars, historyVars, loopVars, Threads, ThreadTypeOK,
      LoopTypeOK, MainHas
  <2> QED
    BY <1>h, <2>1, TimedKept
<1>22. ASSUME NEW w \in Workers, Parse(w) \/ Command(w) PROVE Timed'
  <2>1. /\ UNCHANGED <<timer, timers, sock>> /\ events' \subseteq events
        /\ \A fd \in FDs : MainHas(fd) => MainHas(fd)'
    BY <1>h, <1>22, MainAssumption DEF Parse, Goto, kernelVars, clientVars, userVars,
      timerVars, queueVars, historyVars, loopVars, Command, Threads, ThreadTypeOK,
      LoopTypeOK, MainHas
  <2> QED
    BY <1>h, <2>1, TimedKept
<1>23. ASSUME NEW w \in Workers, RearmOneShot(w) PROVE Timed'
  <2>1. /\ UNCHANGED <<timer, timers, sock>> /\ events' \subseteq events
        /\ \A fd \in FDs : MainHas(fd) => MainHas(fd)'
    BY <1>h, <1>23, MainAssumption DEF RearmOneShot, Return, Rearm, Goto, Pool!Finish,
      clientVars, userVars, localVars, timerVars, queueVars, historyVars, loopVars, Threads,
      ThreadTypeOK, LoopTypeOK, MainHas
  <2> QED
    BY <1>h, <2>1, TimedKept
<1>24. ASSUME NEW w \in Workers, Leave(w) PROVE Timed'
  <2>1. /\ UNCHANGED <<timer, timers, sock>> /\ events' \subseteq events
        /\ \A fd \in FDs : MainHas(fd) => MainHas(fd)'
    BY <1>h, <1>24, MainAssumption DEF Leave, Pool!Leave, kernelVars, clientVars, userVars,
      localVars, timerVars, historyVars, loopVars, Threads, ThreadTypeOK, LoopTypeOK,
      MainHas
  <2> QED
    BY <1>h, <2>1, TimedKept
<1> QED
  BY <1>w, <1>1, <1>2, <1>3, <1>4, <1>5, <1>6, <1>7, <1>8, <1>9, <1>10, <1>11, <1>12, <1>13,
    <1>14, <1>15, <1>16, <1>17, <1>18, <1>19, <1>20, <1>21, <1>22, <1>23, <1>24 DEF Next,
    ReactorStep, Handle, Close, Teardown, WorkerStep, Threads

(* A step that gives nobody a descriptor. *)
LEMMA HeldKept ==
    ASSUME Held, UNCHANGED <<sock, pending>>, events' \subseteq events,
           \A fd \in FDs : (Polled(fd)' => Polled(fd)) /\ (Writes(fd)' => Writes(fd)),
           \A fd \in FDs, w \in Workers :
              Serves(w, fd)' => Serves(w, fd) /\ (at[w] = "clear" => at'[w] = "clear")
    PROVE  Held'
BY DEF Held, Exclusive, HoldsOpen, HasEvent, Queued

(* One holder at a time, of an open socket. *)
LEMMA HeldKeeps ==
    ASSUME Inductive, Next, ~reused', ~overtaken'
    PROVE  Held'
<1>h. Registered /\ Held /\ ClosesAlone /\ ClosedOnce /\ ThreadsOK /\ ThreadTypeOK /\
  LoopTypeOK /\ KernelTypeOK /\ UserTypeOK /\ PoolTypeOK /\ BatchOK /\ ClientTypeOK /\
  InOrder
  BY HistoryGrows DEF Inductive, TypeOK, Owned
<1>1. ASSUME NEW c \in Conns, NEW k \in Kinds, Send(c, k) PROVE Held'
  <2>1. /\ UNCHANGED <<sock, pending>> /\ events' \subseteq events
        /\ \A fd \in FDs : (Polled(fd)' => Polled(fd)) /\ (Writes(fd)' => Writes(fd))
        /\ \A fd \in FDs, w \in Workers :
              Serves(w, fd)' => Serves(w, fd) /\ (at[w] = "clear" => at'[w] = "clear")
    BY <1>h, <1>1, MainAssumption, FDsAssumption DEF Send, kernelVars, userVars, localVars,
      timerVars, queueVars, historyVars, loopVars, Threads, ThreadTypeOK, PoolTypeOK,
      Polled, Serves, Writes
  <2> QED
    BY <1>h, <2>1, HeldKept
<1>2. ASSUME NEW c \in Conns, HangUp(c) \/ Drain(c) PROVE Held'
  <2>1. /\ UNCHANGED <<sock, pending>> /\ events' \subseteq events
        /\ \A fd \in FDs : (Polled(fd)' => Polled(fd)) /\ (Writes(fd)' => Writes(fd))
        /\ \A fd \in FDs, w \in Workers :
              Serves(w, fd)' => Serves(w, fd) /\ (at[w] = "clear" => at'[w] = "clear")
    BY <1>h, <1>2, MainAssumption, FDsAssumption DEF HangUp, Drain, kernelVars, userVars,
      localVars, timerVars, queueVars, historyVars, loopVars, Threads, ThreadTypeOK,
      PoolTypeOK, Polled, Serves, Writes
  <2> QED
    BY <1>h, <2>1, HeldKept
<1>3. ASSUME Elapse \/ AlarmFires \/ Terminate PROVE Held'
  <2>1. /\ UNCHANGED <<sock, pending>> /\ events' \subseteq events
        /\ \A fd \in FDs : (Polled(fd)' => Polled(fd)) /\ (Writes(fd)' => Writes(fd))
        /\ \A fd \in FDs, w \in Workers :
              Serves(w, fd)' => Serves(w, fd) /\ (at[w] = "clear" => at'[w] = "clear")
    BY <1>h, <1>3, MainAssumption, FDsAssumption DEF Elapse, kernelVars, clientVars,
      userVars, localVars, queueVars, historyVars, loopVars, AlarmFires, timerVars,
      Terminate, Threads, ThreadTypeOK, PoolTypeOK, Polled, Serves, Writes
  <2> QED
    BY <1>h, <2>1, HeldKept
<1>4. ASSUME EpollWait PROVE Held'
  <2>1. PICK listen \in {{}, {[fd |-> 0, kind |-> "listen"]}} : events' = Ready \cup listen
    BY <1>4 DEF EpollWait
  <2>2. /\ UNCHANGED <<sock, pending, running>>
        /\ armed' = [fd \in FDs |-> IF \E e \in events' : e.fd = fd THEN "off" ELSE armed[fd]]
        /\ \A w \in Workers : at'[w] = at[w]
    BY <1>h, <1>4, MainAssumption DEF EpollWait, Goto, queueVars, ThreadTypeOK, Threads
  <2>3. ASSUME NEW fd \in FDs, HasEvent(fd)' PROVE Polled(fd) /\ sock[fd] # 0
    <3>1. PICK e \in events' : e.fd = fd
      BY <2>3 DEF HasEvent
    <3>2. e \in Ready /\ fd # 0
      BY <2>1, <3>1, FDsAssumption
    <3>3. armed[fd] \in {"in", "out"}
      BY <3>1, <3>2 DEF Ready, Event
    <3> QED
      BY <1>h, <3>3 DEF BatchOK, Polled
  <2>4. ASSUME NEW fd \in FDs, Polled(fd)' PROVE Polled(fd) /\ ~HasEvent(fd)'
    BY <2>2, <2>4 DEF Polled, HasEvent
  <2>5. \A fd \in FDs : (Queued(fd)' <=> Queued(fd)) /\ \A w \in Workers : Serves(w, fd)' <=> Serves(w, fd)
    BY <2>2 DEF Queued, Serves
  <2>6. \A fd \in FDs : ~Writes(fd)'
    BY <1>h, <1>4 DEF EpollWait, Goto, Writes, ThreadTypeOK, Threads
  <2> QED
    BY <1>h, <2>2, <2>3, <2>4, <2>5, <2>6 DEF Held, Exclusive, HoldsOpen
<1>5. ASSUME NEW e \in events, AcceptFails(e) \/ HandleSignal(e) PROVE Held'
  <2>1. /\ UNCHANGED <<sock, pending>> /\ events' \subseteq events
        /\ \A fd \in FDs : (Polled(fd)' => Polled(fd)) /\ (Writes(fd)' => Writes(fd))
        /\ \A fd \in FDs, w \in Workers :
              Serves(w, fd)' => Serves(w, fd) /\ (at[w] = "clear" => at'[w] = "clear")
    BY <1>h, <1>5, MainAssumption, FDsAssumption DEF AcceptFails, Takes, kernelVars,
      userVars, localVars, timerVars, queueVars, historyVars, HandleSignal, clientVars,
      Threads, ThreadTypeOK, PoolTypeOK, Polled, Serves, Writes
  <2> QED
    BY <1>h, <2>1, HeldKept
<1>6. ASSUME NEW e \in events, Accept(e) PROVE Held'
  <2> DEFINE f == LowestFree
  <2>1. /\ UNCHANGED <<pending, running>> /\ events' = events \ {e}
        /\ sock' = [sock EXCEPT ![f] = NextConn] /\ armed' = [armed EXCEPT ![f] = "in"]
        /\ at'[Main] = "accept" /\ \A w \in Workers : at'[w] = at[w]
        /\ ~\E w \in Workers : running[w] = f /\ at[w] = "clear"
    BY <1>h, <1>6, MainAssumption DEF Accept, Takes, Goto, queueVars, ThreadTypeOK, Threads
  <2>2. f \in FDs /\ sock[f] = 0
    BY <1>6, LowestFreeIsFree DEF Accept
  <2>3. NextConn # 0
    BY <1>h, AcceptedConns DEF NextConn
  <2>4. /\ \A fd \in FDs : (Queued(fd)' <=> Queued(fd)) /\ (HasEvent(fd)' => HasEvent(fd))
        /\ \A fd \in FDs, w \in Workers : Serves(w, fd)' <=> Serves(w, fd)
        /\ \A fd \in FDs : ~Writes(fd)'
    BY <2>1 DEF Queued, HasEvent, Serves, Writes
  <2>5. ~HasEvent(f) /\ ~Queued(f) /\ \A w \in Workers : ~Serves(w, f)
    BY <1>h, <2>1, <2>2 DEF Held, HoldsOpen, Serves
  <2>6. \A fd \in FDs : fd # f => sock'[fd] = sock[fd] /\ (Polled(fd)' <=> Polled(fd))
    BY <1>h, <2>1 DEF KernelTypeOK, Polled
  <2>7. sock'[f] # 0
    BY <1>h, <2>1, <2>2, <2>3 DEF KernelTypeOK
  <2>8. \A fd \in FDs : Exclusive(fd)'
    BY <1>h, <2>1, <2>4, <2>5, <2>6 DEF Held, Exclusive
  <2>9. \A fd \in FDs : HoldsOpen(fd)'
    BY <1>h, <2>1, <2>4, <2>5, <2>6, <2>7 DEF Held, HoldsOpen
  <2> QED
    BY <2>8, <2>9 DEF Held
<1>7. ASSUME NEW e \in events, HandleHup(e) \/ HandleReadFails(e) PROVE Held'
  <2>1. /\ UNCHANGED <<sock, pending>> /\ events' \subseteq events
        /\ \A fd \in FDs : (Polled(fd)' => Polled(fd)) /\ (Writes(fd)' => Writes(fd))
        /\ \A fd \in FDs, w \in Workers :
              Serves(w, fd)' => Serves(w, fd) /\ (at[w] = "clear" => at'[w] = "clear")
    BY <1>h, <1>7, MainAssumption, FDsAssumption DEF HandleHup, Takes, CloseThen, Goto,
      kernelVars, clientVars, userVars, localVars, timerVars, queueVars, historyVars,
      HandleReadFails, DelTimer, Threads, ThreadTypeOK, PoolTypeOK,
      Polled, Serves, Writes
  <2> QED
    BY <1>h, <2>1, HeldKept
<1>8. ASSUME NEW e \in events, HandleRead(e) PROVE Held'
  <2>1. /\ UNCHANGED <<sock, armed, at, running>> /\ e \in events /\ events' = events \ {e}
        /\ at[Main] = "loop" /\ e.kind = "in" /\ pending' = Append(pending, e.fd)
    BY <1>8 DEF HandleRead, Takes, Pool!Post, kernelVars
  <2>2. e.fd \in FDs
    BY <1>h, <2>1 DEF LoopTypeOK, Events
  <2>3. HasEvent(e.fd) /\ ~HasEvent(e.fd)' /\ \A fd \in FDs : HasEvent(fd)' => HasEvent(fd)
    BY <1>h, <2>1, <2>2 DEF HasEvent, BatchOK
  <2>4. /\ Len(pending) \in Nat /\ DOMAIN pending = 1..Len(pending)
        /\ DOMAIN pending' = 1..(Len(pending) + 1)
        /\ \A i \in 1..Len(pending) : pending'[i] = pending[i]
        /\ pending'[Len(pending) + 1] = e.fd
    BY <1>h, <2>1, <2>2, AppendProperties, LenProperties DEF PoolTypeOK
  <2>5. \A fd \in FDs : fd # e.fd => (Queued(fd)' => Queued(fd))
    BY <2>4 DEF Queued
  <2>6. /\ ~Polled(e.fd) /\ ~Queued(e.fd) /\ sock[e.fd] # 0
        /\ \A w \in Workers : ~Serves(w, e.fd)
    BY <1>h, <2>2, <2>3 DEF Held, Exclusive, HoldsOpen
  <2>7. ASSUME NEW fd \in FDs, NEW i \in DOMAIN pending', NEW j \in DOMAIN pending',
               pending'[i] = fd, pending'[j] = fd
        PROVE  i = j
    <3>1. CASE fd = e.fd
      BY <2>4, <2>6, <2>7, <3>1 DEF Queued
    <3>2. CASE fd # e.fd
      BY <1>h, <2>4, <2>7, <3>2 DEF Held, Exclusive
    <3> QED
      BY <3>1, <3>2
  <2>8. /\ \A fd \in FDs : (Polled(fd)' <=> Polled(fd)) /\ ~Writes(fd)'
        /\ \A fd \in FDs, w \in Workers : Serves(w, fd)' <=> Serves(w, fd)
    BY <2>1 DEF Polled, Serves, Writes
  <2>9. \A fd \in FDs : Exclusive(fd)'
    BY <1>h, <2>3, <2>5, <2>6, <2>7, <2>8 DEF Held, Exclusive
  <2>10. \A fd \in FDs : HoldsOpen(fd)'
    BY <1>h, <2>1, <2>3, <2>5, <2>6, <2>8 DEF Held, HoldsOpen
  <2> QED
    BY <2>9, <2>10 DEF Held
<1>9. ASSUME NEW e \in events, HandleNothingToWrite(e) PROVE Held'
  <2>1. /\ UNCHANGED <<sock, pending, running>> /\ e \in events /\ events' = events \ {e}
        /\ e.kind = "out" /\ (armed' = armed \/ armed' = [armed EXCEPT ![e.fd] = "in"])
        /\ at'[Main] = "loop" /\ \A w \in Workers : at'[w] = at[w]
    BY <1>h, <1>9, MainAssumption
    DEF HandleNothingToWrite, Takes, Rearm, CloseThen, Goto, queueVars, ThreadTypeOK, Threads
  <2>2. e.fd \in FDs
    BY <1>h, <2>1 DEF LoopTypeOK, Events
  <2>3. HasEvent(e.fd) /\ ~HasEvent(e.fd)' /\ \A fd \in FDs : HasEvent(fd)' => HasEvent(fd)
    BY <1>h, <2>1, <2>2 DEF HasEvent, BatchOK
  <2>4. /\ \A fd \in FDs : Queued(fd)' <=> Queued(fd)
        /\ \A fd \in FDs, w \in Workers : Serves(w, fd)' <=> Serves(w, fd)
        /\ \A fd \in FDs : ~Writes(fd)'
    BY <2>1 DEF Queued, Serves, Writes
  <2>5. \A fd \in FDs : fd # e.fd => (Polled(fd)' <=> Polled(fd))
    BY <1>h, <2>1 DEF KernelTypeOK, Polled
  <2>6. ~Queued(e.fd) /\ \A w \in Workers : ~Serves(w, e.fd)
    BY <1>h, <2>2, <2>3 DEF Held, Exclusive
  <2> QED
    BY <1>h, <2>1, <2>3, <2>4, <2>5, <2>6 DEF Held, Exclusive, HoldsOpen
<1>10. ASSUME NEW e \in events, HandleWrite(e) PROVE Held'
  <2>1. /\ UNCHANGED <<sock, armed, pending, running>> /\ e \in events /\ events' = events \ {e}
        /\ e.kind = "out" /\ obj' = e.fd /\ \A w \in Workers : at'[w] = at[w]
    BY <1>h, <1>10, MainAssumption
    DEF HandleWrite, Takes, Goto, kernelVars, queueVars, ThreadTypeOK, Threads
  <2>2. e.fd \in FDs
    BY <1>h, <2>1 DEF LoopTypeOK, Events
  <2>3. HasEvent(e.fd) /\ ~HasEvent(e.fd)' /\ \A fd \in FDs : HasEvent(fd)' => HasEvent(fd)
    BY <1>h, <2>1, <2>2 DEF HasEvent, BatchOK
  <2>4. /\ \A fd \in FDs : (Queued(fd)' <=> Queued(fd)) /\ (Polled(fd)' <=> Polled(fd))
        /\ \A fd \in FDs, w \in Workers : Serves(w, fd)' <=> Serves(w, fd)
    BY <2>1 DEF Queued, Serves, Polled
  <2>5. \A fd \in FDs : Writes(fd)' => fd = e.fd
    BY <2>1 DEF Writes
  <2>6. /\ ~Polled(e.fd) /\ ~Queued(e.fd) /\ sock[e.fd] # 0
        /\ \A w \in Workers : ~Serves(w, e.fd)
    BY <1>h, <2>2, <2>3 DEF Held, Exclusive, HoldsOpen
  <2>7. \A fd \in FDs : Exclusive(fd)'
    BY <1>h, <2>1, <2>3, <2>4, <2>5, <2>6 DEF Held, Exclusive
  <2>8. \A fd \in FDs : HoldsOpen(fd)'
    BY <1>h, <2>1, <2>3, <2>4, <2>5, <2>6 DEF Held, HoldsOpen
  <2> QED
    BY <2>7, <2>8 DEF Held
<1>w. ASSUME WriteStep PROVE Held'
  <2>1. /\ UNCHANGED <<sock, pending, running, events, obj>> /\ at[Main] = "write"
        /\ at'[Main] = "write" => armed' = armed
        /\ \A fd \in FDs : fd # obj => armed'[fd] = armed[fd]
        /\ \A w \in Workers : at'[w] = at[w]
    BY <1>h, <1>w, WriteTurn, MainAssumption DEF KernelTypeOK, ThreadTypeOK, Threads
  <2>2. /\ ~HasEvent(obj) /\ ~Queued(obj) /\ sock[obj] # 0 /\ obj \in FDs
        /\ \A w \in Workers : ~Serves(w, obj)
    BY <1>h, <2>1 DEF ThreadsOK, Held, Exclusive, HoldsOpen, Writes
  <2>3. /\ \A fd \in FDs : (Queued(fd)' <=> Queued(fd)) /\ (HasEvent(fd)' <=> HasEvent(fd))
        /\ \A fd \in FDs, w \in Workers : Serves(w, fd)' <=> Serves(w, fd)
        /\ \A fd \in FDs : fd # obj => (Polled(fd)' <=> Polled(fd))
    BY <2>1 DEF Queued, HasEvent, Serves, Polled
  <2>4. \A fd \in FDs : Writes(fd)' => Writes(fd) /\ ~Polled(fd)'
    BY <1>h, <2>1 DEF Held, Exclusive, Writes, Polled
  <2>5. \A fd \in FDs : Exclusive(fd)'
    BY <1>h, <2>1, <2>2, <2>3, <2>4 DEF Held, Exclusive
  <2>6. \A fd \in FDs : HoldsOpen(fd)'
    BY <1>h, <2>1, <2>2, <2>3, <2>4 DEF Held, HoldsOpen
  <2> QED
    BY <2>5, <2>6 DEF Held
<1>11. ASSUME AcceptInit PROVE Held'
  <2>1. /\ UNCHANGED <<sock, pending>> /\ events' \subseteq events
        /\ \A fd \in FDs : (Polled(fd)' => Polled(fd)) /\ (Writes(fd)' => Writes(fd))
        /\ \A fd \in FDs, w \in Workers :
              Serves(w, fd)' => Serves(w, fd) /\ (at[w] = "clear" => at'[w] = "clear")
    BY <1>h, <1>11, MainAssumption, FDsAssumption DEF AcceptInit, Goto, kernelVars,
      clientVars, queueVars, historyVars, loopVars, Threads, ThreadTypeOK, PoolTypeOK,
      Polled, Serves, Writes
  <2> QED
    BY <1>h, <2>1, HeldKept
<1>12. ASSUME EndOfBatch \/ TickEnds PROVE Held'
  <2>1. /\ UNCHANGED <<sock, pending>> /\ events' \subseteq events
        /\ \A fd \in FDs : (Polled(fd)' => Polled(fd)) /\ (Writes(fd)' => Writes(fd))
        /\ \A fd \in FDs, w \in Workers :
              Serves(w, fd)' => Serves(w, fd) /\ (at[w] = "clear" => at'[w] = "clear")
    BY <1>h, <1>12, MainAssumption, FDsAssumption DEF EndOfBatch, Goto, LoopOrStop,
      kernelVars, clientVars, userVars, localVars, timerVars, queueVars, historyVars,
      loopVars, TickEnds, Threads, ThreadTypeOK, PoolTypeOK, Polled, Serves, Writes
  <2> QED
    BY <1>h, <2>1, HeldKept
<1>13. ASSUME TickExpires PROVE Held'
  <2>1. /\ UNCHANGED <<sock, pending>> /\ events' \subseteq events
        /\ \A fd \in FDs : (Polled(fd)' => Polled(fd)) /\ (Writes(fd)' => Writes(fd))
        /\ \A fd \in FDs, w \in Workers :
              Serves(w, fd)' => Serves(w, fd) /\ (at[w] = "clear" => at'[w] = "clear")
    BY <1>h, <1>13, MainAssumption, FDsAssumption DEF TickExpires, CloseThen, Goto,
      kernelVars, clientVars, userVars, localVars, timerVars, queueVars, Threads,
      ThreadTypeOK, PoolTypeOK, Polled, Serves, Writes
  <2> QED
    BY <1>h, <2>1, HeldKept
<1>14. ASSUME TickPops PROVE Held'
  <2>1. /\ UNCHANGED <<sock, pending>> /\ events' \subseteq events
        /\ \A fd \in FDs : (Polled(fd)' => Polled(fd)) /\ (Writes(fd)' => Writes(fd))
        /\ \A fd \in FDs, w \in Workers :
              Serves(w, fd)' => Serves(w, fd) /\ (at[w] = "clear" => at'[w] = "clear")
    BY <1>h, <1>14, MainAssumption, FDsAssumption DEF TickPops, Goto, kernelVars,
      clientVars, userVars, localVars, queueVars, historyVars, loopVars, Threads,
      ThreadTypeOK, PoolTypeOK, Polled, Serves, Writes
  <2> QED
    BY <1>h, <2>1, HeldKept
<1>15. ASSUME DeleteUsers \/ DeletePool \/ JoinThenDestroyEngines PROVE Held'
  <2>1. /\ UNCHANGED <<sock, pending>> /\ events' \subseteq events
        /\ \A fd \in FDs : (Polled(fd)' => Polled(fd)) /\ (Writes(fd)' => Writes(fd))
        /\ \A fd \in FDs, w \in Workers :
              Serves(w, fd)' => Serves(w, fd) /\ (at[w] = "clear" => at'[w] = "clear")
    BY <1>h, <1>15, MainAssumption, FDsAssumption DEF DeleteUsers, Goto, kernelVars,
      clientVars, userVars, localVars, timerVars, queueVars, historyVars, loopVars,
      DeletePool, Pool!Cancel, JoinThenDestroyEngines, Threads, ThreadTypeOK, PoolTypeOK,
      Polled, Serves, Writes
  <2> QED
    BY <1>h, <2>1, HeldKept
<1>16. ASSUME NEW t \in Threads, CloseCheck(t) PROVE Held'
  <2>1. /\ UNCHANGED <<sock, pending>> /\ events' \subseteq events
        /\ \A fd \in FDs : (Polled(fd)' => Polled(fd)) /\ (Writes(fd)' => Writes(fd))
        /\ \A fd \in FDs, w \in Workers :
              Serves(w, fd)' => Serves(w, fd) /\ (at[w] = "clear" => at'[w] = "clear")
    BY <1>h, <1>16, MainAssumption, FDsAssumption DEF CloseCheck, Goto, Return, Working,
      Pool!Finish, kernelVars, clientVars, userVars, localVars, timerVars, queueVars,
      historyVars, loopVars, Threads, ThreadTypeOK, LoopTypeOK, PoolTypeOK, Polled, Serves, Writes
  <2> QED
    BY <1>h, <2>1, HeldKept
<1>17. ASSUME NEW t \in Threads, CloseShut(t) PROVE Held'
  <2> DEFINE fd == Working(t)
  <2>1. /\ UNCHANGED <<pending, running, events, obj>> /\ at[t] = "shut" /\ at' = [at EXCEPT ![t] = "clear"]
        /\ \/ UNCHANGED <<sock, armed>>
           \/ sock' = [sock EXCEPT ![fd] = 0] /\ armed' = [armed EXCEPT ![fd] = "no"]
    BY <1>17 DEF CloseShut, Goto, kernelVars, loopVars, queueVars
  <2>2. fd \in FDs
    BY <1>h, <2>1 DEF Working, ThreadsOK, PoolTypeOK, Threads, Closing
  <2>3. \A g \in FDs, w \in Workers : Serves(w, g)' <=> Serves(w, g)
    BY <1>h, <2>1 DEF Serves, ThreadTypeOK, Threads
  <2>4. ~HasEvent(fd) /\ ~Queued(fd) /\ ~Writes(fd) /\ \A w \in Workers : Serves(w, fd) => w = t
    <3>1. CASE t = Main
      BY <1>h, <2>1, <3>1 DEF Working, ClosedOnce, ClosesAlone, Writes
    <3>2. CASE t # Main
      <4>1. t \in Workers /\ Serves(t, fd)
        BY <2>1, <3>2 DEF Working, Threads, Serves
      <4> QED
        BY <1>h, <2>2, <4>1 DEF Held, Exclusive
    <3> QED
      BY <3>1, <3>2
  <2>5. /\ \A g \in FDs : (HasEvent(g)' <=> HasEvent(g)) /\ (Queued(g)' <=> Queued(g))
        /\ \A g \in FDs : Polled(g)' => Polled(g)
        /\ \A g \in FDs : g # fd => sock'[g] = sock[g]
    BY <1>h, <2>1 DEF HasEvent, Queued, Polled, KernelTypeOK
  <2>10. \A g \in FDs : Writes(g)' => Writes(g)
    BY <1>h, <2>1 DEF Writes, ThreadTypeOK, Threads
  <2>6. \A g \in FDs : Exclusive(g)'
    BY <1>h, <2>1, <2>3, <2>5, <2>10 DEF Held, Exclusive
  <2>7. \A w \in Workers : at[w] = "clear" => at'[w] = "clear"
    BY <1>h, <2>1 DEF ThreadTypeOK, Threads
  <2>8. at'[t] = "clear"
    BY <1>h, <2>1 DEF ThreadTypeOK
  <2>9. ASSUME NEW g \in FDs PROVE HoldsOpen(g)'
    <3>1. CASE g = fd
      BY <2>3, <2>4, <2>5, <2>8, <2>10, <3>1 DEF HoldsOpen
    <3>2. CASE g # fd
      BY <1>h, <2>3, <2>5, <2>7, <2>10, <3>2 DEF Held, HoldsOpen
    <3> QED
      BY <3>1, <3>2
  <2> QED
    BY <2>6, <2>9 DEF Held
<1>18. ASSUME NEW t \in Threads, CloseClear(t) PROVE Held'
  <2>1. /\ UNCHANGED <<sock, pending>> /\ events' \subseteq events
        /\ \A fd \in FDs : (Polled(fd)' => Polled(fd)) /\ (Writes(fd)' => Writes(fd))
        /\ \A fd \in FDs, w \in Workers :
              Serves(w, fd)' => Serves(w, fd) /\ (at[w] = "clear" => at'[w] = "clear")
    BY <1>h, <1>18, MainAssumption, FDsAssumption DEF CloseClear, Goto, Working, kernelVars,
      clientVars, timerVars, queueVars, loopVars, Threads, ThreadTypeOK, PoolTypeOK, Polled,
      Serves, Writes
  <2> QED
    BY <1>h, <2>1, HeldKept
<1>19. ASSUME NEW t \in Threads, CloseCount(t) PROVE Held'
  <2>1. /\ UNCHANGED <<sock, pending>> /\ events' \subseteq events
        /\ \A fd \in FDs : (Polled(fd)' => Polled(fd)) /\ (Writes(fd)' => Writes(fd))
        /\ \A fd \in FDs, w \in Workers :
              Serves(w, fd)' => Serves(w, fd) /\ (at[w] = "clear" => at'[w] = "clear")
    BY <1>h, <1>19, MainAssumption, FDsAssumption DEF CloseCount, Return, Goto, Pool!Finish,
      kernelVars, clientVars, userVars, timerVars, queueVars, historyVars, loopVars,
      Threads, ThreadTypeOK, LoopTypeOK, PoolTypeOK, Polled, Serves, Writes
  <2> QED
    BY <1>h, <2>1, HeldKept
<1>20. ASSUME NEW w \in Workers, Start(w) PROVE Held'
  <2> DEFINE f == Head(pending)
  <2>1. /\ UNCHANGED <<sock, armed, events, obj>> /\ pending # << >> /\ running[w] = NoFD
        /\ running' = [running EXCEPT ![w] = f] /\ pending' = Tail(pending)
        /\ at' = [at EXCEPT ![w] = "process"]
    BY <1>20 DEF Start, Pool!Dispatch, Goto, kernelVars, loopVars
  <2>2. /\ f \in FDs /\ f = pending[1] /\ Len(pending) \in Nat /\ DOMAIN pending = 1..Len(pending)
        /\ Len(pending) >= 1 /\ DOMAIN pending' = 1..(Len(pending) - 1)
        /\ \A i \in 1..(Len(pending) - 1) : pending'[i] = pending[i + 1]
    BY <1>h, <2>1, HeadTailProperties, LenProperties, EmptySeq DEF PoolTypeOK
  <2>3. \A fd \in FDs : Queued(fd)' => Queued(fd)
    BY <2>2 DEF Queued
  <2>4. Queued(f)
    BY <2>2 DEF Queued
  <2>5. \A fd \in FDs : fd = f => ~Queued(fd)'
    <3> SUFFICES ASSUME NEW fd \in FDs, fd = f, Queued(fd)' PROVE FALSE
      OBVIOUS
    <3>1. PICK i \in 1..(Len(pending) - 1) : pending[i + 1] = f
      BY <2>2 DEF Queued
    <3>2. i + 1 \in DOMAIN pending /\ 1 \in DOMAIN pending /\ i + 1 # 1 /\ pending[1] = f
      BY <2>2, <3>1
    <3> QED
      BY <1>h, <2>2, <3>1, <3>2 DEF Held, Exclusive
  <2>6. ~Polled(f) /\ ~HasEvent(f) /\ ~Writes(f) /\ sock[f] # 0 /\ \A u \in Workers : ~Serves(u, f)
    BY <1>h, <2>2, <2>4 DEF Held, Exclusive, HoldsOpen
  <2>7. /\ \A fd \in FDs : (HasEvent(fd)' <=> HasEvent(fd)) /\ (Polled(fd)' <=> Polled(fd))
        /\ \A u \in Workers, fd \in FDs : u # w => (Serves(u, fd)' <=> Serves(u, fd)) /\ at'[u] = at[u]
        /\ \A fd \in FDs : (Serves(w, fd)' => fd = f) /\ (Writes(fd)' <=> Writes(fd))
    BY <1>h, <2>1, MainAssumption DEF HasEvent, Polled, Writes, Serves, Writes, ThreadTypeOK, Threads, PoolTypeOK
  <2>8. \A fd \in FDs, i, j \in DOMAIN pending' : pending'[i] = fd /\ pending'[j] = fd => i = j
    <3> SUFFICES ASSUME NEW fd \in FDs, NEW i \in DOMAIN pending', NEW j \in DOMAIN pending',
                        pending'[i] = fd, pending'[j] = fd
                 PROVE  i = j
      OBVIOUS
    <3>1. i \in 1..(Len(pending) - 1) /\ j \in 1..(Len(pending) - 1)
      BY <2>2
    <3>2. i + 1 \in DOMAIN pending /\ j + 1 \in DOMAIN pending /\ pending[i + 1] = fd /\ pending[j + 1] = fd
      BY <2>2, <3>1
    <3>3. i + 1 = j + 1
      BY <1>h, <3>2 DEF Held, Exclusive
    <3> QED
      BY <3>1, <3>3
  <2>9. ASSUME NEW fd \in FDs PROVE Exclusive(fd)' /\ HoldsOpen(fd)'
    <3>1. CASE fd = f
      <4>1. ~Polled(fd)' /\ ~HasEvent(fd)' /\ ~Queued(fd)' /\ ~Writes(fd)' /\ sock'[fd] # 0
        BY <2>1, <2>5, <2>6, <2>7, <3>1
      <4>2. \A u \in Workers : Serves(u, fd)' => u = w
        BY <2>6, <2>7, <3>1
      <4> QED
        BY <2>8, <4>1, <4>2 DEF Exclusive, HoldsOpen
    <3>2. CASE fd # f
      <4>1. \A u \in Workers : Serves(u, fd)' => Serves(u, fd) /\ at'[u] = at[u]
        BY <2>7, <3>2
      <4>2. Exclusive(fd) /\ HoldsOpen(fd)
        BY <1>h DEF Held
      <4>3. Exclusive(fd)'
        BY <2>3, <2>7, <2>8, <4>1, <4>2 DEF Exclusive
      <4>4. HoldsOpen(fd)'
        BY <2>1, <2>3, <2>7, <4>1, <4>2 DEF HoldsOpen
      <4> QED
        BY <4>3, <4>4
    <3> QED
      BY <3>1, <3>2
  <2> QED
    BY <2>9 DEF Held
<1>21. ASSUME NEW w \in Workers, Parse(w) \/ Command(w) PROVE Held'
  <2>1. /\ UNCHANGED <<sock, pending>> /\ events' \subseteq events
        /\ \A fd \in FDs : (Polled(fd)' => Polled(fd)) /\ (Writes(fd)' => Writes(fd))
        /\ \A fd \in FDs, u \in Workers :
              Serves(u, fd)' => Serves(u, fd) /\ (at[u] = "clear" => at'[u] = "clear")
    BY <1>h, <1>21, MainAssumption, FDsAssumption DEF Parse, Goto, kernelVars, clientVars,
      userVars, timerVars, queueVars, historyVars, loopVars, Command, Threads, ThreadTypeOK,
      PoolTypeOK, Polled, Serves, Writes
  <2> QED
    BY <1>h, <2>1, HeldKept
<1>22. ASSUME NEW w \in Workers, RearmOneShot(w) PROVE Held'
  <2> DEFINE f == running[w]
  <2>1. /\ UNCHANGED <<sock, events, pending, obj>> /\ at[w] \in {"rearm_in", "rearm_out"}
        /\ \/ armed' = armed
           \/ armed' = [armed EXCEPT ![f] = "in"]
           \/ armed' = [armed EXCEPT ![f] = "out"]
        /\ running' = [running EXCEPT ![w] = NoFD] /\ at' = [at EXCEPT ![w] = "idle"]
    BY <1>22, MainAssumption DEF RearmOneShot, Rearm, Return, Goto, Pool!Finish, loopVars
  <2>2. f \in FDs /\ Serves(w, f)
    BY <1>h, <2>1 DEF ThreadsOK, PoolTypeOK, Serves
  <2>3. ~HasEvent(f) /\ ~Queued(f) /\ ~Writes(f) /\ \A u \in Workers : Serves(u, f) => u = w
    BY <1>h, <2>2 DEF Held, Exclusive
  <2>4. /\ \A fd \in FDs : (HasEvent(fd)' <=> HasEvent(fd)) /\ (Queued(fd)' <=> Queued(fd))
        /\ \A fd \in FDs : (fd # f => (Polled(fd)' <=> Polled(fd))) /\ (Writes(fd)' <=> Writes(fd))
        /\ \A u \in Workers, fd \in FDs :
              Serves(u, fd)' => Serves(u, fd) /\ u # w /\ at'[u] = at[u]
    BY <1>h, <2>1, FDsAssumption, MainAssumption
    DEF Writes, HasEvent, Queued, Polled, Serves, Writes, ThreadTypeOK, Threads, PoolTypeOK, KernelTypeOK
  <2>5. \A fd \in FDs : Exclusive(fd)'
    BY <1>h, <2>1, <2>3, <2>4 DEF Held, Exclusive
  <2>6. \A fd \in FDs : HoldsOpen(fd)'
    BY <1>h, <2>1, <2>3, <2>4 DEF Held, HoldsOpen
  <2> QED
    BY <2>5, <2>6 DEF Held
<1>23. ASSUME NEW w \in Workers, Leave(w) PROVE Held'
  <2>1. /\ UNCHANGED <<sock, pending>> /\ events' \subseteq events
        /\ \A fd \in FDs : (Polled(fd)' => Polled(fd)) /\ (Writes(fd)' => Writes(fd))
        /\ \A fd \in FDs, u \in Workers :
              Serves(u, fd)' => Serves(u, fd) /\ (at[u] = "clear" => at'[u] = "clear")
    BY <1>h, <1>23, MainAssumption, FDsAssumption DEF Leave, Pool!Leave, kernelVars,
      clientVars, userVars, localVars, timerVars, historyVars, loopVars, Threads,
      ThreadTypeOK, PoolTypeOK, Polled, Serves, Writes
  <2> QED
    BY <1>h, <2>1, HeldKept
<1> QED
  BY <1>w, <1>1, <1>2, <1>3, <1>4, <1>5, <1>6, <1>7, <1>8, <1>9, <1>10, <1>11, <1>12, <1>13,
    <1>14, <1>15, <1>16, <1>17, <1>18, <1>19, <1>20, <1>21, <1>22, <1>23 DEF Next,
    ReactorStep, Handle, Close, Teardown, WorkerStep, Threads

(* Who closes a descriptor holds it alone. *)
LEMMA CloserAlone ==
    ASSUME Held, ClosesAlone, ClosedOnce, ThreadsOK, PoolTypeOK, NEW t \in Threads, at[t] \in {"shut", "clear"}
    PROVE  \A w \in Workers : Serves(w, Working(t)) => w = t
<1>1. Working(t) \in FDs
  BY DEF Working, ThreadsOK, PoolTypeOK, Threads, Closing
<1>2. CASE t = Main
  BY <1>2 DEF Working, ClosedOnce, ClosesAlone
<1>3. CASE t # Main
  <2>1. t \in Workers /\ Serves(t, Working(t))
    BY <1>3 DEF Working, Threads, Serves
  <2> QED
    BY <1>1, <2>1 DEF Held, Exclusive
<1> QED
  BY <1>2, <1>3

(* A step that does not begin a close. *)
LEMMA AloneKept ==
    ASSUME ClosesAlone,
           at'[Main] \in {"check", "shut", "clear"} /\ m_sockfd'[obj'] # NoFD =>
               /\ at[Main] \in {"check", "shut", "clear"} /\ m_sockfd[obj] # NoFD
               /\ obj' = obj /\ UNCHANGED pending /\ events' \subseteq events
               /\ \A w \in Workers : Serves(w, obj)' => Serves(w, obj)
    PROVE  ClosesAlone'
BY DEF ClosesAlone, HasEvent, Queued

(* The reactor thread closes what nobody else works on. *)
LEMMA AloneKeeps ==
    ASSUME Inductive, Next, ~reused', ~overtaken'
    PROVE  ClosesAlone'
<1>h. Registered /\ Held /\ ClosesAlone /\ ClosedOnce /\ OpensArmed /\ ThreadsOK /\
  ThreadTypeOK /\ LoopTypeOK /\ KernelTypeOK /\ UserTypeOK /\ PoolTypeOK /\ BatchOK /\
  ClientTypeOK /\ InOrder
  BY HistoryGrows DEF Inductive, TypeOK, Owned
<1>1. ASSUME NEW c \in Conns, NEW k \in Kinds, Send(c, k) PROVE ClosesAlone'
  <2>1. at'[Main] \in {"check", "shut", "clear"} /\ m_sockfd'[obj'] # NoFD =>
               /\ at[Main] \in {"check", "shut", "clear"} /\ m_sockfd[obj] # NoFD
               /\ obj' = obj /\ UNCHANGED pending /\ events' \subseteq events
               /\ \A u \in Workers : Serves(u, obj)' => Serves(u, obj)
    BY <1>h, <1>1, MainAssumption, FDsAssumption DEF Send, kernelVars, userVars, localVars,
      timerVars, queueVars, historyVars, loopVars, Threads, ThreadTypeOK, LoopTypeOK,
      PoolTypeOK, UserTypeOK, Serves
  <2> QED
    BY <1>h, <2>1, AloneKept
<1>2. ASSUME NEW c \in Conns, HangUp(c) \/ Drain(c) PROVE ClosesAlone'
  <2>1. at'[Main] \in {"check", "shut", "clear"} /\ m_sockfd'[obj'] # NoFD =>
               /\ at[Main] \in {"check", "shut", "clear"} /\ m_sockfd[obj] # NoFD
               /\ obj' = obj /\ UNCHANGED pending /\ events' \subseteq events
               /\ \A u \in Workers : Serves(u, obj)' => Serves(u, obj)
    BY <1>h, <1>2, MainAssumption, FDsAssumption DEF HangUp, Drain, kernelVars, userVars,
      localVars, timerVars, queueVars, historyVars, loopVars, Threads, ThreadTypeOK,
      LoopTypeOK, PoolTypeOK, UserTypeOK, Serves
  <2> QED
    BY <1>h, <2>1, AloneKept
<1>3. ASSUME Elapse \/ AlarmFires \/ Terminate PROVE ClosesAlone'
  <2>1. at'[Main] \in {"check", "shut", "clear"} /\ m_sockfd'[obj'] # NoFD =>
               /\ at[Main] \in {"check", "shut", "clear"} /\ m_sockfd[obj] # NoFD
               /\ obj' = obj /\ UNCHANGED pending /\ events' \subseteq events
               /\ \A u \in Workers : Serves(u, obj)' => Serves(u, obj)
    BY <1>h, <1>3, MainAssumption, FDsAssumption DEF Elapse, kernelVars, clientVars,
      userVars, localVars, queueVars, historyVars, loopVars, AlarmFires, timerVars,
      Terminate, Threads, ThreadTypeOK, LoopTypeOK, PoolTypeOK, UserTypeOK, Serves
  <2> QED
    BY <1>h, <2>1, AloneKept
<1>4. ASSUME EpollWait PROVE ClosesAlone'
  <2>1. at'[Main] \in {"check", "shut", "clear"} /\ m_sockfd'[obj'] # NoFD =>
               /\ at[Main] \in {"check", "shut", "clear"} /\ m_sockfd[obj] # NoFD
               /\ obj' = obj /\ UNCHANGED pending /\ events' \subseteq events
               /\ \A u \in Workers : Serves(u, obj)' => Serves(u, obj)
    BY <1>h, <1>4, MainAssumption, FDsAssumption DEF EpollWait, Goto, clientVars, userVars,
      localVars, timerVars, queueVars, historyVars, Threads, ThreadTypeOK, LoopTypeOK,
      PoolTypeOK, UserTypeOK, Serves
  <2> QED
    BY <1>h, <2>1, AloneKept
<1>5. ASSUME NEW e \in events, AcceptFails(e) \/ HandleSignal(e) PROVE ClosesAlone'
  <2>1. at'[Main] \in {"check", "shut", "clear"} /\ m_sockfd'[obj'] # NoFD =>
               /\ at[Main] \in {"check", "shut", "clear"} /\ m_sockfd[obj] # NoFD
               /\ obj' = obj /\ UNCHANGED pending /\ events' \subseteq events
               /\ \A u \in Workers : Serves(u, obj)' => Serves(u, obj)
    BY <1>h, <1>5, MainAssumption, FDsAssumption DEF AcceptFails, Takes, kernelVars,
      userVars, localVars, timerVars, queueVars, historyVars, HandleSignal, clientVars,
      Threads, ThreadTypeOK, LoopTypeOK, PoolTypeOK, UserTypeOK, Serves
  <2> QED
    BY <1>h, <2>1, AloneKept
<1>6. ASSUME NEW e \in events, Accept(e) PROVE ClosesAlone'
  <2>1. at'[Main] \in {"check", "shut", "clear"} /\ m_sockfd'[obj'] # NoFD =>
               /\ at[Main] \in {"check", "shut", "clear"} /\ m_sockfd[obj] # NoFD
               /\ obj' = obj /\ UNCHANGED pending /\ events' \subseteq events
               /\ \A u \in Workers : Serves(u, obj)' => Serves(u, obj)
    BY <1>h, <1>6, MainAssumption, FDsAssumption DEF Accept, Takes, Goto, timerVars,
      queueVars, Threads, ThreadTypeOK, LoopTypeOK, PoolTypeOK, UserTypeOK, Serves
  <2> QED
    BY <1>h, <2>1, AloneKept
<1>7. ASSUME NEW e \in events, HandleHup(e) \/ HandleReadFails(e) PROVE
  ClosesAlone'
  <2>1. /\ UNCHANGED <<pending, running>> /\ e \in events /\ events' = events \ {e} /\ e.kind # "listen" /\ e.kind # "pipe"
        /\ (at'[Main] \notin {"check", "shut", "clear"} \/ obj' = e.fd)
        /\ \A w \in Workers : at'[w] = at[w]
    BY <1>h, <1>7, MainAssumption
    DEF HandleHup, HandleReadFails, Takes, CloseThen, Goto, queueVars, ThreadTypeOK, Threads
  <2>2. e.fd \in FDs
    BY <1>h, <2>1 DEF LoopTypeOK, Events
  <2>3. HasEvent(e.fd) /\ ~HasEvent(e.fd)'
    BY <1>h, <2>1, <2>2 DEF HasEvent, BatchOK
  <2>4. ~Queued(e.fd) /\ \A w \in Workers : ~Serves(w, e.fd)
    BY <1>h, <2>2, <2>3 DEF Held, Exclusive
  <2>5. /\ \A fd \in FDs : Queued(fd)' <=> Queued(fd)
        /\ \A fd \in FDs, w \in Workers : Serves(w, fd)' <=> Serves(w, fd)
    BY <2>1 DEF Queued, Serves
  <2> QED
    BY <1>h, <2>1, <2>2, <2>3, <2>4, <2>5 DEF ClosesAlone, HasEvent
<1>8. ASSUME NEW e \in events, HandleRead(e) PROVE ClosesAlone'
  <2>1. at'[Main] \in {"check", "shut", "clear"} /\ m_sockfd'[obj'] # NoFD =>
               /\ at[Main] \in {"check", "shut", "clear"} /\ m_sockfd[obj] # NoFD
               /\ obj' = obj /\ UNCHANGED pending /\ events' \subseteq events
               /\ \A u \in Workers : Serves(u, obj)' => Serves(u, obj)
    BY <1>h, <1>8, MainAssumption, FDsAssumption DEF HandleRead, Takes, AdjustTimer,
      Pool!Post, kernelVars, localVars, historyVars, Threads, ThreadTypeOK, LoopTypeOK,
      PoolTypeOK, UserTypeOK, Serves
  <2> QED
    BY <1>h, <2>1, AloneKept
<1>9. ASSUME NEW e \in events, HandleNothingToWrite(e) PROVE ClosesAlone'
  <2>1. at'[Main] \in {"check", "shut", "clear"} /\ m_sockfd'[obj'] # NoFD =>
               /\ at[Main] \in {"check", "shut", "clear"} /\ m_sockfd[obj] # NoFD
               /\ obj' = obj /\ UNCHANGED pending /\ events' \subseteq events
               /\ \A u \in Workers : Serves(u, obj)' => Serves(u, obj)
    BY <1>h, <1>9, MainAssumption, FDsAssumption DEF HandleNothingToWrite, Takes, Rearm,
      clientVars, localVars, timerVars, queueVars, historyVars, Threads, ThreadTypeOK,
      LoopTypeOK, PoolTypeOK, UserTypeOK, Serves
  <2> QED
    BY <1>h, <2>1, AloneKept
<1>10. ASSUME NEW e \in events, HandleWrite(e) PROVE ClosesAlone'
  <2>1. at'[Main] \in {"check", "shut", "clear"} /\ m_sockfd'[obj'] # NoFD =>
               /\ at[Main] \in {"check", "shut", "clear"} /\ m_sockfd[obj] # NoFD
               /\ obj' = obj /\ UNCHANGED pending /\ events' \subseteq events
               /\ \A u \in Workers : Serves(u, obj)' => Serves(u, obj)
    BY <1>h, <1>10, MainAssumption, FDsAssumption DEF HandleWrite, Takes, Goto, kernelVars,
      clientVars, userVars, localVars, timerVars, queueVars, historyVars, Threads, ThreadTypeOK,
      LoopTypeOK, PoolTypeOK, UserTypeOK, Serves
  <2> QED
    BY <1>h, <2>1, AloneKept
<1>w. ASSUME WriteStep PROVE ClosesAlone'
  <2>1. /\ UNCHANGED <<pending, running, events, obj>> /\ at[Main] = "write"
        /\ \A w \in Workers : at'[w] = at[w]
    BY <1>h, <1>w, WriteTurn, MainAssumption DEF ThreadTypeOK, Threads
  <2>2. ~HasEvent(obj) /\ ~Queued(obj) /\ \A w \in Workers : ~Serves(w, obj)
    BY <1>h, <2>1 DEF ThreadsOK, Held, Exclusive, Writes
  <2> QED
    BY <2>1, <2>2 DEF ClosesAlone, HasEvent, Queued, Serves
<1>11. ASSUME AcceptInit PROVE ClosesAlone'
  <2>1. at'[Main] \in {"check", "shut", "clear"} /\ m_sockfd'[obj'] # NoFD =>
               /\ at[Main] \in {"check", "shut", "clear"} /\ m_sockfd[obj] # NoFD
               /\ obj' = obj /\ UNCHANGED pending /\ events' \subseteq events
               /\ \A u \in Workers : Serves(u, obj)' => Serves(u, obj)
    BY <1>h, <1>11, MainAssumption, FDsAssumption DEF AcceptInit, Goto, kernelVars,
      clientVars, queueVars, historyVars, loopVars, Threads, ThreadTypeOK, LoopTypeOK,
      PoolTypeOK, UserTypeOK, Serves
  <2> QED
    BY <1>h, <2>1, AloneKept
<1>12. ASSUME EndOfBatch \/ TickEnds PROVE ClosesAlone'
  <2>1. at'[Main] \in {"check", "shut", "clear"} /\ m_sockfd'[obj'] # NoFD =>
               /\ at[Main] \in {"check", "shut", "clear"} /\ m_sockfd[obj] # NoFD
               /\ obj' = obj /\ UNCHANGED pending /\ events' \subseteq events
               /\ \A u \in Workers : Serves(u, obj)' => Serves(u, obj)
    BY <1>h, <1>12, MainAssumption, FDsAssumption DEF EndOfBatch, Goto, LoopOrStop,
      kernelVars, clientVars, userVars, localVars, timerVars, queueVars, historyVars,
      loopVars, TickEnds, Threads, ThreadTypeOK, LoopTypeOK, PoolTypeOK, UserTypeOK, Serves
  <2> QED
    BY <1>h, <2>1, AloneKept
<1>13. ASSUME TickExpires PROVE ClosesAlone'
  <2> DEFINE fd == where[Head(timers)]
  <2>1. /\ UNCHANGED <<pending, running, events, m_sockfd>> /\ obj' = fd /\ at[Main] = "tick"
        /\ (m_sockfd[fd] = NoFD \/ ~InService(fd))
    BY <1>h, <1>13 DEF TickExpires, CloseThen, queueVars, userVars
  <2>2. events = {}
    BY <1>h, <2>1 DEF BatchOK
  <2>3. ~InService(fd) => ~Queued(fd) /\ \A w \in Workers : running[w] # fd
    BY <1>h DEF InService, InRange, Queued, PoolTypeOK
  <2> QED
    BY <2>1, <2>2, <2>3 DEF ClosesAlone, HasEvent, Queued, Serves
<1>14. ASSUME TickPops PROVE ClosesAlone'
  <2>1. at'[Main] \in {"check", "shut", "clear"} /\ m_sockfd'[obj'] # NoFD =>
               /\ at[Main] \in {"check", "shut", "clear"} /\ m_sockfd[obj] # NoFD
               /\ obj' = obj /\ UNCHANGED pending /\ events' \subseteq events
               /\ \A u \in Workers : Serves(u, obj)' => Serves(u, obj)
    BY <1>h, <1>14, MainAssumption, FDsAssumption DEF TickPops, Goto, kernelVars,
      clientVars, userVars, localVars, queueVars, historyVars, loopVars, Threads,
      ThreadTypeOK, LoopTypeOK, PoolTypeOK, UserTypeOK, Serves
  <2> QED
    BY <1>h, <2>1, AloneKept
<1>15. ASSUME DeleteUsers \/ DeletePool \/ JoinThenDestroyEngines PROVE ClosesAlone'
  <2>1. at'[Main] \in {"check", "shut", "clear"} /\ m_sockfd'[obj'] # NoFD =>
               /\ at[Main] \in {"check", "shut", "clear"} /\ m_sockfd[obj] # NoFD
               /\ obj' = obj /\ UNCHANGED pending /\ events' \subseteq events
               /\ \A u \in Workers : Serves(u, obj)' => Serves(u, obj)
    BY <1>h, <1>15, MainAssumption, FDsAssumption DEF DeleteUsers, Goto, kernelVars,
      clientVars, userVars, localVars, timerVars, queueVars, historyVars, loopVars,
      DeletePool, Pool!Cancel, JoinThenDestroyEngines, Threads, ThreadTypeOK, LoopTypeOK,
      PoolTypeOK, UserTypeOK, Serves
  <2> QED
    BY <1>h, <2>1, AloneKept
<1>16. ASSUME NEW t \in Threads, CloseCheck(t) PROVE ClosesAlone'
  <2>1. /\ UNCHANGED <<m_sockfd, obj, pending, events>>
        /\ at'[Main] \in {"check", "shut", "clear"} => at[Main] \in {"check", "shut", "clear"}
    BY <1>h, <1>16, MainAssumption
    DEF CloseCheck, Goto, Return, Working, Pool!Finish, userVars, loopVars, queueVars, LoopTypeOK, ThreadTypeOK, Threads
  <2>2. \A u \in Workers, fd \in FDs : Serves(u, fd)' => Serves(u, fd)
    BY <1>h, <1>16, MainAssumption, FDsAssumption
    DEF CloseCheck, Goto, Return, Working, Pool!Finish, queueVars, Serves, PoolTypeOK, ThreadTypeOK, Threads
  <2>3. at[Main] \in {"check", "shut", "clear"} => obj \in FDs
    BY <1>h DEF ThreadsOK, Closing
  <2> QED
    BY <1>h, <2>1, <2>2, <2>3, AloneKept
<1>17. ASSUME NEW t \in Threads, CloseShut(t) PROVE ClosesAlone'
  <2>1. at'[Main] \in {"check", "shut", "clear"} /\ m_sockfd'[obj'] # NoFD =>
               /\ at[Main] \in {"check", "shut", "clear"} /\ m_sockfd[obj] # NoFD
               /\ obj' = obj /\ UNCHANGED pending /\ events' \subseteq events
               /\ \A u \in Workers : Serves(u, obj)' => Serves(u, obj)
    BY <1>h, <1>17, MainAssumption, FDsAssumption DEF CloseShut, Goto, Working, kernelVars,
      userVars, localVars, timerVars, queueVars, historyVars, loopVars, Threads,
      ThreadTypeOK, LoopTypeOK, PoolTypeOK, UserTypeOK, Serves
  <2> QED
    BY <1>h, <2>1, AloneKept
<1>18. ASSUME NEW t \in Threads, CloseClear(t) PROVE ClosesAlone'
  <2>1. at'[Main] \in {"check", "shut", "clear"} /\ m_sockfd'[obj'] # NoFD =>
               /\ at[Main] \in {"check", "shut", "clear"} /\ m_sockfd[obj] # NoFD
               /\ obj' = obj /\ UNCHANGED pending /\ events' \subseteq events
               /\ \A u \in Workers : Serves(u, obj)' => Serves(u, obj)
    BY <1>h, <1>18, MainAssumption, FDsAssumption DEF CloseClear, Goto, Working, kernelVars,
      clientVars, timerVars, queueVars, loopVars, Threads, ThreadTypeOK, LoopTypeOK,
      PoolTypeOK, UserTypeOK, Serves
  <2> QED
    BY <1>h, <2>1, AloneKept
<1>19. ASSUME NEW t \in Threads, CloseCount(t) PROVE ClosesAlone'
  <2>1. /\ UNCHANGED <<m_sockfd, obj, pending, events>>
        /\ at'[Main] \in {"check", "shut", "clear"} => at[Main] \in {"check", "shut", "clear"}
    BY <1>h, <1>19, MainAssumption
    DEF CloseCount, Return, Goto, Pool!Finish, userVars, loopVars, queueVars, LoopTypeOK, ThreadTypeOK, Threads
  <2>2. \A u \in Workers, fd \in FDs : Serves(u, fd)' => Serves(u, fd)
    BY <1>h, <1>19, MainAssumption, FDsAssumption
    DEF CloseCount, Return, Goto, Pool!Finish, queueVars, Serves, PoolTypeOK, ThreadTypeOK, Threads
  <2>3. at[Main] \in {"check", "shut", "clear"} => obj \in FDs
    BY <1>h DEF ThreadsOK, Closing
  <2> QED
    BY <1>h, <2>1, <2>2, <2>3, AloneKept
<1>20. ASSUME NEW w \in Workers, Start(w) PROVE ClosesAlone'
  <2>1. /\ UNCHANGED <<m_sockfd, obj, events>> /\ pending # << >>
        /\ running' = [running EXCEPT ![w] = Head(pending)] /\ pending' = Tail(pending)
        /\ at'[Main] = at[Main] /\ \A u \in Workers : u # w => at'[u] = at[u]
    BY <1>h, <1>20, MainAssumption
    DEF Start, Pool!Dispatch, Goto, userVars, loopVars, ThreadTypeOK, Threads
  <2>2. /\ Head(pending) = pending[1] /\ Len(pending) \in Nat /\ DOMAIN pending = 1..Len(pending)
        /\ Len(pending) >= 1 /\ DOMAIN pending' = 1..(Len(pending) - 1)
        /\ \A i \in 1..(Len(pending) - 1) : pending'[i] = pending[i + 1]
    BY <1>h, <2>1, HeadTailProperties, LenProperties, EmptySeq DEF PoolTypeOK
  <2>3. Queued(Head(pending))
    BY <2>2 DEF Queued
  <2>4. \A x : ~Queued(x) => \A i \in DOMAIN pending' : pending'[i] # x
    BY <2>2 DEF Queued
  <2> QED
    BY <1>h, <2>1, <2>3, <2>4 DEF ClosesAlone, HasEvent, Queued, Serves, PoolTypeOK
<1>21. ASSUME NEW w \in Workers, Parse(w) \/ Command(w) PROVE ClosesAlone'
  <2>1. at'[Main] \in {"check", "shut", "clear"} /\ m_sockfd'[obj'] # NoFD =>
               /\ at[Main] \in {"check", "shut", "clear"} /\ m_sockfd[obj] # NoFD
               /\ obj' = obj /\ UNCHANGED pending /\ events' \subseteq events
               /\ \A u \in Workers : Serves(u, obj)' => Serves(u, obj)
    BY <1>h, <1>21, MainAssumption, FDsAssumption DEF Parse, Goto, kernelVars, clientVars,
      userVars, timerVars, queueVars, historyVars, loopVars, Command, Threads, ThreadTypeOK,
      LoopTypeOK, PoolTypeOK, UserTypeOK, Serves
  <2> QED
    BY <1>h, <2>1, AloneKept
<1>22. ASSUME NEW w \in Workers, RearmOneShot(w) PROVE ClosesAlone'
  <2>1. /\ UNCHANGED <<m_sockfd, obj, pending, events>>
        /\ at'[Main] \in {"check", "shut", "clear"} => at[Main] \in {"check", "shut", "clear"}
    BY <1>h, <1>22, MainAssumption
    DEF RearmOneShot, Return, Rearm, Goto, Pool!Finish, userVars, loopVars, queueVars, LoopTypeOK, ThreadTypeOK, Threads
  <2>2. \A u \in Workers, fd \in FDs : Serves(u, fd)' => Serves(u, fd)
    BY <1>h, <1>22, MainAssumption, FDsAssumption
    DEF RearmOneShot, Return, Rearm, Goto, Pool!Finish, queueVars, Serves, PoolTypeOK, ThreadTypeOK, Threads
  <2>3. at[Main] \in {"check", "shut", "clear"} => obj \in FDs
    BY <1>h DEF ThreadsOK, Closing
  <2> QED
    BY <1>h, <2>1, <2>2, <2>3, AloneKept
<1>23. ASSUME NEW w \in Workers, Leave(w) PROVE ClosesAlone'
  <2>1. at'[Main] \in {"check", "shut", "clear"} /\ m_sockfd'[obj'] # NoFD =>
               /\ at[Main] \in {"check", "shut", "clear"} /\ m_sockfd[obj] # NoFD
               /\ obj' = obj /\ UNCHANGED pending /\ events' \subseteq events
               /\ \A u \in Workers : Serves(u, obj)' => Serves(u, obj)
    BY <1>h, <1>23, MainAssumption, FDsAssumption DEF Leave, Pool!Leave, kernelVars,
      clientVars, userVars, localVars, timerVars, historyVars, loopVars, Threads,
      ThreadTypeOK, LoopTypeOK, PoolTypeOK, UserTypeOK, Serves
  <2> QED
    BY <1>h, <2>1, AloneKept
<1> QED
  BY <1>w, <1>1, <1>2, <1>3, <1>4, <1>5, <1>6, <1>7, <1>8, <1>9, <1>10, <1>11, <1>12, <1>13,
    <1>14, <1>15, <1>16, <1>17, <1>18, <1>19, <1>20, <1>21, <1>22, <1>23 DEF Next,
    ReactorStep, Handle, Close, Teardown, WorkerStep, Threads

(* A step that neither opens nor closes. *)
LEMMA OnceKept ==
    ASSUME ClosedOnce, UNCHANGED <<sock, m_sockfd>>,
           at'[Main] = "shut" => at[Main] = "shut" /\ obj' = obj,
           \A t \in Threads : at'[t] = "clear" <=> at[t] = "clear",
           \A t \in Threads : at[t] = "clear" => Working(t)' = Working(t)
    PROVE  ClosedOnce'
<1>1. at'[Main] = "shut" => m_sockfd'[obj'] # NoFD
  BY DEF ClosedOnce
<1>2. \A t \in Threads : at'[t] = "clear" => m_sockfd'[Working(t)'] # NoFD
  BY DEF ClosedOnce
<1>3. ASSUME NEW fd \in FDs, m_sockfd'[fd] # NoFD, sock'[fd] = 0
      PROVE  \E t \in Threads : at'[t] = "clear" /\ Working(t)' = fd
  BY <1>3 DEF ClosedOnce
<1> QED
  BY <1>1, <1>2, <1>3 DEF ClosedOnce

(* Between close() and m_sockfd = -1 there is the thread that does both. *)
LEMMA OnceKeeps ==
    ASSUME Inductive, Next, ~reused', ~overtaken'
    PROVE  ClosedOnce'
<1>h. Registered /\ Held /\ ClosesAlone /\ ClosedOnce /\ OpensArmed /\ ThreadsOK /\
  ThreadTypeOK /\ LoopTypeOK /\ KernelTypeOK /\ UserTypeOK /\ PoolTypeOK /\ BatchOK /\
  ClientTypeOK /\ InOrder
  BY HistoryGrows DEF Inductive, TypeOK, Owned
<1>1. ASSUME NEW c \in Conns, NEW k \in Kinds, Send(c, k) PROVE ClosedOnce'
  <2>1. /\ UNCHANGED <<sock, m_sockfd>>
        /\ at'[Main] = "shut" => at[Main] = "shut" /\ obj' = obj
        /\ \A u \in Threads : at'[u] = "clear" <=> at[u] = "clear"
        /\ \A u \in Threads : at[u] = "clear" => Working(u)' = Working(u)
    BY <1>h, <1>1, MainAssumption, FDsAssumption DEF Send, kernelVars, userVars, localVars,
      timerVars, queueVars, historyVars, loopVars, Threads, ThreadTypeOK, LoopTypeOK,
      PoolTypeOK, Working
  <2> QED
    BY <1>h, <2>1, OnceKept
<1>2. ASSUME NEW c \in Conns, HangUp(c) \/ Drain(c) PROVE ClosedOnce'
  <2>1. /\ UNCHANGED <<sock, m_sockfd>>
        /\ at'[Main] = "shut" => at[Main] = "shut" /\ obj' = obj
        /\ \A u \in Threads : at'[u] = "clear" <=> at[u] = "clear"
        /\ \A u \in Threads : at[u] = "clear" => Working(u)' = Working(u)
    BY <1>h, <1>2, MainAssumption, FDsAssumption DEF HangUp, Drain, kernelVars, userVars,
      localVars, timerVars, queueVars, historyVars, loopVars, Threads, ThreadTypeOK,
      LoopTypeOK, PoolTypeOK, Working
  <2> QED
    BY <1>h, <2>1, OnceKept
<1>3. ASSUME Elapse \/ AlarmFires \/ Terminate PROVE ClosedOnce'
  <2>1. /\ UNCHANGED <<sock, m_sockfd>>
        /\ at'[Main] = "shut" => at[Main] = "shut" /\ obj' = obj
        /\ \A u \in Threads : at'[u] = "clear" <=> at[u] = "clear"
        /\ \A u \in Threads : at[u] = "clear" => Working(u)' = Working(u)
    BY <1>h, <1>3, MainAssumption, FDsAssumption DEF Elapse, kernelVars, clientVars,
      userVars, localVars, queueVars, historyVars, loopVars, AlarmFires, timerVars,
      Terminate, Threads, ThreadTypeOK, LoopTypeOK, PoolTypeOK, Working
  <2> QED
    BY <1>h, <2>1, OnceKept
<1>4. ASSUME EpollWait PROVE ClosedOnce'
  <2>1. /\ UNCHANGED <<sock, m_sockfd>>
        /\ at'[Main] = "shut" => at[Main] = "shut" /\ obj' = obj
        /\ \A u \in Threads : at'[u] = "clear" <=> at[u] = "clear"
        /\ \A u \in Threads : at[u] = "clear" => Working(u)' = Working(u)
    BY <1>h, <1>4, MainAssumption, FDsAssumption DEF EpollWait, Goto, clientVars, userVars,
      localVars, timerVars, queueVars, historyVars, Threads, ThreadTypeOK, LoopTypeOK,
      PoolTypeOK, Working
  <2> QED
    BY <1>h, <2>1, OnceKept
<1>5. ASSUME NEW e \in events, AcceptFails(e) \/ HandleSignal(e) PROVE ClosedOnce'
  <2>1. /\ UNCHANGED <<sock, m_sockfd>>
        /\ at'[Main] = "shut" => at[Main] = "shut" /\ obj' = obj
        /\ \A u \in Threads : at'[u] = "clear" <=> at[u] = "clear"
        /\ \A u \in Threads : at[u] = "clear" => Working(u)' = Working(u)
    BY <1>h, <1>5, MainAssumption, FDsAssumption DEF AcceptFails, Takes, kernelVars,
      userVars, localVars, timerVars, queueVars, historyVars, HandleSignal, clientVars,
      Threads, ThreadTypeOK, LoopTypeOK, PoolTypeOK, Working
  <2> QED
    BY <1>h, <2>1, OnceKept
<1>6. ASSUME NEW e \in events, Accept(e) PROVE ClosedOnce'
  <2> DEFINE f == LowestFree
  <2>1. /\ UNCHANGED running /\ at[Main] = "loop"
        /\ sock' = [sock EXCEPT ![f] = NextConn] /\ m_sockfd' = [m_sockfd EXCEPT ![f] = f]
        /\ at'[Main] = "accept" /\ \A w \in Workers : at'[w] = at[w]
    BY <1>h, <1>6, MainAssumption DEF Accept, Takes, Goto, queueVars, ThreadTypeOK, Threads
  <2>2. f \in FDs /\ sock[f] = 0 /\ NextConn # 0
    BY <1>h, <1>6, LowestFreeIsFree, AcceptedConns DEF Accept, NextConn
  <2>3. \A t \in Threads : at[t] = "clear" => t \in Workers /\ at'[t] = "clear" /\ Working(t)' = Working(t)
    BY <2>1, MainAssumption DEF Threads, Working
  <2>4. \A t \in Threads : at'[t] = "clear" => t \in Workers /\ at[t] = "clear" /\ Working(t)' = Working(t)
    BY <2>1, MainAssumption DEF Threads, Working
  <2>5. \A t \in Threads : at'[t] = "clear" => m_sockfd'[Working(t)'] # NoFD
    BY <1>h, <2>1, <2>2, <2>4, FDsAssumption DEF ClosedOnce, UserTypeOK
  <2>6. ASSUME NEW fd \in FDs, m_sockfd'[fd] # NoFD, sock'[fd] = 0
        PROVE  \E t \in Threads : at'[t] = "clear" /\ Working(t)' = fd
    <3>1. fd # f /\ m_sockfd[fd] # NoFD /\ sock[fd] = 0
      BY <1>h, <2>1, <2>2, <2>6 DEF KernelTypeOK, UserTypeOK
    <3> QED
      BY <1>h, <2>3, <3>1 DEF ClosedOnce
  <2> QED
    BY <2>1, <2>5, <2>6 DEF ClosedOnce
<1>7. ASSUME NEW e \in events, HandleHup(e) \/ HandleReadFails(e) PROVE
  ClosedOnce'
  <2>1. /\ UNCHANGED <<sock, m_sockfd>>
        /\ at'[Main] = "shut" => at[Main] = "shut" /\ obj' = obj
        /\ \A u \in Threads : at'[u] = "clear" <=> at[u] = "clear"
        /\ \A u \in Threads : at[u] = "clear" => Working(u)' = Working(u)
    BY <1>h, <1>7, MainAssumption, FDsAssumption DEF HandleHup, Takes, CloseThen, Goto,
      kernelVars, clientVars, userVars, localVars, timerVars, queueVars, historyVars,
      HandleReadFails, DelTimer, Threads, ThreadTypeOK, LoopTypeOK,
      PoolTypeOK, Working
  <2> QED
    BY <1>h, <2>1, OnceKept
<1>8. ASSUME NEW e \in events, HandleRead(e) PROVE ClosedOnce'
  <2>1. /\ UNCHANGED <<sock, m_sockfd>>
        /\ at'[Main] = "shut" => at[Main] = "shut" /\ obj' = obj
        /\ \A u \in Threads : at'[u] = "clear" <=> at[u] = "clear"
        /\ \A u \in Threads : at[u] = "clear" => Working(u)' = Working(u)
    BY <1>h, <1>8, MainAssumption, FDsAssumption DEF HandleRead, Takes, AdjustTimer,
      Pool!Post, kernelVars, localVars, historyVars, Threads, ThreadTypeOK, LoopTypeOK,
      PoolTypeOK, Working
  <2> QED
    BY <1>h, <2>1, OnceKept
<1>9. ASSUME NEW e \in events, HandleNothingToWrite(e) PROVE ClosedOnce'
  <2>1. /\ UNCHANGED <<sock, m_sockfd>>
        /\ at'[Main] = "shut" => at[Main] = "shut" /\ obj' = obj
        /\ \A u \in Threads : at'[u] = "clear" <=> at[u] = "clear"
        /\ \A u \in Threads : at[u] = "clear" => Working(u)' = Working(u)
    BY <1>h, <1>9, MainAssumption, FDsAssumption DEF HandleNothingToWrite, Takes, Rearm,
      clientVars, localVars, timerVars, queueVars, historyVars, Threads, ThreadTypeOK,
      LoopTypeOK, PoolTypeOK, Working
  <2> QED
    BY <1>h, <2>1, OnceKept
<1>10. ASSUME NEW e \in events, HandleWrite(e) PROVE ClosedOnce'
  <2>1. /\ UNCHANGED <<sock, m_sockfd>>
        /\ at'[Main] = "shut" => at[Main] = "shut" /\ obj' = obj
        /\ \A u \in Threads : at'[u] = "clear" <=> at[u] = "clear"
        /\ \A u \in Threads : at[u] = "clear" => Working(u)' = Working(u)
    BY <1>h, <1>10, MainAssumption, FDsAssumption DEF HandleWrite, Takes, Goto, kernelVars,
      clientVars, userVars, localVars, timerVars, queueVars, historyVars, Threads, ThreadTypeOK, LoopTypeOK, PoolTypeOK,
      Working
  <2> QED
    BY <1>h, <2>1, OnceKept
<1>w. ASSUME WriteStep PROVE ClosedOnce'
  <2>1. /\ UNCHANGED <<sock, m_sockfd>>
        /\ at'[Main] = "shut" => at[Main] = "shut" /\ obj' = obj
        /\ \A u \in Threads : at'[u] = "clear" <=> at[u] = "clear"
        /\ \A u \in Threads : at[u] = "clear" => Working(u)' = Working(u)
    BY <1>h, <1>w, WriteTurn, MainAssumption, FDsAssumption DEF Threads, ThreadTypeOK, LoopTypeOK, PoolTypeOK,
      Working
  <2> QED
    BY <1>h, <2>1, OnceKept
<1>11. ASSUME AcceptInit PROVE ClosedOnce'
  <2>1. /\ UNCHANGED <<sock, m_sockfd>>
        /\ at'[Main] = "shut" => at[Main] = "shut" /\ obj' = obj
        /\ \A u \in Threads : at'[u] = "clear" <=> at[u] = "clear"
        /\ \A u \in Threads : at[u] = "clear" => Working(u)' = Working(u)
    BY <1>h, <1>11, MainAssumption, FDsAssumption DEF AcceptInit, Goto, kernelVars,
      clientVars, queueVars, historyVars, loopVars, Threads, ThreadTypeOK, LoopTypeOK,
      PoolTypeOK, Working
  <2> QED
    BY <1>h, <2>1, OnceKept
<1>12. ASSUME EndOfBatch \/ TickEnds PROVE ClosedOnce'
  <2>1. /\ UNCHANGED <<sock, m_sockfd>>
        /\ at'[Main] = "shut" => at[Main] = "shut" /\ obj' = obj
        /\ \A u \in Threads : at'[u] = "clear" <=> at[u] = "clear"
        /\ \A u \in Threads : at[u] = "clear" => Working(u)' = Working(u)
    BY <1>h, <1>12, MainAssumption, FDsAssumption DEF EndOfBatch, Goto, LoopOrStop,
      kernelVars, clientVars, userVars, localVars, timerVars, queueVars, historyVars,
      loopVars, TickEnds, Threads, ThreadTypeOK, LoopTypeOK, PoolTypeOK, Working
  <2> QED
    BY <1>h, <2>1, OnceKept
<1>13. ASSUME TickExpires PROVE ClosedOnce'
  <2>1. /\ UNCHANGED <<sock, m_sockfd>>
        /\ at'[Main] = "shut" => at[Main] = "shut" /\ obj' = obj
        /\ \A u \in Threads : at'[u] = "clear" <=> at[u] = "clear"
        /\ \A u \in Threads : at[u] = "clear" => Working(u)' = Working(u)
    BY <1>h, <1>13, MainAssumption, FDsAssumption DEF TickExpires, CloseThen, Goto,
      kernelVars, clientVars, userVars, localVars, timerVars, queueVars, Threads,
      ThreadTypeOK, LoopTypeOK, PoolTypeOK, Working
  <2> QED
    BY <1>h, <2>1, OnceKept
<1>14. ASSUME TickPops PROVE ClosedOnce'
  <2>1. /\ UNCHANGED <<sock, m_sockfd>>
        /\ at'[Main] = "shut" => at[Main] = "shut" /\ obj' = obj
        /\ \A u \in Threads : at'[u] = "clear" <=> at[u] = "clear"
        /\ \A u \in Threads : at[u] = "clear" => Working(u)' = Working(u)
    BY <1>h, <1>14, MainAssumption, FDsAssumption DEF TickPops, Goto, kernelVars,
      clientVars, userVars, localVars, queueVars, historyVars, loopVars, Threads,
      ThreadTypeOK, LoopTypeOK, PoolTypeOK, Working
  <2> QED
    BY <1>h, <2>1, OnceKept
<1>15. ASSUME DeleteUsers \/ DeletePool \/ JoinThenDestroyEngines PROVE ClosedOnce'
  <2>1. /\ UNCHANGED <<sock, m_sockfd>>
        /\ at'[Main] = "shut" => at[Main] = "shut" /\ obj' = obj
        /\ \A u \in Threads : at'[u] = "clear" <=> at[u] = "clear"
        /\ \A u \in Threads : at[u] = "clear" => Working(u)' = Working(u)
    BY <1>h, <1>15, MainAssumption, FDsAssumption DEF DeleteUsers, Goto, kernelVars,
      clientVars, userVars, localVars, timerVars, queueVars, historyVars, loopVars,
      DeletePool, Pool!Cancel, JoinThenDestroyEngines, Threads, ThreadTypeOK, LoopTypeOK,
      PoolTypeOK, Working
  <2> QED
    BY <1>h, <2>1, OnceKept
<1>16. ASSUME NEW t \in Threads, CloseCheck(t) PROVE ClosedOnce'
  <2>1. /\ UNCHANGED <<sock, m_sockfd, obj>> /\ at[t] = "check"
        /\ at'[t] \in {"loop", "pop", "idle"} \/ (at'[t] = "shut" /\ m_sockfd[Working(t)] # NoFD)
        /\ \A u \in Threads : u # t => at'[u] = at[u]
        /\ \A u \in Workers : u # t => running'[u] = running[u]
    BY <1>h, <1>16, MainAssumption
    DEF CloseCheck, Return, Goto, Pool!Finish, kernelVars, userVars, loopVars, queueVars,
        ThreadTypeOK, LoopTypeOK, PoolTypeOK
  <2>2. \A u \in Threads : at'[u] = "clear" <=> at[u] = "clear"
    BY <2>1
  <2>3. \A u \in Threads : at[u] = "clear" => Working(u)' = Working(u)
    BY <2>1 DEF Working, Threads
  <2>4. at'[Main] = "shut" => m_sockfd'[obj'] # NoFD
    BY <1>h, <2>1 DEF Working, Threads, ClosedOnce
  <2>5. \A u \in Threads : at'[u] = "clear" => m_sockfd'[Working(u)'] # NoFD
    BY <1>h, <2>1, <2>2, <2>3 DEF ClosedOnce
  <2>6. ASSUME NEW fd \in FDs, m_sockfd'[fd] # NoFD, sock'[fd] = 0
        PROVE  \E u \in Threads : at'[u] = "clear" /\ Working(u)' = fd
    BY <1>h, <2>1, <2>2, <2>3, <2>6 DEF ClosedOnce
  <2> QED
    BY <2>4, <2>5, <2>6 DEF ClosedOnce
<1>17. ASSUME NEW t \in Threads, CloseShut(t) PROVE ClosedOnce'
  <2>1. /\ UNCHANGED <<running, obj, m_sockfd>> /\ at[t] = "shut" /\ at' = [at EXCEPT ![t] = "clear"]
        /\ \/ m_sockfd[Working(t)] = NoFD /\ UNCHANGED sock
           \/ sock' = [sock EXCEPT ![Working(t)] = 0]
    BY <1>17 DEF CloseShut, Goto, kernelVars, userVars, loopVars, queueVars
  <2>2. m_sockfd[Working(t)] # NoFD
    <3>1. CASE t = Main
      BY <1>h, <2>1, <3>1 DEF Working, ClosedOnce
    <3>2. CASE t # Main
      <4>1. t \in Workers /\ running[t] \in FDs /\ Serves(t, running[t]) /\ Working(t) = running[t]
        BY <1>h, <2>1, <3>2 DEF Working, Threads, Serves, ThreadsOK, PoolTypeOK
      <4>2. sock[running[t]] # 0
        BY <1>h, <2>1, <4>1 DEF Held, HoldsOpen
      <4> QED
        BY <1>h, <4>1, <4>2, FDsAssumption DEF Registered
    <3> QED
      BY <3>1, <3>2
  <2>3. \A u \in Threads : Working(u)' = Working(u)
    BY <2>1 DEF Working
  <2>4. \A u \in Threads : at'[u] = "clear" <=> u = t \/ at[u] = "clear"
    BY <1>h, <2>1 DEF ThreadTypeOK
  <2>5. at'[Main] = "shut" => at[Main] = "shut"
    BY <1>h, <2>1 DEF ThreadTypeOK, Threads
  <2>6. \A u \in Threads : at'[u] = "clear" => m_sockfd'[Working(u)'] # NoFD
    BY <1>h, <2>1, <2>2, <2>3, <2>4 DEF ClosedOnce
  <2>7. ASSUME NEW fd \in FDs, m_sockfd'[fd] # NoFD, sock'[fd] = 0
        PROVE  \E u \in Threads : at'[u] = "clear" /\ Working(u)' = fd
    <3>1. CASE fd = Working(t)
      BY <2>3, <2>4, <3>1
    <3>2. CASE fd # Working(t)
      <4>1. m_sockfd[fd] # NoFD /\ sock[fd] = 0
        BY <1>h, <2>1, <2>7, <3>2 DEF KernelTypeOK
      <4> QED
        BY <1>h, <2>3, <2>4, <4>1 DEF ClosedOnce
    <3> QED
      BY <3>1, <3>2
  <2> QED
    BY <1>h, <2>1, <2>5, <2>6, <2>7 DEF ClosedOnce
<1>18. ASSUME NEW t \in Threads, CloseClear(t) PROVE ClosedOnce'
  <2>1. /\ UNCHANGED <<sock, running, obj>> /\ at[t] = "clear" /\ at' = [at EXCEPT ![t] = "count"]
        /\ m_sockfd' = [m_sockfd EXCEPT ![Working(t)] = NoFD]
    BY <1>18 DEF CloseClear, Goto, kernelVars, loopVars, queueVars
  <2>2. \A u \in Threads : Working(u)' = Working(u)
    BY <2>1 DEF Working
  <2>3. \A u \in Threads : at'[u] = "clear" <=> u # t /\ at[u] = "clear"
    BY <1>h, <2>1 DEF ThreadTypeOK
  <2>4. at'[Main] = "shut" => at[Main] = "shut" /\ t # Main
    BY <1>h, <2>1 DEF ThreadTypeOK, Threads
  <2>5. \A w \in Workers : Serves(w, Working(t)) => w = t
    BY <1>h, <2>1, CloserAlone
  <2>6. t # Main => t \in Workers /\ Serves(t, Working(t))
    BY <2>1 DEF Threads, Serves, Working
  <2>7. at'[Main] = "shut" => m_sockfd'[obj'] # NoFD
    <3> SUFFICES ASSUME at'[Main] = "shut" PROVE m_sockfd'[obj] # NoFD
      BY <2>1
    <3>1. at[Main] = "shut" /\ m_sockfd[obj] # NoFD /\ t \in Workers /\ Serves(t, Working(t))
      BY <1>h, <2>4, <2>6 DEF ClosedOnce
    <3>2. obj # Working(t) /\ obj \in FDs
      BY <1>h, <3>1 DEF ClosesAlone, ThreadsOK, Closing
    <3> QED
      BY <1>h, <2>1, <3>1, <3>2 DEF UserTypeOK
  <2>8. ASSUME NEW u \in Threads, at'[u] = "clear" PROVE m_sockfd'[Working(u)'] # NoFD
    <3>1. u # t /\ at[u] = "clear" /\ m_sockfd[Working(u)] # NoFD
      BY <1>h, <2>3, <2>8 DEF ClosedOnce
    <3>2. Working(u) # Working(t)
      <4>1. u # Main => u \in Workers /\ Serves(u, Working(u))
        BY <3>1 DEF Threads, Serves, Working
      <4>2. \A w \in Workers : Serves(w, Working(u)) => w = u
        BY <1>h, <3>1, CloserAlone
      <4> QED
        BY <2>5, <2>6, <3>1, <4>1, <4>2
    <3> QED
      BY <1>h, <2>1, <2>2, <3>1, <3>2 DEF UserTypeOK
  <2>9. ASSUME NEW fd \in FDs, m_sockfd'[fd] # NoFD, sock'[fd] = 0
        PROVE  \E u \in Threads : at'[u] = "clear" /\ Working(u)' = fd
    <3>1. fd # Working(t) /\ m_sockfd[fd] # NoFD /\ sock[fd] = 0
      BY <1>h, <2>1, <2>9 DEF UserTypeOK
    <3>2. PICK u \in Threads : at[u] = "clear" /\ Working(u) = fd
      BY <1>h, <3>1 DEF ClosedOnce
    <3> QED
      BY <2>2, <2>3, <3>1, <3>2
  <2> QED
    BY <2>7, <2>8, <2>9 DEF ClosedOnce
<1>19. ASSUME NEW t \in Threads, CloseCount(t) PROVE ClosedOnce'
  <2>1. /\ UNCHANGED <<sock, m_sockfd>>
        /\ at'[Main] = "shut" => at[Main] = "shut" /\ obj' = obj
        /\ \A u \in Threads : at'[u] = "clear" <=> at[u] = "clear"
        /\ \A u \in Threads : at[u] = "clear" => Working(u)' = Working(u)
    BY <1>h, <1>19, MainAssumption, FDsAssumption DEF CloseCount, Return, Goto, Pool!Finish,
      kernelVars, clientVars, userVars, timerVars, queueVars, historyVars, loopVars,
      Threads, ThreadTypeOK, LoopTypeOK, PoolTypeOK, Working
  <2> QED
    BY <1>h, <2>1, OnceKept
<1>20. ASSUME NEW w \in Workers, Start(w) PROVE ClosedOnce'
  <2>1. /\ UNCHANGED <<sock, m_sockfd>>
        /\ at'[Main] = "shut" => at[Main] = "shut" /\ obj' = obj
        /\ \A u \in Threads : at'[u] = "clear" <=> at[u] = "clear"
        /\ \A u \in Threads : at[u] = "clear" => Working(u)' = Working(u)
    BY <1>h, <1>20, MainAssumption, FDsAssumption DEF Start, Goto, Pool!Dispatch,
      kernelVars, clientVars, userVars, localVars, timerVars, historyVars, loopVars,
      Threads, ThreadTypeOK, LoopTypeOK, PoolTypeOK, Working
  <2> QED
    BY <1>h, <2>1, OnceKept
<1>21. ASSUME NEW w \in Workers, Parse(w) \/ Command(w) PROVE ClosedOnce'
  <2>1. /\ UNCHANGED <<sock, m_sockfd>>
        /\ at'[Main] = "shut" => at[Main] = "shut" /\ obj' = obj
        /\ \A u \in Threads : at'[u] = "clear" <=> at[u] = "clear"
        /\ \A u \in Threads : at[u] = "clear" => Working(u)' = Working(u)
    BY <1>h, <1>21, MainAssumption, FDsAssumption DEF Parse, Goto, kernelVars, clientVars,
      userVars, timerVars, queueVars, historyVars, loopVars, Command, Threads, ThreadTypeOK,
      LoopTypeOK, PoolTypeOK, Working
  <2> QED
    BY <1>h, <2>1, OnceKept
<1>22. ASSUME NEW w \in Workers, RearmOneShot(w) PROVE ClosedOnce'
  <2>1. /\ UNCHANGED <<sock, m_sockfd>>
        /\ at'[Main] = "shut" => at[Main] = "shut" /\ obj' = obj
        /\ \A u \in Threads : at'[u] = "clear" <=> at[u] = "clear"
        /\ \A u \in Threads : at[u] = "clear" => Working(u)' = Working(u)
    BY <1>h, <1>22, MainAssumption, FDsAssumption DEF RearmOneShot, Return, Rearm, Goto,
      Pool!Finish, clientVars, userVars, localVars, timerVars, queueVars, historyVars,
      loopVars, Threads, ThreadTypeOK, LoopTypeOK, PoolTypeOK, Working
  <2> QED
    BY <1>h, <2>1, OnceKept
<1>23. ASSUME NEW w \in Workers, Leave(w) PROVE ClosedOnce'
  <2>1. /\ UNCHANGED <<sock, m_sockfd>>
        /\ at'[Main] = "shut" => at[Main] = "shut" /\ obj' = obj
        /\ \A u \in Threads : at'[u] = "clear" <=> at[u] = "clear"
        /\ \A u \in Threads : at[u] = "clear" => Working(u)' = Working(u)
    BY <1>h, <1>23, MainAssumption, FDsAssumption DEF Leave, Pool!Leave, kernelVars,
      clientVars, userVars, localVars, timerVars, historyVars, loopVars, Threads,
      ThreadTypeOK, LoopTypeOK, PoolTypeOK, Working
  <2> QED
    BY <1>h, <2>1, OnceKept
<1> QED
  BY <1>w, <1>1, <1>2, <1>3, <1>4, <1>5, <1>6, <1>7, <1>8, <1>9, <1>10, <1>11, <1>12, <1>13,
    <1>14, <1>15, <1>16, <1>17, <1>18, <1>19, <1>20, <1>21, <1>22, <1>23 DEF Next,
    ReactorStep, Handle, Close, Teardown, WorkerStep, Threads

(* What main() is opening is armed. *)
LEMMA OpensKeep ==
    ASSUME Inductive, Next, ~reused', ~overtaken'
    PROVE  OpensArmed'
<1>h. Registered /\ Held /\ ClosesAlone /\ ClosedOnce /\ OpensArmed /\ ThreadsOK /\
  ThreadTypeOK /\ LoopTypeOK /\ KernelTypeOK /\ UserTypeOK /\ PoolTypeOK /\ BatchOK /\
  ClientTypeOK /\ InOrder
  BY HistoryGrows DEF Inductive, TypeOK, Owned
<1>1. ASSUME NEW c \in Conns, NEW k \in Kinds, Send(c, k) PROVE OpensArmed'
  <2>1. at'[Main] = "accept" => at[Main] = "accept" /\ obj' = obj /\ armed'[obj] = armed[obj]
    BY <1>h, <1>1, MainAssumption, FDsAssumption DEF Send, kernelVars, userVars, localVars,
      timerVars, queueVars, historyVars, loopVars, Threads, ThreadTypeOK, LoopTypeOK
  <2> QED
    BY <1>h, <2>1 DEF OpensArmed, Polled
<1>2. ASSUME NEW c \in Conns, HangUp(c) \/ Drain(c) PROVE OpensArmed'
  <2>1. at'[Main] = "accept" => at[Main] = "accept" /\ obj' = obj /\ armed'[obj] = armed[obj]
    BY <1>h, <1>2, MainAssumption, FDsAssumption DEF HangUp, Drain, kernelVars, userVars,
      localVars, timerVars, queueVars, historyVars, loopVars, Threads, ThreadTypeOK,
      LoopTypeOK
  <2> QED
    BY <1>h, <2>1 DEF OpensArmed, Polled
<1>3. ASSUME Elapse \/ AlarmFires \/ Terminate PROVE OpensArmed'
  <2>1. at'[Main] = "accept" => at[Main] = "accept" /\ obj' = obj /\ armed'[obj] = armed[obj]
    BY <1>h, <1>3, MainAssumption, FDsAssumption DEF Elapse, kernelVars, clientVars,
      userVars, localVars, queueVars, historyVars, loopVars, AlarmFires, timerVars,
      Terminate, Threads, ThreadTypeOK, LoopTypeOK
  <2> QED
    BY <1>h, <2>1 DEF OpensArmed, Polled
<1>4. ASSUME EpollWait PROVE OpensArmed'
  <2>1. at'[Main] = "accept" => at[Main] = "accept" /\ obj' = obj /\ armed'[obj] = armed[obj]
    BY <1>h, <1>4, MainAssumption, FDsAssumption DEF EpollWait, Goto, clientVars, userVars,
      localVars, timerVars, queueVars, historyVars, Threads, ThreadTypeOK, LoopTypeOK
  <2> QED
    BY <1>h, <2>1 DEF OpensArmed, Polled
<1>5. ASSUME NEW e \in events, AcceptFails(e) \/ HandleSignal(e) PROVE OpensArmed'
  <2>1. at'[Main] = "accept" => at[Main] = "accept" /\ obj' = obj /\ armed'[obj] = armed[obj]
    BY <1>h, <1>5, MainAssumption, FDsAssumption DEF AcceptFails, Takes, kernelVars,
      userVars, localVars, timerVars, queueVars, historyVars, HandleSignal, clientVars,
      Threads, ThreadTypeOK, LoopTypeOK
  <2> QED
    BY <1>h, <2>1 DEF OpensArmed, Polled
<1>6. ASSUME NEW e \in events, Accept(e) PROVE OpensArmed'
  <2>1. armed' = [armed EXCEPT ![LowestFree] = "in"] /\ obj' = LowestFree /\ LowestFree \in FDs
    BY <1>6, LowestFreeIsFree DEF Accept
  <2> QED
    BY <1>h, <2>1 DEF OpensArmed, Polled, KernelTypeOK
<1>7. ASSUME NEW e \in events, HandleHup(e) \/ HandleReadFails(e) PROVE
  OpensArmed'
  <2>1. at'[Main] = "accept" => at[Main] = "accept" /\ obj' = obj /\ armed'[obj] = armed[obj]
    BY <1>h, <1>7, MainAssumption, FDsAssumption DEF HandleHup, Takes, CloseThen, Goto,
      kernelVars, clientVars, userVars, localVars, timerVars, queueVars, historyVars,
      HandleReadFails, DelTimer, Threads, ThreadTypeOK, LoopTypeOK
  <2> QED
    BY <1>h, <2>1 DEF OpensArmed, Polled
<1>8. ASSUME NEW e \in events, HandleRead(e) PROVE OpensArmed'
  <2>1. at'[Main] = "accept" => at[Main] = "accept" /\ obj' = obj /\ armed'[obj] = armed[obj]
    BY <1>h, <1>8, MainAssumption, FDsAssumption DEF HandleRead, Takes, AdjustTimer,
      Pool!Post, kernelVars, localVars, historyVars, Threads, ThreadTypeOK, LoopTypeOK
  <2> QED
    BY <1>h, <2>1 DEF OpensArmed, Polled
<1>9. ASSUME NEW e \in events, HandleNothingToWrite(e) PROVE OpensArmed'
  <2>1. at'[Main] = "accept" => at[Main] = "accept" /\ obj' = obj /\ armed'[obj] = armed[obj]
    BY <1>h, <1>9, MainAssumption, FDsAssumption DEF HandleNothingToWrite, Takes, Rearm,
      clientVars, localVars, timerVars, queueVars, historyVars, Threads, ThreadTypeOK,
      LoopTypeOK
  <2> QED
    BY <1>h, <2>1 DEF OpensArmed, Polled
<1>10. ASSUME NEW e \in events, HandleWrite(e) PROVE OpensArmed'
  <2>1. at'[Main] = "accept" => at[Main] = "accept" /\ obj' = obj /\ armed'[obj] = armed[obj]
    BY <1>h, <1>10, MainAssumption, FDsAssumption DEF HandleWrite, Takes, Goto, kernelVars,
      clientVars, userVars, localVars, timerVars, queueVars, historyVars, Threads, ThreadTypeOK, LoopTypeOK
  <2> QED
    BY <1>h, <2>1 DEF OpensArmed, Polled
<1>w. ASSUME WriteStep PROVE OpensArmed'
  <2>1. at'[Main] = "accept" => at[Main] = "accept" /\ obj' = obj /\ armed'[obj] = armed[obj]
    BY <1>h, <1>w, WriteTurn, MainAssumption, FDsAssumption DEF Threads, ThreadTypeOK, LoopTypeOK
  <2> QED
    BY <1>h, <2>1 DEF OpensArmed, Polled
<1>11. ASSUME AcceptInit PROVE OpensArmed'
  <2>1. at'[Main] = "accept" => at[Main] = "accept" /\ obj' = obj /\ armed'[obj] = armed[obj]
    BY <1>h, <1>11, MainAssumption, FDsAssumption DEF AcceptInit, Goto, kernelVars,
      clientVars, queueVars, historyVars, loopVars, Threads, ThreadTypeOK, LoopTypeOK
  <2> QED
    BY <1>h, <2>1 DEF OpensArmed, Polled
<1>12. ASSUME EndOfBatch \/ TickEnds PROVE OpensArmed'
  <2>1. at'[Main] = "accept" => at[Main] = "accept" /\ obj' = obj /\ armed'[obj] = armed[obj]
    BY <1>h, <1>12, MainAssumption, FDsAssumption DEF EndOfBatch, Goto, LoopOrStop,
      kernelVars, clientVars, userVars, localVars, timerVars, queueVars, historyVars,
      loopVars, TickEnds, Threads, ThreadTypeOK, LoopTypeOK
  <2> QED
    BY <1>h, <2>1 DEF OpensArmed, Polled
<1>13. ASSUME TickExpires PROVE OpensArmed'
  <2>1. at'[Main] = "accept" => at[Main] = "accept" /\ obj' = obj /\ armed'[obj] = armed[obj]
    BY <1>h, <1>13, MainAssumption, FDsAssumption DEF TickExpires, CloseThen, Goto,
      kernelVars, clientVars, userVars, localVars, timerVars, queueVars, Threads,
      ThreadTypeOK, LoopTypeOK
  <2> QED
    BY <1>h, <2>1 DEF OpensArmed, Polled
<1>14. ASSUME TickPops PROVE OpensArmed'
  <2>1. at'[Main] = "accept" => at[Main] = "accept" /\ obj' = obj /\ armed'[obj] = armed[obj]
    BY <1>h, <1>14, MainAssumption, FDsAssumption DEF TickPops, Goto, kernelVars,
      clientVars, userVars, localVars, queueVars, historyVars, loopVars, Threads,
      ThreadTypeOK, LoopTypeOK
  <2> QED
    BY <1>h, <2>1 DEF OpensArmed, Polled
<1>15. ASSUME DeleteUsers \/ DeletePool \/ JoinThenDestroyEngines PROVE OpensArmed'
  <2>1. at'[Main] = "accept" => at[Main] = "accept" /\ obj' = obj /\ armed'[obj] = armed[obj]
    BY <1>h, <1>15, MainAssumption, FDsAssumption DEF DeleteUsers, Goto, kernelVars,
      clientVars, userVars, localVars, timerVars, queueVars, historyVars, loopVars,
      DeletePool, Pool!Cancel, JoinThenDestroyEngines, Threads, ThreadTypeOK, LoopTypeOK
  <2> QED
    BY <1>h, <2>1 DEF OpensArmed, Polled
<1>16. ASSUME NEW t \in Threads, CloseCheck(t) PROVE OpensArmed'
  <2>1. at'[Main] = "accept" => at[Main] = "accept" /\ obj' = obj /\ armed'[obj] = armed[obj]
    BY <1>h, <1>16, MainAssumption, FDsAssumption DEF CloseCheck, Goto, Return, Working,
      Pool!Finish, kernelVars, clientVars, userVars, localVars, timerVars, queueVars,
      historyVars, loopVars, Threads, ThreadTypeOK, LoopTypeOK
  <2> QED
    BY <1>h, <2>1 DEF OpensArmed, Polled
<1>17. ASSUME NEW t \in Threads, CloseShut(t) PROVE OpensArmed'
  <2>1. /\ UNCHANGED <<obj, running>> /\ at[t] = "shut" /\ at' = [at EXCEPT ![t] = "clear"]
        /\ (armed' = armed \/ armed' = [armed EXCEPT ![Working(t)] = "no"])
    BY <1>17 DEF CloseShut, Goto, kernelVars, loopVars, queueVars
  <2> SUFFICES ASSUME at'[Main] = "accept" PROVE Polled(obj)'
    BY DEF OpensArmed
  <2>2. at[Main] = "accept" /\ t \in Workers /\ Working(t) = running[t] /\ Polled(obj) /\ obj \in FDs
    BY <1>h, <2>1 DEF ThreadTypeOK, Threads, OpensArmed, Working, ThreadsOK
  <2>3. obj # Working(t)
    BY <1>h, <2>1, <2>2 DEF Held, Exclusive, Serves
  <2> QED
    BY <1>h, <2>1, <2>2, <2>3 DEF Polled, KernelTypeOK
<1>18. ASSUME NEW t \in Threads, CloseClear(t) PROVE OpensArmed'
  <2>1. at'[Main] = "accept" => at[Main] = "accept" /\ obj' = obj /\ armed'[obj] = armed[obj]
    BY <1>h, <1>18, MainAssumption, FDsAssumption DEF CloseClear, Goto, Working, kernelVars,
      clientVars, timerVars, queueVars, loopVars, Threads, ThreadTypeOK, LoopTypeOK
  <2> QED
    BY <1>h, <2>1 DEF OpensArmed, Polled
<1>19. ASSUME NEW t \in Threads, CloseCount(t) PROVE OpensArmed'
  <2>1. at'[Main] = "accept" => at[Main] = "accept" /\ obj' = obj /\ armed'[obj] = armed[obj]
    BY <1>h, <1>19, MainAssumption, FDsAssumption DEF CloseCount, Return, Goto, Pool!Finish,
      kernelVars, clientVars, userVars, timerVars, queueVars, historyVars, loopVars,
      Threads, ThreadTypeOK, LoopTypeOK
  <2> QED
    BY <1>h, <2>1 DEF OpensArmed, Polled
<1>20. ASSUME NEW w \in Workers, Start(w) PROVE OpensArmed'
  <2>1. at'[Main] = "accept" => at[Main] = "accept" /\ obj' = obj /\ armed'[obj] = armed[obj]
    BY <1>h, <1>20, MainAssumption, FDsAssumption DEF Start, Goto, Pool!Dispatch,
      kernelVars, clientVars, userVars, localVars, timerVars, historyVars, loopVars,
      Threads, ThreadTypeOK, LoopTypeOK
  <2> QED
    BY <1>h, <2>1 DEF OpensArmed, Polled
<1>21. ASSUME NEW w \in Workers, Parse(w) \/ Command(w) PROVE OpensArmed'
  <2>1. at'[Main] = "accept" => at[Main] = "accept" /\ obj' = obj /\ armed'[obj] = armed[obj]
    BY <1>h, <1>21, MainAssumption, FDsAssumption DEF Parse, Goto, kernelVars, clientVars,
      userVars, timerVars, queueVars, historyVars, loopVars, Command, Threads, ThreadTypeOK,
      LoopTypeOK
  <2> QED
    BY <1>h, <2>1 DEF OpensArmed, Polled
<1>22. ASSUME NEW w \in Workers, RearmOneShot(w) PROVE OpensArmed'
  <2>1. /\ UNCHANGED obj /\ at[w] \in {"rearm_in", "rearm_out"} /\ at' = [at EXCEPT ![w] = "idle"]
        /\ \/ armed' = armed
           \/ armed' = [armed EXCEPT ![running[w]] = "in"]
           \/ armed' = [armed EXCEPT ![running[w]] = "out"]
    BY <1>22, MainAssumption DEF RearmOneShot, Rearm, Return, Goto, Pool!Finish, loopVars
  <2> SUFFICES ASSUME at'[Main] = "accept" PROVE Polled(obj)'
    BY DEF OpensArmed
  <2>2. at[Main] = "accept" /\ Polled(obj) /\ obj \in FDs
    BY <1>h, <2>1, MainAssumption DEF ThreadTypeOK, Threads, OpensArmed, ThreadsOK
  <2>3. obj # running[w]
    BY <1>h, <2>1, <2>2 DEF Held, Exclusive, Serves
  <2> QED
    BY <1>h, <2>1, <2>2, <2>3 DEF Polled, KernelTypeOK
<1>23. ASSUME NEW w \in Workers, Leave(w) PROVE OpensArmed'
  <2>1. at'[Main] = "accept" => at[Main] = "accept" /\ obj' = obj /\ armed'[obj] = armed[obj]
    BY <1>h, <1>23, MainAssumption, FDsAssumption DEF Leave, Pool!Leave, kernelVars,
      clientVars, userVars, localVars, timerVars, historyVars, loopVars, Threads,
      ThreadTypeOK, LoopTypeOK
  <2> QED
    BY <1>h, <2>1 DEF OpensArmed, Polled
<1> QED
  BY <1>w, <1>1, <1>2, <1>3, <1>4, <1>5, <1>6, <1>7, <1>8, <1>9, <1>10, <1>11, <1>12, <1>13,
    <1>14, <1>15, <1>16, <1>17, <1>18, <1>19, <1>20, <1>21, <1>22, <1>23 DEF Next,
    ReactorStep, Handle, Close, Teardown, WorkerStep, Threads

(* A step that moves no data. *)
LEMMA DataKept ==
    ASSUME OwnData, UNCHANGED <<wrong, sock, buf, reply>>,
           at[Main] = "accept" => at'[Main] = "accept" /\ obj' = obj,
           at'[Main] = "write" => at[Main] = "write" /\ obj' = obj,
           \A w \in Workers : at'[w] = "command" =>
               at[w] = "command" /\ running'[w] = running[w] /\ req'[w] = req[w]
    PROVE  OwnData'
BY DEF OwnData

(* What is in the buffers of an open connection is its own. *)
LEMMA OwnDataKeeps ==
    ASSUME Inductive, Next, ~reused', ~overtaken'
    PROVE  OwnData'
<1>h. Registered /\ Held /\ ClosesAlone /\ ClosedOnce /\ OpensArmed /\ OwnData /\ ThreadsOK
  /\ ThreadTypeOK /\ LoopTypeOK /\ KernelTypeOK /\ UserTypeOK /\ PoolTypeOK /\ BatchOK /\
  ClientTypeOK /\ InOrder
  BY HistoryGrows DEF Inductive, TypeOK, Owned
<1>1. ASSUME NEW c \in Conns, NEW k \in Kinds, Send(c, k) PROVE OwnData'
  <2>1. /\ UNCHANGED <<wrong, sock, buf, reply>>
        /\ at[Main] = "accept" => at'[Main] = "accept" /\ obj' = obj
        /\ at'[Main] = "write" => at[Main] = "write" /\ obj' = obj
        /\ \A u \in Workers : at'[u] = "command" =>
              at[u] = "command" /\ running'[u] = running[u] /\ req'[u] = req[u]
    BY <1>h, <1>1, MainAssumption, FDsAssumption DEF Send, kernelVars, userVars, localVars,
      timerVars, queueVars, historyVars, loopVars, Threads, ThreadTypeOK, LoopTypeOK,
      PoolTypeOK
  <2> QED
    BY <1>h, <2>1, DataKept
<1>2. ASSUME NEW c \in Conns, HangUp(c) \/ Drain(c) PROVE OwnData'
  <2>1. /\ UNCHANGED <<wrong, sock, buf, reply>>
        /\ at[Main] = "accept" => at'[Main] = "accept" /\ obj' = obj
        /\ at'[Main] = "write" => at[Main] = "write" /\ obj' = obj
        /\ \A u \in Workers : at'[u] = "command" =>
              at[u] = "command" /\ running'[u] = running[u] /\ req'[u] = req[u]
    BY <1>h, <1>2, MainAssumption, FDsAssumption DEF HangUp, Drain, kernelVars, userVars,
      localVars, timerVars, queueVars, historyVars, loopVars, Threads, ThreadTypeOK,
      LoopTypeOK, PoolTypeOK
  <2> QED
    BY <1>h, <2>1, DataKept
<1>3. ASSUME Elapse \/ AlarmFires \/ Terminate PROVE OwnData'
  <2>1. /\ UNCHANGED <<wrong, sock, buf, reply>>
        /\ at[Main] = "accept" => at'[Main] = "accept" /\ obj' = obj
        /\ at'[Main] = "write" => at[Main] = "write" /\ obj' = obj
        /\ \A u \in Workers : at'[u] = "command" =>
              at[u] = "command" /\ running'[u] = running[u] /\ req'[u] = req[u]
    BY <1>h, <1>3, MainAssumption, FDsAssumption DEF Elapse, kernelVars, clientVars,
      userVars, localVars, queueVars, historyVars, loopVars, AlarmFires, timerVars,
      Terminate, Threads, ThreadTypeOK, LoopTypeOK, PoolTypeOK
  <2> QED
    BY <1>h, <2>1, DataKept
<1>4. ASSUME EpollWait PROVE OwnData'
  <2>1. /\ UNCHANGED <<wrong, sock, buf, reply>>
        /\ at[Main] = "accept" => at'[Main] = "accept" /\ obj' = obj
        /\ at'[Main] = "write" => at[Main] = "write" /\ obj' = obj
        /\ \A u \in Workers : at'[u] = "command" =>
              at[u] = "command" /\ running'[u] = running[u] /\ req'[u] = req[u]
    BY <1>h, <1>4, MainAssumption, FDsAssumption DEF EpollWait, Goto, clientVars, userVars,
      localVars, timerVars, queueVars, historyVars, Threads, ThreadTypeOK, LoopTypeOK,
      PoolTypeOK
  <2> QED
    BY <1>h, <2>1, DataKept
<1>5. ASSUME NEW e \in events, AcceptFails(e) \/ HandleSignal(e) PROVE OwnData'
  <2>1. /\ UNCHANGED <<wrong, sock, buf, reply>>
        /\ at[Main] = "accept" => at'[Main] = "accept" /\ obj' = obj
        /\ at'[Main] = "write" => at[Main] = "write" /\ obj' = obj
        /\ \A u \in Workers : at'[u] = "command" =>
              at[u] = "command" /\ running'[u] = running[u] /\ req'[u] = req[u]
    BY <1>h, <1>5, MainAssumption, FDsAssumption DEF AcceptFails, Takes, kernelVars,
      userVars, localVars, timerVars, queueVars, historyVars, HandleSignal, clientVars,
      Threads, ThreadTypeOK, LoopTypeOK, PoolTypeOK
  <2> QED
    BY <1>h, <2>1, DataKept
<1>6. ASSUME NEW e \in events, Accept(e) PROVE OwnData'
  <2> DEFINE f == LowestFree
  <2>1. /\ UNCHANGED <<running, req, buf, reply, wrong>> /\ obj' = f /\ at'[Main] = "accept"
        /\ sock' = [sock EXCEPT ![f] = NextConn] /\ at[Main] = "loop"
        /\ \A w \in Workers : at'[w] = at[w]
    BY <1>h, <1>6, MainAssumption DEF Accept, Takes, Goto, queueVars, ThreadTypeOK, Threads
  <2>2. f \in FDs /\ sock[f] = 0
    BY <1>6, LowestFreeIsFree DEF Accept
  <2>3. \A w \in Workers : at[w] = "command" => running[w] # f
    BY <1>h, <2>2 DEF Held, HoldsOpen, Serves
  <2> QED
    BY <1>h, <2>1, <2>2, <2>3 DEF OwnData, KernelTypeOK
<1>7. ASSUME NEW e \in events, HandleHup(e) \/ HandleReadFails(e) PROVE
  OwnData'
  <2>1. /\ UNCHANGED <<wrong, sock, buf, reply>>
        /\ at[Main] = "accept" => at'[Main] = "accept" /\ obj' = obj
        /\ at'[Main] = "write" => at[Main] = "write" /\ obj' = obj
        /\ \A u \in Workers : at'[u] = "command" =>
              at[u] = "command" /\ running'[u] = running[u] /\ req'[u] = req[u]
    BY <1>h, <1>7, MainAssumption, FDsAssumption DEF HandleHup, Takes, CloseThen, Goto,
      kernelVars, clientVars, userVars, localVars, timerVars, queueVars, historyVars,
      HandleReadFails, DelTimer, Threads, ThreadTypeOK, LoopTypeOK,
      PoolTypeOK
  <2> QED
    BY <1>h, <2>1, DataKept
<1>8. ASSUME NEW e \in events, HandleRead(e) PROVE OwnData'
  <2>1. /\ UNCHANGED <<running, req, sock, obj, at, reply, wrong>> /\ at[Main] = "loop"
        /\ buf' = IF inbuf[sock[e.fd]] = "none" THEN buf
                  ELSE [buf EXCEPT ![e.fd] = [conn |-> sock[e.fd], data |-> inbuf[sock[e.fd]]]]
    BY <1>8 DEF HandleRead, Takes, kernelVars, localVars, historyVars, Pool!Post
  <2>2. \A fd \in FDs : buf'[fd] = buf[fd] \/ (fd = e.fd /\ buf'[fd].conn = sock[fd])
    BY <1>h, <2>1 DEF UserTypeOK
  <2> QED
    BY <1>h, <2>1, <2>2 DEF OwnData
<1>9. ASSUME NEW e \in events, HandleNothingToWrite(e) PROVE OwnData'
  <2>1. /\ UNCHANGED <<running, req, sock, obj, at, reply, wrong>> /\ at[Main] = "loop"
        /\ buf' = [buf EXCEPT ![e.fd] = Nothing]
    BY <1>9 DEF HandleNothingToWrite, Takes, localVars, queueVars, historyVars
  <2> QED
    BY <1>h, <2>1 DEF OwnData, UserTypeOK, Nothing
<1>10. ASSUME NEW e \in events, HandleWrite(e) PROVE OwnData'
  <2>1. /\ UNCHANGED <<running, req, sock, buf, reply, wrong>> /\ at[Main] = "loop"
        /\ obj' = e.fd /\ reply[e.fd].left # 0 /\ \A w \in Workers : at'[w] = at[w]
    BY <1>h, <1>10, MainAssumption
    DEF HandleWrite, Takes, Goto, kernelVars, userVars, queueVars, localVars, historyVars,
      ThreadTypeOK, Threads
  <2> QED
    BY <1>h, <2>1 DEF OwnData
<1>w. ASSUME WriteStep PROVE OwnData'
  <2>1. /\ UNCHANGED <<running, req, sock, obj>> /\ at[Main] = "write" /\ at'[Main] # "accept"
        /\ \A w \in Workers : at'[w] = at[w]
    BY <1>h, <1>w, WriteTurn, MainAssumption DEF ThreadTypeOK, Threads
  <2>2. obj \in FDs /\ reply[obj] \in Replies /\ reply[obj].left # 0
    BY <1>h, <2>1 DEF ThreadsOK, UserTypeOK, OwnData
  <2>3. sock[obj] # 0 => reply[obj].conn = sock[obj]
    BY <1>h, <2>1, <2>2 DEF OwnData
  <2>4. ASSUME NEW n \in 1..AnswerSize, WritePart(n) PROVE OwnData'
    <3>1. /\ UNCHANGED buf /\ n < reply[obj].left /\ sock[obj] # 0
          /\ wrong' = (wrong \/ reply[obj].conn # sock[obj])
          /\ reply'[obj].conn = reply[obj].conn /\ reply'[obj].left = reply[obj].left - n
          /\ \A fd \in FDs : fd # obj => reply'[fd] = reply[fd]
      BY <1>h, <2>2, <2>4 DEF WritePart, Valid, UserTypeOK, Replies
    <3>2. reply'[obj].left # 0
      BY <2>2, <3>1, AnswerAssumption DEF Replies
    <3> QED
      BY <1>h, <2>1, <2>3, <3>1, <3>2 DEF OwnData
  <2>5. ASSUME WriteRest PROVE OwnData'
    <3>1. /\ at'[Main] # "write" /\ sock[obj] # 0
          /\ wrong' = (wrong \/ reply[obj].conn # sock[obj])
          /\ reply' = [reply EXCEPT ![obj] = NoReply]
          /\ buf' = buf \/ buf' = [buf EXCEPT ![obj] = Nothing]
      BY <1>h, <2>5 DEF WriteRest, Valid, CloseThen, Goto, ThreadTypeOK, Threads
    <3>2. ~wrong'
      BY <1>h, <2>3, <3>1 DEF OwnData
    <3>3. \A fd \in FDs : (buf'[fd] = buf[fd] \/ buf'[fd].data = "none")
                          /\ (reply'[fd] = reply[fd] \/ reply'[fd].left = 0)
      BY <1>h, <3>1 DEF UserTypeOK, Nothing, NoReply
    <3> QED
      BY <1>h, <2>1, <3>1, <3>2, <3>3 DEF OwnData
  <2>6. ASSUME WriteBlocks \/ WriteFails PROVE OwnData'
    <3>1. UNCHANGED <<buf, reply, wrong>>
      BY <2>6 DEF WriteBlocks, WriteFails, userVars, historyVars
    <3> QED
      BY <1>h, <2>1, <3>1 DEF OwnData
  <2> QED
    BY <1>w, <2>4, <2>5, <2>6 DEF WriteStep
<1>11. ASSUME AcceptInit PROVE OwnData'
  <2>1. /\ UNCHANGED <<running, req, sock, obj, wrong>> /\ at[Main] = "accept"
        /\ at'[Main] = "loop" /\ buf' = [buf EXCEPT ![obj] = Nothing] /\ reply' = [reply EXCEPT ![obj] = NoReply]
        /\ \A w \in Workers : at'[w] = at[w]
    BY <1>h, <1>11, MainAssumption
    DEF AcceptInit, Goto, queueVars, kernelVars, loopVars, historyVars, ThreadTypeOK, Threads
  <2>2. obj \in FDs
    BY <1>h, <2>1 DEF ThreadsOK
  <2> QED
    BY <1>h, <2>1, <2>2 DEF OwnData, UserTypeOK, Nothing, NoReply
<1>12. ASSUME EndOfBatch \/ TickEnds PROVE OwnData'
  <2>1. /\ UNCHANGED <<wrong, sock, buf, reply>>
        /\ at[Main] = "accept" => at'[Main] = "accept" /\ obj' = obj
        /\ at'[Main] = "write" => at[Main] = "write" /\ obj' = obj
        /\ \A u \in Workers : at'[u] = "command" =>
              at[u] = "command" /\ running'[u] = running[u] /\ req'[u] = req[u]
    BY <1>h, <1>12, MainAssumption, FDsAssumption DEF EndOfBatch, Goto, LoopOrStop,
      kernelVars, clientVars, userVars, localVars, timerVars, queueVars, historyVars,
      loopVars, TickEnds, Threads, ThreadTypeOK, LoopTypeOK, PoolTypeOK
  <2> QED
    BY <1>h, <2>1, DataKept
<1>13. ASSUME TickExpires PROVE OwnData'
  <2>1. /\ UNCHANGED <<wrong, sock, buf, reply>>
        /\ at[Main] = "accept" => at'[Main] = "accept" /\ obj' = obj
        /\ at'[Main] = "write" => at[Main] = "write" /\ obj' = obj
        /\ \A u \in Workers : at'[u] = "command" =>
              at[u] = "command" /\ running'[u] = running[u] /\ req'[u] = req[u]
    BY <1>h, <1>13, MainAssumption, FDsAssumption DEF TickExpires, CloseThen, Goto,
      kernelVars, clientVars, userVars, localVars, timerVars, queueVars, Threads,
      ThreadTypeOK, LoopTypeOK, PoolTypeOK
  <2> QED
    BY <1>h, <2>1, DataKept
<1>14. ASSUME TickPops PROVE OwnData'
  <2>1. /\ UNCHANGED <<wrong, sock, buf, reply>>
        /\ at[Main] = "accept" => at'[Main] = "accept" /\ obj' = obj
        /\ at'[Main] = "write" => at[Main] = "write" /\ obj' = obj
        /\ \A u \in Workers : at'[u] = "command" =>
              at[u] = "command" /\ running'[u] = running[u] /\ req'[u] = req[u]
    BY <1>h, <1>14, MainAssumption, FDsAssumption DEF TickPops, Goto, kernelVars,
      clientVars, userVars, localVars, queueVars, historyVars, loopVars, Threads,
      ThreadTypeOK, LoopTypeOK, PoolTypeOK
  <2> QED
    BY <1>h, <2>1, DataKept
<1>15. ASSUME DeleteUsers \/ DeletePool \/ JoinThenDestroyEngines PROVE OwnData'
  <2>1. /\ UNCHANGED <<wrong, sock, buf, reply>>
        /\ at[Main] = "accept" => at'[Main] = "accept" /\ obj' = obj
        /\ at'[Main] = "write" => at[Main] = "write" /\ obj' = obj
        /\ \A u \in Workers : at'[u] = "command" =>
              at[u] = "command" /\ running'[u] = running[u] /\ req'[u] = req[u]
    BY <1>h, <1>15, MainAssumption, FDsAssumption DEF DeleteUsers, Goto, kernelVars,
      clientVars, userVars, localVars, timerVars, queueVars, historyVars, loopVars,
      DeletePool, Pool!Cancel, JoinThenDestroyEngines, Threads, ThreadTypeOK, LoopTypeOK,
      PoolTypeOK
  <2> QED
    BY <1>h, <2>1, DataKept
<1>16. ASSUME NEW t \in Threads, CloseCheck(t) PROVE OwnData'
  <2>1. /\ UNCHANGED <<wrong, sock, buf, reply>>
        /\ at[Main] = "accept" => at'[Main] = "accept" /\ obj' = obj
        /\ at'[Main] = "write" => at[Main] = "write" /\ obj' = obj
        /\ \A u \in Workers : at'[u] = "command" =>
              at[u] = "command" /\ running'[u] = running[u] /\ req'[u] = req[u]
    BY <1>h, <1>16, MainAssumption, FDsAssumption DEF CloseCheck, Goto, Return, Working,
      Pool!Finish, kernelVars, clientVars, userVars, localVars, timerVars, queueVars,
      historyVars, loopVars, Threads, ThreadTypeOK, LoopTypeOK, PoolTypeOK
  <2> QED
    BY <1>h, <2>1, DataKept
<1>17. ASSUME NEW t \in Threads, CloseShut(t) PROVE OwnData'
  <2>1. /\ UNCHANGED <<running, req, obj, buf, reply, wrong>> /\ at[t] = "shut"
        /\ at' = [at EXCEPT ![t] = "clear"]
        /\ (sock' = sock \/ sock' = [sock EXCEPT ![Working(t)] = 0])
    BY <1>17 DEF CloseShut, Goto, kernelVars, userVars, loopVars, queueVars, localVars, historyVars
  <2>2. \A w \in Workers : Serves(w, Working(t)) => w = t
    BY <1>h, <2>1, CloserAlone
  <2>3. \A w \in Workers : at'[w] = "command" => at[w] = "command" /\ w # t /\ running[w] # Working(t)
    BY <1>h, <2>1, <2>2 DEF ThreadTypeOK, Threads, Serves
  <2>4. /\ at[Main] = "accept" => at'[Main] = "accept"
        /\ at'[Main] = "write" => at[Main] = "write"
    BY <1>h, <2>1 DEF ThreadTypeOK, Threads
  <2>5. \A fd \in FDs : sock'[fd] \in {0, sock[fd]} /\ (fd # Working(t) => sock'[fd] = sock[fd])
    BY <1>h, <2>1 DEF KernelTypeOK
  <2>6. \A w \in Workers : at[w] = "command" => running[w] \in FDs
    BY <1>h DEF ThreadsOK, PoolTypeOK
  <2> QED
    BY <1>h, <2>1, <2>3, <2>4, <2>5, <2>6 DEF OwnData
<1>18. ASSUME NEW t \in Threads, CloseClear(t) PROVE OwnData'
  <2>1. /\ UNCHANGED <<wrong, sock, buf, reply>>
        /\ at[Main] = "accept" => at'[Main] = "accept" /\ obj' = obj
        /\ at'[Main] = "write" => at[Main] = "write" /\ obj' = obj
        /\ \A u \in Workers : at'[u] = "command" =>
              at[u] = "command" /\ running'[u] = running[u] /\ req'[u] = req[u]
    BY <1>h, <1>18, MainAssumption, FDsAssumption DEF CloseClear, Goto, Working, kernelVars,
      clientVars, timerVars, queueVars, loopVars, Threads, ThreadTypeOK, LoopTypeOK,
      PoolTypeOK
  <2> QED
    BY <1>h, <2>1, DataKept
<1>19. ASSUME NEW t \in Threads, CloseCount(t) PROVE OwnData'
  <2>1. /\ UNCHANGED <<wrong, sock, buf, reply>>
        /\ at[Main] = "accept" => at'[Main] = "accept" /\ obj' = obj
        /\ at'[Main] = "write" => at[Main] = "write" /\ obj' = obj
        /\ \A u \in Workers : at'[u] = "command" =>
              at[u] = "command" /\ running'[u] = running[u] /\ req'[u] = req[u]
    BY <1>h, <1>19, MainAssumption, FDsAssumption DEF CloseCount, Return, Goto, Pool!Finish,
      kernelVars, clientVars, userVars, timerVars, queueVars, historyVars, loopVars,
      Threads, ThreadTypeOK, LoopTypeOK, PoolTypeOK
  <2> QED
    BY <1>h, <2>1, DataKept
<1>20. ASSUME NEW w \in Workers, Start(w) PROVE OwnData'
  <2>1. /\ UNCHANGED <<wrong, sock, buf, reply>>
        /\ at[Main] = "accept" => at'[Main] = "accept" /\ obj' = obj
        /\ at'[Main] = "write" => at[Main] = "write" /\ obj' = obj
        /\ \A u \in Workers : at'[u] = "command" =>
              at[u] = "command" /\ running'[u] = running[u] /\ req'[u] = req[u]
    BY <1>h, <1>20, MainAssumption, FDsAssumption DEF Start, Goto, Pool!Dispatch,
      kernelVars, clientVars, userVars, localVars, timerVars, historyVars, loopVars,
      Threads, ThreadTypeOK, LoopTypeOK, PoolTypeOK
  <2> QED
    BY <1>h, <2>1, DataKept
<1>21. ASSUME NEW w \in Workers, Parse(w) PROVE OwnData'
  <2> DEFINE fd == running[w]
  <2>1. /\ UNCHANGED <<running, sock, obj, buf, reply, wrong>> /\ at[w] = "process"
        /\ (at'[w] = "command" => req'[w] = buf[fd] /\ buf[fd].data # "none")
        /\ \A u \in Workers : u # w => at'[u] = at[u] /\ req'[u] = req[u]
        /\ at'[Main] = at[Main]
    BY <1>h, <1>21, MainAssumption
    DEF Parse, Goto, kernelVars, userVars, loopVars, queueVars, historyVars, ThreadTypeOK, Threads
  <2>2. fd \in FDs /\ Serves(w, fd)
    BY <1>h, <2>1 DEF ThreadsOK, PoolTypeOK, Serves
  <2>3. sock[fd] # 0 /\ ~(at[Main] = "accept" /\ obj = fd)
    BY <1>h, <2>1, <2>2 DEF Held, Exclusive, HoldsOpen, OpensArmed
  <2> QED
    BY <1>h, <2>1, <2>2, <2>3 DEF OwnData
<1>22. ASSUME NEW w \in Workers, Command(w) PROVE OwnData'
  <2> DEFINE fd == running[w]
  <2>1. /\ UNCHANGED <<running, sock, obj, buf, wrong>> /\ at[w] = "command" /\ at'[w] # "command"
        /\ \/ reply' = reply
           \/ reply' = [reply EXCEPT ![fd] =
                            [conn |-> req[w].conn, keep |-> req[w].data = "keep",
                             have |-> reply[fd].have, left |-> AnswerSize, iov |-> AnswerSize]]
        /\ \A u \in Workers : u # w => at'[u] = at[u] /\ req'[u] = req[u]
        /\ at'[Main] = at[Main]
    BY <1>h, <1>22, MainAssumption
    DEF Command, Goto, kernelVars, userVars, loopVars, queueVars, historyVars, ThreadTypeOK, Threads
  <2>2. \A g \in FDs :
           reply'[g] = reply[g] \/ (g = fd /\ reply'[g].conn = req[w].conn /\ reply'[g].left # 0)
    <3> DEFINE r == [conn |-> req[w].conn, keep |-> req[w].data = "keep",
                     have |-> reply[fd].have, left |-> AnswerSize, iov |-> AnswerSize]
    <3>1. r.conn = req[w].conn /\ r.left # 0
      BY AnswerAssumption
    <3>2. reply' = reply \/ reply' = [reply EXCEPT ![fd] = r]
      BY <2>1
    <3> HIDE DEF r
    <3>3. \A g \in FDs : reply'[g] = reply[g] \/ (g = fd /\ reply'[g] = r)
      BY <1>h, <3>2 DEF UserTypeOK
    <3> QED
      BY <3>1, <3>3
  <2>3. at[Main] = "write" => obj \in FDs
    BY <1>h DEF ThreadsOK
  <2> QED
    BY <1>h, <2>1, <2>2, <2>3 DEF OwnData
<1>23. ASSUME NEW w \in Workers, RearmOneShot(w) PROVE OwnData'
  <2>1. /\ UNCHANGED <<wrong, sock, buf, reply>>
        /\ at[Main] = "accept" => at'[Main] = "accept" /\ obj' = obj
        /\ at'[Main] = "write" => at[Main] = "write" /\ obj' = obj
        /\ \A u \in Workers : at'[u] = "command" =>
              at[u] = "command" /\ running'[u] = running[u] /\ req'[u] = req[u]
    BY <1>h, <1>23, MainAssumption, FDsAssumption DEF RearmOneShot, Return, Rearm, Goto,
      Pool!Finish, clientVars, userVars, localVars, timerVars, queueVars, historyVars,
      loopVars, Threads, ThreadTypeOK, LoopTypeOK, PoolTypeOK
  <2> QED
    BY <1>h, <2>1, DataKept
<1>24. ASSUME NEW w \in Workers, Leave(w) PROVE OwnData'
  <2>1. /\ UNCHANGED <<wrong, sock, buf, reply>>
        /\ at[Main] = "accept" => at'[Main] = "accept" /\ obj' = obj
        /\ at'[Main] = "write" => at[Main] = "write" /\ obj' = obj
        /\ \A u \in Workers : at'[u] = "command" =>
              at[u] = "command" /\ running'[u] = running[u] /\ req'[u] = req[u]
    BY <1>h, <1>24, MainAssumption, FDsAssumption DEF Leave, Pool!Leave, kernelVars,
      clientVars, userVars, localVars, timerVars, historyVars, loopVars, Threads,
      ThreadTypeOK, LoopTypeOK, PoolTypeOK
  <2> QED
    BY <1>h, <2>1, DataKept
<1> QED
  BY <1>w, <1>1, <1>2, <1>3, <1>4, <1>5, <1>6, <1>7, <1>8, <1>9, <1>10, <1>11, <1>12, <1>13,
    <1>14, <1>15, <1>16, <1>17, <1>18, <1>19, <1>20, <1>21, <1>22, <1>23, <1>24 DEF Next,
    ReactorStep, Handle, Close, Teardown, WorkerStep, Threads

(* A step that neither counts nor is about to. *)
LEMMA CountedKept ==
    ASSUME Counted, UNCHANGED <<m_sockfd, m_user_count>>,
           \A t \in Threads : Counting(t)' <=> Counting(t),
           \A t \in Threads : Counting(t) => at'[t] = at[t] /\ cnt'[t] = cnt[t]
    PROVE  Counted'
<1>1. Users' = Users
  BY DEF Users
<1>2. CountBusy' <=> CountBusy
  BY DEF CountBusy, Counting
<1> QED
  BY <1>1, <1>2 DEF Counted

(* The store ends the update. *)
LEMMA CountedStore ==
    ASSUME Counted, NEW t \in Threads, Counting(t), m_sockfd' = m_sockfd,
           m_user_count' = IF at[t] = "accept" THEN cnt[t] + 1 ELSE cnt[t] - 1,
           \A u \in Threads : Counting(u)' <=> Counting(u) /\ u # t
    PROVE  Counted'
<1>1. Users' = Users
  BY DEF Users
<1>2. \A u \in Threads : ~Counting(u)'
  BY DEF Counted
<1>3. m_user_count' = Cardinality(Users')
  BY <1>1 DEF Counted
<1> QED
  BY <1>2, <1>3 DEF Counted

(* The load begins it, alone. *)
LEMMA CountedLoad ==
    ASSUME Counted, ~CountBusy, NEW t \in Threads,
           \A u \in Threads : Counting(u)' <=> Counting(u) \/ u = t,
           cnt'[t] = m_user_count,
           Cardinality(Users') = IF at'[t] = "accept" THEN Cardinality(Users) + 1
                                                      ELSE Cardinality(Users) - 1
    PROVE  Counted'
<1>1. \A u \in Threads : Counting(u)' <=> u = t
  BY DEF CountBusy, Counting
<1>2. CountBusy'
  BY <1>1 DEF CountBusy, Counting
<1>3. m_user_count = Cardinality(Users)
  BY DEF Counted
<1> QED
  BY <1>1, <1>2, <1>3 DEF Counted

(* One thread at a time updates the counter. *)
LEMMA CountedKeeps ==
    ASSUME Inductive, Next, ~reused', ~overtaken', ~raced'
    PROVE  Counted'
<1>h. Registered /\ Held /\ ClosesAlone /\ ClosedOnce /\ OpensArmed /\ OwnData /\ ThreadsOK
  /\ ThreadTypeOK /\ LoopTypeOK /\ KernelTypeOK /\ UserTypeOK /\ PoolTypeOK /\ BatchOK /\
  ClientTypeOK /\ InOrder /\ Counted
  BY HistoryGrows DEF Inductive, TypeOK, Owned
<1>1. ASSUME NEW c \in Conns, NEW k \in Kinds, Send(c, k) PROVE Counted'
  <2>1. /\ UNCHANGED <<m_sockfd, m_user_count>>
        /\ \A u \in Threads : Counting(u)' <=> Counting(u)
        /\ \A u \in Threads : Counting(u) => at'[u] = at[u] /\ cnt'[u] = cnt[u]
    BY <1>h, <1>1, MainAssumption DEF Send, kernelVars, userVars, localVars, timerVars,
      queueVars, historyVars, loopVars, Threads, ThreadTypeOK, LoopTypeOK, Counting
  <2> QED
    BY <1>h, <2>1, CountedKept
<1>2. ASSUME NEW c \in Conns, HangUp(c) \/ Drain(c) PROVE Counted'
  <2>1. /\ UNCHANGED <<m_sockfd, m_user_count>>
        /\ \A u \in Threads : Counting(u)' <=> Counting(u)
        /\ \A u \in Threads : Counting(u) => at'[u] = at[u] /\ cnt'[u] = cnt[u]
    BY <1>h, <1>2, MainAssumption DEF HangUp, Drain, kernelVars, userVars, localVars, timerVars,
      queueVars, historyVars, loopVars, Threads, ThreadTypeOK, LoopTypeOK, Counting
  <2> QED
    BY <1>h, <2>1, CountedKept
<1>3. ASSUME Elapse \/ AlarmFires \/ Terminate PROVE Counted'
  <2>1. /\ UNCHANGED <<m_sockfd, m_user_count>>
        /\ \A u \in Threads : Counting(u)' <=> Counting(u)
        /\ \A u \in Threads : Counting(u) => at'[u] = at[u] /\ cnt'[u] = cnt[u]
    BY <1>h, <1>3, MainAssumption DEF Elapse, kernelVars, clientVars, userVars, localVars,
      queueVars, historyVars, loopVars, AlarmFires, timerVars, Terminate, Threads,
      ThreadTypeOK, LoopTypeOK, Counting
  <2> QED
    BY <1>h, <2>1, CountedKept
<1>4. ASSUME EpollWait PROVE Counted'
  <2>1. /\ UNCHANGED <<m_sockfd, m_user_count>>
        /\ \A u \in Threads : Counting(u)' <=> Counting(u)
        /\ \A u \in Threads : Counting(u) => at'[u] = at[u] /\ cnt'[u] = cnt[u]
    BY <1>h, <1>4, MainAssumption DEF EpollWait, Goto, clientVars, userVars, localVars,
      timerVars, queueVars, historyVars, Threads, ThreadTypeOK, LoopTypeOK, Counting
  <2> QED
    BY <1>h, <2>1, CountedKept
<1>5. ASSUME NEW e \in events, AcceptFails(e) \/ HandleSignal(e) PROVE Counted'
  <2>1. /\ UNCHANGED <<m_sockfd, m_user_count>>
        /\ \A u \in Threads : Counting(u)' <=> Counting(u)
        /\ \A u \in Threads : Counting(u) => at'[u] = at[u] /\ cnt'[u] = cnt[u]
    BY <1>h, <1>5, MainAssumption DEF AcceptFails, Takes, kernelVars, userVars, localVars,
      timerVars, queueVars, historyVars, HandleSignal, clientVars, Threads, ThreadTypeOK,
      LoopTypeOK, Counting
  <2> QED
    BY <1>h, <2>1, CountedKept
<1>6. ASSUME NEW e \in events, Accept(e) PROVE Counted'
  <2> DEFINE f == LowestFree
  <2>1. /\ ~CountBusy /\ cnt'[Main] = m_user_count
        /\ sock[f] = 0 /\ f \in FDs /\ m_sockfd' = [m_sockfd EXCEPT ![f] = f]
        /\ at' = [at EXCEPT ![Main] = "accept"] /\ at[Main] = "loop"
        /\ ~\E w \in Workers : running[w] = f /\ at[w] = "clear"
    BY <1>h, <1>6, LowestFreeIsFree DEF Accept, Takes, Goto, ThreadTypeOK, Threads
  <2>2. m_sockfd[f] = NoFD
    BY <1>h, <2>1 DEF ClosedOnce, Threads, Working
  <2>3. Users' = Users \cup {f} /\ f \notin Users
    BY <1>h, <2>1, <2>2, FDsAssumption DEF Users, UserTypeOK
  <2>4. IsFiniteSet(Users)
    BY FDsAssumption, FS_Subset DEF Users
  <2>5. Cardinality(Users') = Cardinality(Users) + 1
    BY <2>3, <2>4, FS_AddElement
  <2>6. /\ \A u \in Threads : Counting(u)' <=> Counting(u) \/ u = Main
        /\ Main \in Threads /\ at'[Main] = "accept"
    BY <1>h, <2>1 DEF Counting, ThreadTypeOK, Threads
  <2> QED
    BY <1>h, <2>1, <2>5, <2>6, CountedLoad
<1>7. ASSUME NEW e \in events, HandleHup(e) \/ HandleReadFails(e) PROVE
  Counted'
  <2>1. /\ UNCHANGED <<m_sockfd, m_user_count>>
        /\ \A u \in Threads : Counting(u)' <=> Counting(u)
        /\ \A u \in Threads : Counting(u) => at'[u] = at[u] /\ cnt'[u] = cnt[u]
    BY <1>h, <1>7, MainAssumption DEF HandleHup, Takes, CloseThen, Goto, kernelVars,
      clientVars, userVars, localVars, timerVars, queueVars, historyVars, HandleReadFails,
      DelTimer, Threads, ThreadTypeOK, LoopTypeOK, Counting
  <2> QED
    BY <1>h, <2>1, CountedKept
<1>8. ASSUME NEW e \in events, HandleRead(e) PROVE Counted'
  <2>1. /\ UNCHANGED <<m_sockfd, m_user_count>>
        /\ \A u \in Threads : Counting(u)' <=> Counting(u)
        /\ \A u \in Threads : Counting(u) => at'[u] = at[u] /\ cnt'[u] = cnt[u]
    BY <1>h, <1>8, MainAssumption DEF HandleRead, Takes, AdjustTimer, Pool!Post,
      kernelVars, localVars, historyVars, Threads, ThreadTypeOK, LoopTypeOK, Counting
  <2> QED
    BY <1>h, <2>1, CountedKept
<1>9. ASSUME NEW e \in events, HandleNothingToWrite(e) PROVE Counted'
  <2>1. /\ UNCHANGED <<m_sockfd, m_user_count>>
        /\ \A u \in Threads : Counting(u)' <=> Counting(u)
        /\ \A u \in Threads : Counting(u) => at'[u] = at[u] /\ cnt'[u] = cnt[u]
    BY <1>h, <1>9, MainAssumption DEF HandleNothingToWrite, Takes, Rearm, clientVars,
      localVars, timerVars, queueVars, historyVars, Threads, ThreadTypeOK, LoopTypeOK,
      Counting
  <2> QED
    BY <1>h, <2>1, CountedKept
<1>10. ASSUME NEW e \in events, HandleWrite(e) PROVE Counted'
  <2>1. /\ UNCHANGED <<m_sockfd, m_user_count>>
        /\ \A u \in Threads : Counting(u)' <=> Counting(u)
        /\ \A u \in Threads : Counting(u) => at'[u] = at[u] /\ cnt'[u] = cnt[u]
    BY <1>h, <1>10, MainAssumption DEF HandleWrite, Takes, Goto, kernelVars,
      clientVars, userVars, localVars, timerVars, queueVars, historyVars, Threads, ThreadTypeOK, LoopTypeOK, Counting
  <2> QED
    BY <1>h, <2>1, CountedKept
<1>w. ASSUME WriteStep PROVE Counted'
  <2>1. /\ UNCHANGED <<m_sockfd, m_user_count>>
        /\ \A u \in Threads : Counting(u)' <=> Counting(u)
        /\ \A u \in Threads : Counting(u) => at'[u] = at[u] /\ cnt'[u] = cnt[u]
    BY <1>h, <1>w, WriteTurn, MainAssumption DEF Threads, ThreadTypeOK, LoopTypeOK, Counting
  <2> QED
    BY <1>h, <2>1, CountedKept
<1>11. ASSUME AcceptInit PROVE Counted'
  <2>1. /\ UNCHANGED m_sockfd /\ at[Main] = "accept" /\ at' = [at EXCEPT ![Main] = "loop"]
        /\ m_user_count' = cnt[Main] + 1
    BY <1>11 DEF AcceptInit, Goto
  <2>2. /\ \A u \in Threads : Counting(u)' <=> Counting(u) /\ u # Main
        /\ Main \in Threads /\ Counting(Main)
    BY <1>h, <2>1 DEF Counting, ThreadTypeOK, Threads
  <2> QED
    BY <1>h, <2>1, <2>2, CountedStore
<1>12. ASSUME EndOfBatch \/ TickEnds PROVE Counted'
  <2>1. /\ UNCHANGED <<m_sockfd, m_user_count>>
        /\ \A u \in Threads : Counting(u)' <=> Counting(u)
        /\ \A u \in Threads : Counting(u) => at'[u] = at[u] /\ cnt'[u] = cnt[u]
    BY <1>h, <1>12, MainAssumption DEF EndOfBatch, Goto, LoopOrStop, kernelVars, clientVars,
      userVars, localVars, timerVars, queueVars, historyVars, loopVars, TickEnds, Threads,
      ThreadTypeOK, LoopTypeOK, Counting
  <2> QED
    BY <1>h, <2>1, CountedKept
<1>13. ASSUME TickExpires PROVE Counted'
  <2>1. /\ UNCHANGED <<m_sockfd, m_user_count>>
        /\ \A u \in Threads : Counting(u)' <=> Counting(u)
        /\ \A u \in Threads : Counting(u) => at'[u] = at[u] /\ cnt'[u] = cnt[u]
    BY <1>h, <1>13, MainAssumption DEF TickExpires, CloseThen, Goto, kernelVars, clientVars,
      userVars, localVars, timerVars, queueVars, Threads, ThreadTypeOK, LoopTypeOK, Counting
  <2> QED
    BY <1>h, <2>1, CountedKept
<1>14. ASSUME TickPops PROVE Counted'
  <2>1. /\ UNCHANGED <<m_sockfd, m_user_count>>
        /\ \A u \in Threads : Counting(u)' <=> Counting(u)
        /\ \A u \in Threads : Counting(u) => at'[u] = at[u] /\ cnt'[u] = cnt[u]
    BY <1>h, <1>14, MainAssumption DEF TickPops, Goto, kernelVars, clientVars, userVars,
      localVars, queueVars, historyVars, loopVars, Threads, ThreadTypeOK, LoopTypeOK,
      Counting
  <2> QED
    BY <1>h, <2>1, CountedKept
<1>15. ASSUME DeleteUsers \/ DeletePool \/ JoinThenDestroyEngines PROVE Counted'
  <2>1. /\ UNCHANGED <<m_sockfd, m_user_count>>
        /\ \A u \in Threads : Counting(u)' <=> Counting(u)
        /\ \A u \in Threads : Counting(u) => at'[u] = at[u] /\ cnt'[u] = cnt[u]
    BY <1>h, <1>15, MainAssumption DEF DeleteUsers, Goto, kernelVars, clientVars, userVars,
      localVars, timerVars, queueVars, historyVars, loopVars, DeletePool, Pool!Cancel,
      JoinThenDestroyEngines, Threads, ThreadTypeOK, LoopTypeOK, Counting
  <2> QED
    BY <1>h, <2>1, CountedKept
<1>16. ASSUME NEW t \in Threads, CloseCheck(t) PROVE Counted'
  <2>1. /\ UNCHANGED <<m_sockfd, m_user_count>>
        /\ \A u \in Threads : Counting(u)' <=> Counting(u)
        /\ \A u \in Threads : Counting(u) => at'[u] = at[u] /\ cnt'[u] = cnt[u]
    BY <1>h, <1>16, MainAssumption DEF CloseCheck, Goto, Return, Working, Pool!Finish,
      kernelVars, clientVars, userVars, localVars, timerVars, queueVars, historyVars,
      loopVars, Threads, ThreadTypeOK, LoopTypeOK, Counting
  <2> QED
    BY <1>h, <2>1, CountedKept
<1>17. ASSUME NEW t \in Threads, CloseShut(t) PROVE Counted'
  <2>1. /\ UNCHANGED <<m_sockfd, m_user_count>>
        /\ \A u \in Threads : Counting(u)' <=> Counting(u)
        /\ \A u \in Threads : Counting(u) => at'[u] = at[u] /\ cnt'[u] = cnt[u]
    BY <1>h, <1>17, MainAssumption DEF CloseShut, Goto, Working, kernelVars, userVars,
      localVars, timerVars, queueVars, historyVars, loopVars, Threads, ThreadTypeOK,
      LoopTypeOK, Counting
  <2> QED
    BY <1>h, <2>1, CountedKept
<1>18. ASSUME NEW t \in Threads, CloseClear(t) PROVE Counted'
  <2> DEFINE fd == Working(t)
  <2>1. /\ ~CountBusy /\ cnt'[t] = m_user_count /\ at[t] = "clear"
        /\ m_sockfd' = [m_sockfd EXCEPT ![fd] = NoFD] /\ at' = [at EXCEPT ![t] = "count"]
    BY <1>h, <1>18 DEF CloseClear, Goto, ThreadTypeOK
  <2>2. fd \in FDs /\ m_sockfd[fd] # NoFD
    BY <1>h, <2>1 DEF Working, ThreadsOK, PoolTypeOK, Threads, Closing, ClosedOnce
  <2>3. Users' = Users \ {fd} /\ fd \in Users
    BY <1>h, <2>1, <2>2 DEF Users, UserTypeOK
  <2>4. IsFiniteSet(Users)
    BY FDsAssumption, FS_Subset DEF Users
  <2>5. Cardinality(Users') = Cardinality(Users) - 1
    BY <2>3, <2>4, FS_RemoveElement
  <2>6. /\ \A u \in Threads : Counting(u)' <=> Counting(u) \/ u = t
        /\ at'[t] # "accept"
    BY <1>h, <2>1 DEF Counting, ThreadTypeOK
  <2> QED
    BY <1>h, <2>1, <2>5, <2>6, CountedLoad
<1>19. ASSUME NEW t \in Threads, CloseCount(t) PROVE Counted'
  <2>1. /\ UNCHANGED m_sockfd /\ at[t] = "count" /\ at'[t] \in {"loop", "pop", "idle"}
        /\ m_user_count' = cnt[t] - 1 /\ \A u \in Threads : u # t => at'[u] = at[u]
    BY <1>h, <1>19 DEF CloseCount, Return, Goto, userVars, ThreadTypeOK, LoopTypeOK
  <2>2. Counting(t) /\ \A u \in Threads : Counting(u)' <=> Counting(u) /\ u # t
    BY <2>1 DEF Counting
  <2> QED
    BY <1>h, <2>1, <2>2, CountedStore
<1>20. ASSUME NEW w \in Workers, Start(w) PROVE Counted'
  <2>1. /\ UNCHANGED <<m_sockfd, m_user_count>>
        /\ \A u \in Threads : Counting(u)' <=> Counting(u)
        /\ \A u \in Threads : Counting(u) => at'[u] = at[u] /\ cnt'[u] = cnt[u]
    BY <1>h, <1>20, MainAssumption DEF Start, Goto, Pool!Dispatch, kernelVars, clientVars,
      userVars, localVars, timerVars, historyVars, loopVars, Threads, ThreadTypeOK,
      LoopTypeOK, Counting
  <2> QED
    BY <1>h, <2>1, CountedKept
<1>21. ASSUME NEW w \in Workers, Parse(w) \/ Command(w) PROVE Counted'
  <2>1. /\ UNCHANGED <<m_sockfd, m_user_count>>
        /\ \A u \in Threads : Counting(u)' <=> Counting(u)
        /\ \A u \in Threads : Counting(u) => at'[u] = at[u] /\ cnt'[u] = cnt[u]
    BY <1>h, <1>21, MainAssumption DEF Parse, Goto, kernelVars, clientVars, userVars,
      timerVars, queueVars, historyVars, loopVars, Command, Threads, ThreadTypeOK,
      LoopTypeOK, Counting
  <2> QED
    BY <1>h, <2>1, CountedKept
<1>22. ASSUME NEW w \in Workers, RearmOneShot(w) PROVE Counted'
  <2>1. /\ UNCHANGED <<m_sockfd, m_user_count>>
        /\ \A u \in Threads : Counting(u)' <=> Counting(u)
        /\ \A u \in Threads : Counting(u) => at'[u] = at[u] /\ cnt'[u] = cnt[u]
    BY <1>h, <1>22, MainAssumption DEF RearmOneShot, Return, Rearm, Goto, Pool!Finish,
      clientVars, userVars, localVars, timerVars, queueVars, historyVars, loopVars, Threads,
      ThreadTypeOK, LoopTypeOK, Counting
  <2> QED
    BY <1>h, <2>1, CountedKept
<1>23. ASSUME NEW w \in Workers, Leave(w) PROVE Counted'
  <2>1. /\ UNCHANGED <<m_sockfd, m_user_count>>
        /\ \A u \in Threads : Counting(u)' <=> Counting(u)
        /\ \A u \in Threads : Counting(u) => at'[u] = at[u] /\ cnt'[u] = cnt[u]
    BY <1>h, <1>23, MainAssumption DEF Leave, Pool!Leave, kernelVars, clientVars, userVars,
      localVars, timerVars, historyVars, loopVars, Threads, ThreadTypeOK, LoopTypeOK,
      Counting
  <2> QED
    BY <1>h, <2>1, CountedKept
<1> QED
  BY <1>w, <1>1, <1>2, <1>3, <1>4, <1>5, <1>6, <1>7, <1>8, <1>9, <1>10, <1>11, <1>12, <1>13,
    <1>14, <1>15, <1>16, <1>17, <1>18, <1>19, <1>20, <1>21, <1>22, <1>23 DEF Next,
    ReactorStep, Handle, Close, Teardown, WorkerStep, Threads

(* main() before the first epoll_wait. *)
LEMMA InitEstablishes == Init => Inductive
<1> SUFFICES ASSUME Init PROVE Inductive
  OBVIOUS
<1>1. TypeOK
  <2>1. Nothing \in Data /\ NoReply \in Replies
    BY BoundsAssumption, AnswerAssumption DEF Nothing, NoReply, Data, Replies
  <2>2. << >> \in Seq(Conns) /\ << >> \in Seq(FDs) /\ Len(<< >>) = 0
    BY EmptySeq
  <2>3. KernelTypeOK /\ ClientTypeOK /\ UserTypeOK
    BY <2>1, BoundsAssumption DEF Init, KernelTypeOK, ClientTypeOK, UserTypeOK
  <2>4. TimerTypeOK /\ LoopTypeOK
    BY <2>2, BoundsAssumption DEF Init, TimerTypeOK, LoopTypeOK
  <2>5. ThreadTypeOK
    BY <2>1 DEF Init, ThreadTypeOK, Steps
  <2>6. PoolTypeOK
    BY <2>2 DEF Init, PoolTypeOK
  <2>7. HistoryTypeOK
    BY DEF Init, HistoryTypeOK
  <2> QED
    BY <2>3, <2>4, <2>5, <2>6, <2>7 DEF TypeOK
<1>2. at[Main] = "wait" /\ \A w \in Workers : at[w] = "idle" /\ running[w] = NoFD
  BY MainAssumption DEF Init, Threads
<1>3. ThreadsOK /\ PoolOK
  BY <1>2 DEF Init, ThreadsOK, PoolOK, MainSteps, WorkerSteps, Closing
<1>4. BatchOK
  BY <1>2 DEF Init, BatchOK, Popping, Closing
<1>5. Accepted = 0
  <2>1. {c \in Conns : peer[c] # "new"} = {}
    BY DEF Init
  <2> QED
    BY <2>1, FS_EmptySet DEF Accepted
<1>6. InOrder
  <2>1. \A c \in Conns : peer[c] = "new" /\ ~(c <= 0)
    BY BoundsAssumption DEF Init, Conns
  <2>2. /\ events = {} /\ DOMAIN timers = {}
        /\ \A fd \in FDs : sock[fd] = 0 /\ timer[fd] = 0
    BY EmptySeq DEF Init
  <2> QED
    BY <1>2, <1>5, <2>1, <2>2 DEF InOrder
<1>7. TimersOK
  BY <1>2 DEF Init, TimersOK, Popping, Closing
<1>8. Registered /\ Timed
  BY <1>2 DEF Init, Registered, Timed, Threads
<1>9. Held
  BY <1>2, FDsAssumption
  DEF Init, Held, Exclusive, HoldsOpen, Polled, HasEvent, Queued, Serves, Writes
<1>10. ClosesAlone /\ ClosedOnce /\ OpensArmed
  BY <1>2 DEF Init, ClosesAlone, ClosedOnce, OpensArmed, Threads
<1>11. OwnData
  BY <1>2 DEF Init, OwnData
<1>12. Counted
  <2>1. Users = {}
    BY DEF Init, Users
  <2> QED
    BY <1>2, <2>1, FS_EmptySet DEF Init, Counted, Counting, Threads
<1> QED
  BY <1>1, <1>3, <1>4, <1>6, <1>7, <1>8, <1>9, <1>10, <1>11, <1>12 DEF Inductive, Owned

(* A step that changes nothing. *)
LEMMA StutterPreserves ==
    ASSUME Inductive, UNCHANGED vars
    PROVE  Inductive'
<1>1. TypeOK'
  BY DEF Inductive, TypeOK, KernelTypeOK, ClientTypeOK, UserTypeOK, TimerTypeOK, LoopTypeOK,
         ThreadTypeOK, PoolTypeOK, HistoryTypeOK, vars
<1>2. ThreadsOK' /\ PoolOK' /\ BatchOK'
  BY DEF Inductive, ThreadsOK, PoolOK, BatchOK, Popping, Closing, vars
<1>3. InOrder'
  <2>1. Accepted' = Accepted
    BY DEF Accepted, vars
  <2> QED
    BY <2>1 DEF Inductive, InOrder, vars
<1>4. TimersOK'
  BY DEF Inductive, TimersOK, Popping, Closing, vars
<1>5. ~reused' => Registered'
  BY DEF Inductive, Registered, Working, vars
<1>6. ~reused' => Timed'
  BY DEF Inductive, Timed, MainHas, Listed, InRange, vars
<1>7. ~reused' /\ ~overtaken' => Owned'
  <2> SUFFICES ASSUME ~reused', ~overtaken' PROVE Owned'
    OBVIOUS
  <2>1. Owned
    BY DEF Inductive, vars
  <2>2. Held'
    BY <2>1 DEF Owned, Held, Exclusive, HoldsOpen, Polled, HasEvent, Queued, Serves, Writes, vars
  <2>3. ClosesAlone' /\ OpensArmed'
    BY <2>1 DEF Owned, ClosesAlone, OpensArmed, Polled, HasEvent, Queued, Serves, vars
  <2>4. ClosedOnce'
    BY <2>1 DEF Owned, ClosedOnce, Working, vars
  <2> QED
    BY <2>2, <2>3, <2>4 DEF Owned
<1>8. ~reused' /\ ~overtaken' => OwnData'
  BY DEF Inductive, OwnData, vars
<1>9. ~reused' /\ ~overtaken' /\ ~raced' => Counted'
  <2>1. Users' = Users /\ (CountBusy' <=> CountBusy)
    BY DEF Users, CountBusy, vars
  <2> QED
    BY <2>1 DEF Inductive, Counted, Counting, vars
<1> QED
  BY <1>1, <1>2, <1>3, <1>4, <1>5, <1>6, <1>7, <1>8, <1>9 DEF Inductive

(* The invariant of the server: at any moment, whatever the clients, the   *)
(* clock and the scheduler do.                                             *)
THEOREM ReactorInvariant == Spec => []Inductive
<1>1. Init => Inductive
  BY InitEstablishes
<1>2. Inductive /\ [Next]_vars => Inductive'
  <2> SUFFICES ASSUME Inductive, [Next]_vars PROVE Inductive'
    OBVIOUS
  <2>1. CASE Next
    <3>1. TypeOK'
      BY <2>1, KernelTypes, ClientTypes, UserTypes, TimerTypes, LoopTypes, ThreadTypes, PoolTypes,
         HistoryTypes DEF TypeOK
    <3>2. ThreadsOK' /\ PoolOK' /\ BatchOK' /\ InOrder' /\ TimersOK'
      BY <2>1, ThreadsKeep, PoolKeeps, BatchKeeps, OrderKeeps, TimersKeep
    <3>3. ~reused' => Registered' /\ Timed'
      BY <2>1, RegisteredKeeps, TimedKeeps
    <3>4. ~reused' /\ ~overtaken' => Owned' /\ OwnData'
      BY <2>1, HeldKeeps, AloneKeeps, OnceKeeps, OpensKeep, OwnDataKeeps DEF Owned
    <3>5. ~reused' /\ ~overtaken' /\ ~raced' => Counted'
      BY <2>1, CountedKeeps
    <3> QED
      BY <3>1, <3>2, <3>3, <3>4, <3>5 DEF Inductive
  <2>2. CASE UNCHANGED vars
    BY <2>2, StutterPreserves
  <2> QED
    BY <2>1, <2>2
<1> QED
  BY <1>1, <1>2, PTL DEF Spec

-----------------------------------------------------------------------------
(* EPOLLONESHOT (README.md:351): as long as no timeout closes a connection *)
(* in service and no descriptor comes back too early, at most one of the   *)
(* armed event, the batch, the queue, the workers and write() has it.      *)
THEOREM OneOwnerHolds == Spec => []OneOwner
<1>1. Inductive => OneOwner
  <2> SUFFICES ASSUME Inductive, ~overtaken, ~reused, NEW fd \in FDs
               PROVE  Cardinality(Holders(fd)) <= 1
    BY DEF OneOwner, OneHolder
  <2>1. Exclusive(fd) /\ BatchOK
    BY DEF Inductive, Owned, Held
  <2>2. ASSUME NEW h \in Holders(fd)
        PROVE  \/ Polled(fd) /\ h = <<"armed", armed[fd]>>
               \/ \E e \in events : e.fd = fd /\ h = <<"event", e>>
               \/ \E i \in DOMAIN pending : pending[i] = fd /\ h = <<"task", i>>
               \/ \E w \in Workers : Serves(w, fd) /\ h = <<"worker", w>>
               \/ Writes(fd) /\ h = <<"main", fd>>
    BY DEF Holders, Polled, Serves, Writes
  <2>3. ASSUME NEW g \in Holders(fd), NEW h \in Holders(fd)
        PROVE  g = h
    <3>1. CASE Polled(fd)
      BY <2>1, <2>2, <3>1 DEF Exclusive, HasEvent, Queued
    <3>2. CASE HasEvent(fd)
      BY <2>1, <2>2, <3>2 DEF Exclusive, HasEvent, Queued, BatchOK
    <3>3. CASE Queued(fd)
      BY <2>1, <2>2, <3>3 DEF Exclusive, HasEvent, Queued
    <3>4. CASE Writes(fd)
      BY <2>1, <2>2, <3>4 DEF Exclusive, HasEvent, Queued
    <3>5. CASE ~Polled(fd) /\ ~HasEvent(fd) /\ ~Queued(fd) /\ ~Writes(fd)
      BY <2>1, <2>2, <3>5 DEF Exclusive, HasEvent, Queued
    <3> QED
      BY <3>1, <3>2, <3>3, <3>4, <3>5
  <2>4. Holders(fd) = {} \/ \E h : Holders(fd) = {h}
    BY <2>3
  <2> QED
    BY <2>4, FS_EmptySet, FS_Singleton
<1> QED
  BY <1>1, ReactorInvariant, PTL

(* writev(): the bytes that leave on a connection answer a request that    *)
(* came on it.                                                             *)
THEOREM RightClientHolds == Spec => []RightClient
<1>1. Inductive => RightClient
  BY DEF Inductive, OwnData, RightClient
<1> QED
  BY <1>1, ReactorInvariant, PTL

(* init(fd, addr) and closeConnection(): an open socket has its object, so *)
(* its client can be served and closed.                                    *)
THEOREM NoLeakHolds == Spec => []NoLeak
<1>1. Inductive => NoLeak
  BY DEF Inductive, Registered, NoLeak
<1> QED
  BY <1>1, ReactorInvariant, PTL

(* main(): the timer it takes from lst_users[] for a readable connection   *)
(* has not been deleted.                                                   *)
THEOREM TimerPointerLiveHolds == Spec => []TimerPointerLive
<1>1. Inductive => TimerPointerLive
  BY DEF Inductive, Timed, TimerPointerLive
<1> QED
  BY <1>1, ReactorInvariant, PTL

(* lst_timer.h: an open connection that nobody opens or closes has a timer *)
(* of its own in the list.                                                 *)
THEOREM OwnTimerHolds == Spec => []OwnTimer
<1>1. Inductive => OwnTimer
  <2>1. ASSUME NEW fd \in FDs, MainHas(fd) PROVE BeingOpenedOrClosed(fd)
    BY <2>1 DEF MainHas, BeingOpenedOrClosed, Working, Threads
  <2> QED
    BY <2>1 DEF Inductive, Timed, OwnTimer
<1> QED
  BY <1>1, ReactorInvariant, PTL

(* m_user_count is the number of objects in use whenever nobody is between *)
(* its load and its store, if no two threads ever were at once.            *)
THEOREM CountExactHolds == Spec => []CountExact
<1>1. Inductive => CountExact
  BY DEF Inductive, Counted, Users, CountExact, UserCount
<1> QED
  BY <1>1, ReactorInvariant, PTL

(* main() destroys the engines after the pool: no command runs then. *)
THEOREM EnginesOutliveCommandsHolds == Spec => []EnginesOutliveCommands
<1>1. Inductive => EnginesOutliveCommands
  BY WorkersAssumption DEF Inductive, PoolOK, ThreadsOK, EnginesOutliveCommands
<1> QED
  BY <1>1, ReactorInvariant, PTL

=============================================================================
