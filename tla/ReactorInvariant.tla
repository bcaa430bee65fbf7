--------------------------- MODULE ReactorInvariant ---------------------------
(***************************************************************************)
(* The inductive invariant behind the safety properties of the reactor:    *)
(* what is true of the server at any moment, first unconditionally, then   *)
(* while accept() has not overtaken a close (~reused), and then while no   *)
(* timeout has closed a connection in service either (~overtaken).         *)
(***************************************************************************)
EXTENDS Reactor

MainSteps == {"wait", "loop", "accept", "write", "tick", "pop", "check", "shut", "clear",
              "count", "delete_users", "delete_pool", "join", "exited"}
WorkerSteps == {"idle", "process", "command", "rearm_in", "rearm_out",
                "check", "shut", "clear", "count"}

Closing == at[Main] \in {"check", "shut", "clear", "count"}
Popping == at[Main] = "pop" \/ (Closing /\ ret = "pop")

(* A worker that is not idle has a task; the reactor thread that closes,   *)
(* opens or writes to a connection knows which.                            *)
ThreadsOK ==
    /\ at[Main] \in MainSteps
    /\ \A w \in Workers : at[w] \in WorkerSteps /\ (at[w] = "idle" <=> running[w] = NoFD)
    /\ at[Main] \in {"accept", "write", "pop"} \/ Closing => obj \in FDs

(* The pool is cancelled last, and nobody leaves it before that. *)
PoolOK ==
    /\ cancelled => at[Main] \in {"join", "exited"}
    /\ gone # {} => cancelled /\ pending = << >>
    /\ \A w \in gone : running[w] = NoFD
    /\ at[Main] = "exited" => gone = Workers

(* Only open sockets are registered; a batch has one event of a descriptor, *)
(* and is done before the timers run.                                       *)
BatchOK ==
    /\ \A fd \in FDs : sock[fd] = 0 => armed[fd] = "no"
    /\ \A e1, e2 \in events : e1.fd = e2.fd /\ e1.fd \in FDs => e1 = e2
    /\ at[Main] = "tick" \/ Popping => events = {}

(* Connections are numbered in the order of accept(). *)
InOrder ==
    /\ \A c \in Conns : peer[c] # "new" <=> c <= Accepted
    /\ [fd |-> 0, kind |-> "listen"] \in events => Accepted < MaxConns
    /\ \A fd \in FDs : sock[fd] <= Accepted /\ timer[fd] <= Accepted
    /\ \A i \in DOMAIN timers : timers[i] <= Accepted
    /\ at[Main] = "accept" =>
          /\ Accepted > 0 /\ sock[obj] \in {0, Accepted}
          /\ \A fd \in FDs : timer[fd] # Accepted /\ (fd # obj => sock[fd] # Accepted)
          /\ \A i \in DOMAIN timers : timers[i] # Accepted

(* A timer knows the descriptor of its connection. *)
TimersOK ==
    /\ \A fd \in FDs : timer[fd] # 0 => where[timer[fd]] = fd
    /\ \A i \in DOMAIN timers : where[timers[i]] \in FDs
    /\ \A fd \in FDs : sock[fd] # 0 => where[sock[fd]] = fd \/ (at[Main] = "accept" /\ obj = fd)
    /\ Popping => due > 0 /\ where[Head(timers)] = obj

-----------------------------------------------------------------------------
(* While no descriptor comes back before its close is complete: an open    *)
(* socket has an object that knows it and a timer of its own.              *)
MainHas(fd) == obj = fd /\ at[Main] \in {"accept", "check", "shut", "clear", "pop"}

Registered ==
    /\ \A fd \in FDs : sock[fd] # 0 => m_sockfd[fd] = fd
    /\ \A t \in Threads : at[t] = "clear" => sock[Working(t)] = 0
    /\ at[Main] \in {"count", "pop"} => sock[obj] = 0

Timed ==
    /\ \A fd \in FDs : sock[fd] # 0 /\ ~MainHas(fd) => timer[fd] = sock[fd] /\ Listed(sock[fd])
    /\ \A e \in events : e.kind = "in" => Listed(timer[e.fd])

-----------------------------------------------------------------------------
(* While no timeout closes a connection in service either.                 *)
Polled(fd) == armed[fd] \in {"in", "out"}
HasEvent(fd) == \E e \in events : e.fd = fd
Queued(fd) == \E i \in DOMAIN pending : pending[i] = fd
Serves(w, fd) == running[w] = fd /\ at[w] # "count"
Writes(fd) == at[Main] = "write" /\ obj = fd

(* One holder at a time. *)
Exclusive(fd) ==
    /\ Polled(fd) => ~HasEvent(fd)
    /\ Polled(fd) \/ HasEvent(fd) => ~Queued(fd)
    /\ Writes(fd) => ~Polled(fd) /\ ~HasEvent(fd) /\ ~Queued(fd) /\ \A w \in Workers : ~Serves(w, fd)
    /\ Polled(fd) \/ HasEvent(fd) \/ Queued(fd) => \A w \in Workers : ~Serves(w, fd)
    /\ \A i, j \in DOMAIN pending : pending[i] = fd /\ pending[j] = fd => i = j
    /\ \A u, w \in Workers : Serves(u, fd) /\ Serves(w, fd) => u = w

(* A holder holds an open socket, until it has closed it itself. *)
HoldsOpen(fd) ==
    /\ HasEvent(fd) \/ Queued(fd) \/ Writes(fd) => sock[fd] # 0
    /\ \A w \in Workers : Serves(w, fd) /\ at[w] # "clear" => sock[fd] # 0

Held == \A fd \in FDs : Exclusive(fd) /\ HoldsOpen(fd)

(* The reactor thread closes what nobody else works on. *)
ClosesAlone ==
    at[Main] \in {"check", "shut", "clear"} /\ m_sockfd[obj] # NoFD =>
        ~HasEvent(obj) /\ ~Queued(obj) /\ \A w \in Workers : ~Serves(w, obj)

(* Between close() and m_sockfd = -1 there is the thread that does both. *)
ClosedOnce ==
    /\ at[Main] = "shut" => m_sockfd[obj] # NoFD
    /\ \A t \in Threads : at[t] = "clear" => m_sockfd[Working(t)] # NoFD
    /\ \A fd \in FDs : m_sockfd[fd] # NoFD /\ sock[fd] = 0 =>
          \E t \in Threads : at[t] = "clear" /\ Working(t) = fd

(* What main() is opening is armed, and so in nobody's hands. *)
OpensArmed == at[Main] = "accept" => Polled(obj)

Owned == Held /\ ClosesAlone /\ ClosedOnce /\ OpensArmed

(* What is in the buffers of an open connection is its own, once init()    *)
(* has cleared them.                                                       *)
OwnData ==
    /\ ~wrong
    /\ \A fd \in FDs : sock[fd] # 0 /\ ~(at[Main] = "accept" /\ obj = fd) =>
          /\ buf[fd].data # "none" => buf[fd].conn = sock[fd]
          /\ reply[fd].left # 0 => reply[fd].conn = sock[fd]
    /\ at[Main] = "write" => reply[obj].left # 0
    /\ \A w \in Workers : at[w] = "command" => req[w].conn = sock[running[w]]

(* One thread at a time updates m_user_count, and has loaded its value. *)
Users == {fd \in FDs : m_sockfd[fd] # NoFD}
Counting(t) == at[t] \in {"accept", "count"}

Counted ==
    /\ \A t, u \in Threads : Counting(t) /\ Counting(u) => t = u
    /\ ~CountBusy => m_user_count = Cardinality(Users)
    /\ \A t \in Threads : Counting(t) =>
          Cardinality(Users) = IF at[t] = "accept" THEN cnt[t] + 1 ELSE cnt[t] - 1

Inductive ==
    /\ TypeOK /\ ThreadsOK /\ PoolOK /\ BatchOK /\ InOrder /\ TimersOK
    /\ ~reused => Registered /\ Timed
    /\ ~reused /\ ~overtaken => Owned /\ OwnData
    /\ ~reused /\ ~overtaken /\ ~raced => Counted

=============================================================================
