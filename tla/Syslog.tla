------------------------------- MODULE Syslog -------------------------------
(***************************************************************************)
(* The client of /dev/log and its bounded queue: a write to a busy syslogd *)
(* never blocks the daemon, what does not fit is counted, and the count is *)
(* reported once the queue moves again.  Threads share the queue under one *)
(* lock and release it while they back off.                                *)
(*                                                                         *)
(* A message is a number in order of submission, or "report" for those the *)
(* client makes itself (an overflow, a failure).  The socket is NoFd or    *)
(* [type, peer]: peer is the syslogd incarnation it is connected to, 0     *)
(* before the first connect.                                               *)
(***************************************************************************)
EXTENDS Integers, Sequences, FiniteSets, SequencesExt

CONSTANTS Threads, MaxLogs, MaxMessages, MaxChanges, NoFd

VARIABLES queue,        \* entries [msg, sent, pid]; sent: part of it is written
          log_fd, connection_type, connection_good, entries_lost,
          syslogd,      \* [state, type, gen, changes]: gen counts its restarts
          logger,       \* thread -> [pc, pending]
          pid, submitted,
          owed,         \* messages taken and not yet written, as they should come out
          uncounted     \* messages refused and in no report yet

syslogVars == <<queue, log_fd, connection_type, connection_good, entries_lost, syslogd, logger, pid,
                submitted, owed, uncounted>>

capacity == IF MaxLogs > 1 THEN MaxLogs ELSE 1
nonblocking == MaxLogs # 0

----------------------------------------------------------------------------
(* The kernel's side.                                                      *)

Socket(type, peer) == [type |-> type, peer |-> peer]

\* What a send on the socket may return.
SendResults(fd) ==
    CASE fd.peer = 0 -> {"EDESTADDRREQ"}
      [] fd.peer # 0 /\ (fd.peer # syslogd.gen \/ syslogd.state \in {"gone", "denied"}) ->
            IF fd.type = "Stream" THEN {"EPIPE"} ELSE {"ECONNREFUSED"}
      [] fd.peer = syslogd.gen /\ syslogd.state = "busy" -> {"EAGAIN", "ENOBUFS"}
      [] OTHER -> IF fd.type = "Stream" THEN {"all", "part"} ELSE {"all"}

ConnectResult(type) ==
    CASE syslogd.state = "gone" -> "ENOENT"
      [] syslogd.state = "denied" -> "EACCES"
      [] syslogd.state \notin {"gone", "denied"} /\ syslogd.type # type -> "EPROTOTYPE"
      [] OTHER -> "ok"

\* reopen: a datagram socket stays unconnected; a stream connects at once.
reopen(type) ==
    IF type = "Dgram" THEN Socket("Dgram", 0)
    ELSE IF ConnectResult("Stream") = "ok" THEN Socket("Stream", syslogd.gen) ELSE NoFd

----------------------------------------------------------------------------
(* write_queue, on a state w of the client.                                *)

Stop(w) == {[w EXCEPT !.done = TRUE]}
GiveUp(w) == {[w EXCEPT !.done = TRUE, !.fd = NoFd, !.failed = TRUE]}
RetryOn(w, fd) == IF fd = NoFd THEN GiveUp(w) ELSE {[w EXCEPT !.fd = fd]}
Wait(w) == {[w EXCEPT !.done = TRUE, !.good = FALSE]}

\* try_reconnect: connect the datagram socket; on EPROTOTYPE change kind.
try_reconnect(w) ==
    IF w.fd.type = "Stream" THEN RetryOn(w, reopen("Stream"))
    ELSE CASE ConnectResult("Dgram") = "ok" -> RetryOn(w, Socket("Dgram", syslogd.gen))
           [] ConnectResult("Dgram") = "EPROTOTYPE" -> RetryOn([w EXCEPT !.type = "Stream"], reopen("Stream"))
           [] ConnectResult("Dgram") = "ENOENT" -> Wait(w)
           [] OTHER -> GiveUp(w)

handle_write_error(w, e) ==
    CASE e = "EAGAIN" -> Stop(w)
      [] e = "ENOBUFS" -> Wait(w)
      [] e = "EPIPE" -> RetryOn(w, reopen(w.type))
      [] OTHER -> try_reconnect(w)

\* Fault: a report per drain; a later message resets the count it made.
WrittenLast(w, r) ==
    IF r = "part" /\ ~Head(w.q).sent THEN {[w EXCEPT !.q[1].sent = TRUE]}
    ELSE {[w EXCEPT !.q = Tail(@), !.out = Append(@, Head(w.q).msg), !.cleared = w.lost, !.lost = 0]}

Written(w, r) ==
    IF r = "part" /\ ~Head(w.q).sent THEN {[w EXCEPT !.q[1].sent = TRUE]}
    ELSE {[w EXCEPT !.q = Tail(@), !.out = Append(@, Head(w.q).msg),
                    !.cleared = IF w.lost # 0 THEN w.lost ELSE @, !.lost = 0]}

WriteStep(w) ==
    IF w.q = <<>> THEN Stop(w)
    ELSE IF Head(w.q).pid # pid THEN {[w EXCEPT !.q = Tail(@)]}
    ELSE IF w.fd = NoFd THEN Stop(w)
    ELSE LET v == [w EXCEPT !.good = TRUE]
         IN  UNION {IF r \in {"all", "part"} THEN Written(v, r) ELSE handle_write_error(v, r) :
                       r \in SendResults(w.fd)}

RECURSIVE write_queue(_)
write_queue(ws) ==
    IF \A w \in ws : w.done THEN ws ELSE write_queue(UNION {IF w.done THEN {w} ELSE WriteStep(w) : w \in ws})

Client(q, lst) ==
    [q |-> q, fd |-> log_fd, type |-> connection_type, good |-> connection_good, lost |-> lst,
     out |-> <<>>, cleared |-> 0, failed |-> FALSE, done |-> FALSE]

\* collect_outcome: the reports the caller makes once it has left the lock.
collect_outcome(w) ==
    (IF w.cleared # 0 THEN <<"report">> ELSE <<>>) \o (IF w.failed THEN <<"report">> ELSE <<>>)

\* `taken` are the messages that should come out next; what is written but
\* not the next of them is kept as a debt that no queue can match.
Drained(w, taken, refused) ==
    /\ queue' = w.q /\ log_fd' = w.fd /\ connection_type' = w.type /\ connection_good' = w.good
    /\ entries_lost' = w.lost
    /\ owed' = IF IsPrefix(w.out, taken) THEN SubSeq(taken, Len(w.out) + 1, Len(taken)) ELSE <<"astray">>
    /\ uncounted' = refused - w.cleared

----------------------------------------------------------------------------
(* Threads.                                                                *)

BackOff(q) ==
    LET depth == Len(q)
        d == IF depth = capacity THEN 0 ELSE IF capacity > 8 THEN depth - (capacity - 8) ELSE depth
    IN  nonblocking /\ d > 0

Goto(t, pc, pending) == logger' = [logger EXCEPT ![t] = [pc |-> pc, pending |-> pending]]

\* The next message of a thread: a report it owes, or a new one.
Owes(t) == logger[t].pending # <<>>
NextMessage(t) == IF Owes(t) THEN Head(logger[t].pending) ELSE submitted + 1
Rest(t) == IF Owes(t) THEN Tail(logger[t].pending) ELSE <<>>

\* deliver_to_syslog: queue it, or count it, and write what can be written.
deliver_to_syslog(t) ==
    /\ logger[t].pc = "ready"
    /\ Owes(t) \/ submitted < MaxMessages
    /\ submitted' = IF Owes(t) THEN submitted ELSE submitted + 1
    /\ \/ /\ log_fd = NoFd
          /\ Goto(t, "ready", Rest(t))    \* blocking_syslog_fallback
          /\ UNCHANGED <<queue, log_fd, connection_type, connection_good, entries_lost, owed, uncounted>>
       \/ /\ log_fd # NoFd
          /\ nonblocking \/ syslogd.state # "busy"
          /\ LET fits == Len(queue) < capacity
                 q == IF fits THEN Append(queue, [msg |-> NextMessage(t), sent |-> FALSE, pid |-> pid]) ELSE queue
                 refused == IF fits THEN 0 ELSE 1
             IN  \E w \in write_queue({Client(q, entries_lost + refused)}) :
                    /\ Drained(w, IF fits THEN Append(owed, NextMessage(t)) ELSE owed, uncounted + refused)
                    /\ Goto(t, IF BackOff(w.q) THEN "backoff" ELSE "ready", Rest(t) \o collect_outcome(w))
    /\ UNCHANGED <<syslogd, pid>>

\* The second attempt after the back-off.
RetryWrite(t) ==
    /\ logger[t].pc = "backoff"
    /\ \E w \in write_queue({Client(queue, entries_lost)}) :
          /\ Drained(w, owed, uncounted)
          /\ Goto(t, "ready", logger[t].pending \o collect_outcome(w))
    /\ UNCHANGED <<syslogd, pid, submitted>>

\* check_log_writer, from the forward loop's one-second tick, and flush_log
\* at exit, which also closes the socket when done or hopeless.
check_log_writer(t) ==
    /\ logger[t].pc = "ready" /\ ~Owes(t) /\ log_fd # NoFd /\ (nonblocking \/ syslogd.state # "busy")
    /\ \E w \in write_queue({Client(queue, entries_lost)}) :
          /\ Drained(w, owed, uncounted)
          /\ Goto(t, "ready", logger[t].pending \o collect_outcome(w))
    /\ UNCHANGED <<syslogd, pid, submitted>>

flush_log(t) ==
    /\ logger[t].pc = "ready" /\ ~Owes(t) /\ log_fd # NoFd /\ (nonblocking \/ syslogd.state # "busy")
    /\ \E w \in write_queue({Client(queue, entries_lost)}) :
          /\ w.q = <<>> \/ ~w.good
          /\ Drained([w EXCEPT !.fd = NoFd], owed, uncounted)
          /\ Goto(t, "ready", logger[t].pending \o collect_outcome(w))
    /\ UNCHANGED <<syslogd, pid, submitted>>

\* log_reopen on SIGHUP.
log_reopen == /\ entries_lost < capacity
              /\ log_fd' = reopen(connection_type)
              /\ UNCHANGED <<queue, connection_type, connection_good, entries_lost, syslogd, logger, pid,
                             submitted, owed, uncounted>>

\* A fork: the model follows the child, which inherits the parent's queue.
Fork == /\ pid = 0 /\ \A t \in Threads : logger[t].pc = "ready"
        /\ pid' = 1
        /\ owed' = <<>>
        /\ UNCHANGED <<queue, log_fd, connection_type, connection_good, entries_lost, syslogd, logger,
                       submitted, uncounted>>

SyslogdChanges ==
    /\ syslogd.changes < MaxChanges
    /\ \E s \in {"up", "busy", "gone", "denied"}, ty \in {"Dgram", "Stream"}, g \in {0, 1} :
          /\ s # syslogd.state \/ g = 1
          /\ g = 0 => ty = syslogd.type
          /\ g = 1 => s = "up"
          /\ syslogd' = [state |-> s, type |-> ty, gen |-> syslogd.gen + g, changes |-> syslogd.changes + 1]
    /\ UNCHANGED <<queue, log_fd, connection_type, connection_good, entries_lost, logger, pid, submitted,
                   owed, uncounted>>

SyslogInit ==
    /\ queue = <<>> /\ connection_type = "Dgram" /\ log_fd = Socket("Dgram", 0)
    /\ connection_good = TRUE /\ entries_lost = 0
    /\ syslogd = [state |-> "up", type |-> "Dgram", gen |-> 1, changes |-> 0]
    /\ logger = [t \in Threads |-> [pc |-> "ready", pending |-> <<>>]]
    /\ pid = 0 /\ submitted = 0
    /\ owed = <<>> /\ uncounted = 0

SyslogNext ==
    \/ \E t \in Threads : deliver_to_syslog(t) \/ RetryWrite(t) \/ check_log_writer(t) \/ flush_log(t)
    \/ log_reopen
    \/ Fork
    \/ SyslogdChanges

----------------------------------------------------------------------------

\* Every message taken into the queue is written to its end, once and in
\* order, or still waits there, and every one that was refused is in the count
\* of a report or in the one to come, however writes break off and syslogd
\* restarts, refuses or changes its kind of socket (write_queue, enqueue).
LogAccounted ==
    LET mine == SelectSeq(queue, LAMBDA e : e.pid = pid)
    IN  /\ owed = [k \in DOMAIN mine |-> mine[k].msg]
        /\ uncounted = entries_lost

=============================================================================
