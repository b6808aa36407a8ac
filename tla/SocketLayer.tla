---------------------------- MODULE SocketLayer ----------------------------
(***************************************************************************)
(* vlstp/socket_layer.c between a program and the kernel.  The repository  *)
(* has no caller yet; the program modelled here uses every function as a   *)
(* main loop on non-blocking stream sockets does: it creates one socket to *)
(* send a message on and one to read from, and then, round by round, asks  *)
(* which is ready, reads until nothing is left, and writes what the socket *)
(* takes.  The kernel and the peer are external.                           *)
(***************************************************************************)
EXTENDS Integers, Sequences, SequencesExt, FiniteSetsExt

CONSTANTS
  Fd,           \* the descriptors the kernel gives out
  MessageLen,   \* how many bytes the program sends
  AnswerLen,    \* how many bytes the peer sends at most
  SendBuffer,   \* how many bytes the kernel holds for the peer
  ReadLen       \* the size of the program's read buffer

ASSUME SocketAssumption ==
  /\ Fd \subseteq Nat
  /\ SendBuffer \in Nat \ {0}
  /\ ReadLen \in Nat \ {0}
  /\ MessageLen \in Nat
  /\ AnswerLen \in Nat

\* Each byte is its place in the stream.
Message == [k \in 1 .. MessageLen |-> k]
Answer  == [k \in 1 .. AnswerLen |-> k]

VARIABLES
  \* the kernel and the peer
  open,         \* open descriptors
  nonblocking,  \* those with O_NONBLOCK
  broken,       \* those with an error to report
  taken,        \* the bytes send has taken
  drained,      \* how many of them the peer has
  queue,        \* bytes that recv will return
  arrived,      \* how many bytes the peer has sent
  peerClosed,
  \* the program
  pc,
  tx, rx,       \* its sockets, -1 for none
  fd,           \* the local variable of fd_create_socket
  fdSet,
  output, write_bytes, writes,     \* locals of fd_write
  sent,         \* the sum of what fd_write returned
  got,          \* the bytes fd_read returned
  sendFailed,   \* fd_write returned -1
  readEnded     \* fd_read returned -1

kernelVars == <<open, nonblocking, broken>>
peerVars   == <<taken, drained, queue, arrived, peerClosed>>
writeVars  == <<output, write_bytes, writes>>
resultVars == <<sent, got, sendFailed, readEnded>>
sockets    == <<tx, rx, fd>>
vars == <<kernelVars, peerVars, pc, sockets, fdSet, writeVars, resultVars>>

Room     == SendBuffer - (Len(taken) - drained)
Unsent   == sent < MessageLen /\ ~sendFailed
Readable == IF queue # <<>> \/ peerClosed \/ rx \in broken THEN {rx} ELSE {}
Writable == IF Room > 0 \/ tx \in broken THEN {tx} ELSE {}
-----------------------------------------------------------------------------
(* Descriptor sets.  fdexcept stays empty and is left out.                 *)

fd_create == [fdread |-> {}, fdwrite |-> {}, size |-> 0, numready |-> 0]

fd_set_read(f, s) ==
  [s EXCEPT !.fdread = @ \cup {f}, !.size = IF f + 1 > @ THEN f + 1 ELSE @]

\* Mutant: the size is that of the reading set.
fd_set_write_small(f, s) == [s EXCEPT !.fdwrite = @ \cup {f}]

fd_set_write(f, s) ==
  [s EXCEPT !.fdwrite = @ \cup {f}, !.size = IF f + 1 > @ THEN f + 1 ELSE @]

fd_ready_read(f, s)  == f \in s.fdread
fd_ready_write(f, s) == f \in s.fdwrite

\* select looks at the descriptors below size and leaves the ready ones.
fd_select(s) ==
  LET r == {f \in s.fdread : f < s.size} \cap Readable
      w == {f \in s.fdwrite : f < s.size} \cap Writable
  IN  [s EXCEPT !.fdread = r, !.fdwrite = w,
                !.numready = Cardinality(r) + Cardinality(w)]

\* When select fails, the sets stay as they were asked for.
fd_select_fails(s) == [s EXCEPT !.numready = -1]

\* Mutant: the flag is the wrong way round.
fd_set_noblock_swapped(f, noblock) ==
  IF noblock = 1 THEN nonblocking \ {f} ELSE nonblocking \cup {f}

\* Only 1 asks for it; the other flags of the descriptor are kept.
fd_set_noblock(f, noblock) ==
  IF noblock = 1 THEN nonblocking \cup {f} ELSE nonblocking \ {f}

Init ==
  /\ open = {} /\ nonblocking = {} /\ broken = {}
  /\ taken = <<>> /\ drained = 0
  /\ queue = <<>> /\ arrived = 0 /\ peerClosed = FALSE
  /\ pc = "socket"
  /\ tx = -1 /\ rx = -1 /\ fd = -1
  /\ fdSet = fd_create
  /\ output = 1 /\ write_bytes = 0 /\ writes = 0
  /\ sent = 0 /\ got = <<>> /\ sendFailed = FALSE /\ readEnded = FALSE
-----------------------------------------------------------------------------
(* fd_create_socket, one call of the kernel at a time.                     *)

Socket ==
  /\ pc = "socket"
  /\ \E new \in Fd \ open :
       /\ open' = open \cup {new}
       /\ nonblocking' = nonblocking \ {new}
       /\ broken' = broken \ {new}
       /\ fd' = new
  /\ pc' = "bind_local"
  /\ UNCHANGED <<peerVars, tx, rx, fdSet, writeVars, resultVars>>

SocketFails ==
  /\ pc = "socket"
  /\ pc' = "close"
  /\ UNCHANGED <<kernelVars, peerVars, sockets, fdSet, writeVars, resultVars>>

\* That SO_REUSEADDR could not be set is not noticed.
fd_bind_local ==
  /\ pc = "bind_local"
  /\ pc' = "bind_device"
  /\ UNCHANGED <<kernelVars, peerVars, sockets, fdSet, writeVars, resultVars>>

\* Without a device name there is nothing to do.
fd_bind_device ==
  /\ pc = "bind_device"
  /\ pc' = "noblock"
  /\ UNCHANGED <<kernelVars, peerVars, sockets, fdSet, writeVars, resultVars>>

\* Mutant: the descriptor of a device that cannot be used is not closed.
BindFails_open ==
  /\ pc \in {"bind_local", "bind_device"}
  /\ open' = IF pc = "bind_local" THEN open \ {fd} ELSE open
  /\ fd' = -1
  /\ pc' = "close"
  /\ UNCHANGED <<nonblocking, broken, peerVars, tx, rx, fdSet, writeVars, resultVars>>

\* Either of them fails: fd_create_socket closes the descriptor, returns -1.
BindFails ==
  /\ pc \in {"bind_local", "bind_device"}
  /\ open' = open \ {fd}
  /\ fd' = -1
  /\ pc' = "close"
  /\ UNCHANGED <<nonblocking, broken, peerVars, tx, rx, fdSet, writeVars, resultVars>>

\* The program keeps the new socket, and goes on when it has two.
Keep ==
  /\ pc = "noblock"
  /\ nonblocking' = fd_set_noblock(fd, 1)
  /\ IF tx = -1 THEN tx' = fd /\ pc' = "socket" /\ UNCHANGED rx
     ELSE rx' = fd /\ pc' = "ask" /\ UNCHANGED tx
  /\ fd' = -1
  /\ UNCHANGED <<open, broken, peerVars, fdSet, writeVars, resultVars>>

\* fcntl fails, so fd_set_noblock returns -1.  The program has no use for a
\* blocking socket and closes it.
NoblockFails ==
  /\ pc = "noblock"
  /\ open' = open \ {fd}
  /\ fd' = -1
  /\ pc' = "close"
  /\ UNCHANGED <<nonblocking, broken, peerVars, tx, rx, fdSet, writeVars, resultVars>>

Create ==
  \/ Socket
  \/ SocketFails
  \/ fd_bind_local
  \/ fd_bind_device
  \/ BindFails
  \/ Keep
  \/ NoblockFails
-----------------------------------------------------------------------------
(* A round of the program.                                                 *)

AskRead(s)  == IF readEnded THEN s ELSE fd_set_read(rx, s)
AskWrite(s) == IF Unsent THEN fd_set_write(tx, s) ELSE s

Ask ==
  /\ pc = "ask"
  /\ IF Unsent \/ ~readEnded
     THEN /\ fdSet' \in {AskRead(AskWrite(fd_create)), AskWrite(AskRead(fd_create))}
          /\ pc' = "select"
     ELSE UNCHANGED fdSet /\ pc' = "close"
  /\ UNCHANGED <<kernelVars, peerVars, sockets, writeVars, resultVars>>

SelectReturns ==
  /\ pc = "select"
  /\ fdSet' = fd_select(fdSet)
  /\ pc' = IF fdSet'.numready > 0 THEN "read" ELSE "ask"
  /\ UNCHANGED <<kernelVars, peerVars, sockets, writeVars, resultVars>>

\* A signal.  The program asks again, or does not notice and takes what it
\* asked about to be ready.
SelectFails ==
  /\ pc = "select"
  /\ fdSet' = fd_select_fails(fdSet)
  /\ pc' \in {"ask", "read"}
  /\ UNCHANGED <<kernelVars, peerVars, sockets, writeVars, resultVars>>

\* Mutant: there is nothing to read for now, taken for an error.
fd_read_again(bytes, errno) == IF bytes <= 0 THEN -1 ELSE bytes

\* What fd_read makes of the result of recv.
fd_read(bytes, errno) ==
  IF bytes < 0 THEN IF errno = "EAGAIN" THEN 0 ELSE -1
  ELSE IF bytes = 0 THEN -1
  ELSE bytes

Read ==
  /\ pc = "read"
  /\ pc' = IF fd_ready_read(rx, fdSet) THEN "recv" ELSE "write"
  /\ UNCHANGED <<kernelVars, peerVars, sockets, fdSet, writeVars, resultVars>>

\* recv has returned bytes or errno.
Received(bytes, errno) ==
  LET n == fd_read(bytes, errno)
  IN  /\ pc' = IF n > 0 THEN "recv" ELSE "write"
      /\ got' = got \o SubSeq(queue, 1, n)
      /\ queue' = IF bytes > 0 THEN SubSeq(queue, bytes + 1, Len(queue)) ELSE queue
      /\ readEnded' = (readEnded \/ n = -1)

\* A blocking socket with nothing to read does not return.
Recv ==
  /\ pc = "recv"
  /\ \/ rx \in broken /\ Received(-1, "EIO")
     \/ \E n \in 1 .. Min({ReadLen, Len(queue)}) : Received(n, "none")
     \/ queue = <<>> /\ peerClosed /\ Received(0, "none")
     \/ /\ queue = <<>> /\ ~peerClosed /\ rx \in nonblocking
        /\ Received(-1, "EAGAIN")
  /\ UNCHANGED <<kernelVars, taken, drained, arrived, peerClosed, sockets, fdSet,
                 writeVars, sent, sendFailed>>

\* The call of fd_write with what is left of the message.
Write ==
  /\ pc = "write"
  /\ IF Unsent /\ fd_ready_write(tx, fdSet)
     THEN /\ output' = sent + 1
          /\ write_bytes' = MessageLen - sent
          /\ writes' = 0
          /\ pc' = "send"
     ELSE pc' = "ask" /\ UNCHANGED writeVars
  /\ UNCHANGED <<kernelVars, peerVars, sockets, fdSet, resultVars>>

\* Mutant: what earlier turns have sent is forgotten.
WritesOnEAGAIN_zero == 0

WritesOnEAGAIN == writes

\* A turn of the loop of fd_write: send takes some of the bytes, and the loop
\* goes on while there are more; or there is no room now; or an error.
SendTakes ==
  /\ pc = "send"
  /\ tx \notin broken
  /\ \E bytes \in 1 .. Min({write_bytes, Room}) :
       /\ taken' = taken \o SubSeq(Message, output, output + bytes - 1)
       /\ output' = output + bytes
       /\ write_bytes' = write_bytes - bytes
       /\ writes' = writes + bytes
  /\ IF write_bytes' > 0 THEN UNCHANGED <<pc, sent>>
     ELSE pc' = "ask" /\ sent' = sent + writes'
  /\ UNCHANGED <<kernelVars, drained, queue, arrived, peerClosed, sockets, fdSet,
                 got, sendFailed, readEnded>>

\* A blocking socket without room does not return.
SendAgain ==
  /\ pc = "send"
  /\ tx \notin broken
  /\ Room = 0
  /\ tx \in nonblocking
  /\ sent' = sent + WritesOnEAGAIN
  /\ pc' = "ask"
  /\ UNCHANGED <<kernelVars, peerVars, sockets, fdSet, writeVars, got, sendFailed,
                 readEnded>>

\* fd_write returns -1, whatever earlier turns have sent.
SendFails ==
  /\ pc = "send"
  /\ tx \in broken
  /\ sendFailed' = TRUE
  /\ pc' = "ask"
  /\ UNCHANGED <<kernelVars, peerVars, sockets, fdSet, writeVars, sent, got, readEnded>>

\* send takes 0 bytes, which fd_write treats as an error.  A blocking socket
\* without room does not return.
SendTakesNothing ==
  /\ pc = "send"
  /\ tx \notin broken
  /\ Room > 0 \/ tx \in nonblocking
  /\ sendFailed' = TRUE
  /\ pc' = "ask"
  /\ UNCHANGED <<kernelVars, peerVars, sockets, fdSet, writeVars, sent, got, readEnded>>

\* The program closes what it has been given.
Close ==
  /\ pc = "close"
  /\ open' = open \ {tx, rx}
  /\ pc' = "done"
  /\ UNCHANGED <<nonblocking, broken, peerVars, sockets, fdSet, writeVars, resultVars>>

Round ==
  \/ Ask
  \/ Read
  \/ Recv
  \/ Write
  \/ SendTakes
  \/ SendAgain
  \/ SendFails
  \/ SendTakesNothing
  \/ Close
-----------------------------------------------------------------------------
(* The peer, and errors.                                                   *)

Drain ==
  /\ drained < Len(taken)
  /\ drained' = drained + 1
  /\ UNCHANGED <<kernelVars, taken, queue, arrived, peerClosed, pc, sockets, fdSet,
                 writeVars, resultVars>>

PeerSends ==
  /\ rx \in open
  /\ ~peerClosed
  /\ arrived < AnswerLen
  /\ arrived' = arrived + 1
  /\ queue' = Append(queue, Answer[arrived'])
  /\ UNCHANGED <<kernelVars, taken, drained, peerClosed, pc, sockets, fdSet, writeVars,
                 resultVars>>

PeerCloses ==
  /\ rx \in open
  /\ peerClosed' = TRUE
  /\ UNCHANGED <<kernelVars, taken, drained, queue, arrived, pc, sockets, fdSet,
                 writeVars, resultVars>>

Break ==
  /\ \E f \in open \cap {tx, rx} : broken' = broken \cup {f}
  /\ UNCHANGED <<open, nonblocking, peerVars, pc, sockets, fdSet, writeVars, resultVars>>

Next ==
  \/ Create
  \/ Round
  \/ SelectReturns
  \/ SelectFails
  \/ Drain
  \/ PeerSends
  \/ PeerCloses
  \/ Break

Spec == Init /\ [][Next]_vars

\* The program goes on wherever the kernel lets it, and not every select is
\* interrupted.  Nothing is asked of the peer.
FairSpec ==
  /\ Spec
  /\ WF_vars(Create)
  /\ WF_vars(Round)
  /\ SF_vars(SelectReturns)
-----------------------------------------------------------------------------
(* Properties.                                                             *)

\* Through any number of partial sends and full buffers, the bytes sent are
\* the message from its beginning, and the program knows how many they are.
\* Once fd_write has returned -1 it cannot know: the earlier turns of that call
\* may have sent some, which is the code's way and not excluded here.
SentIsAcknowledged ==
  /\ taken = SubSeq(Message, 1, Len(taken))
  /\ sent <= Len(taken)
  /\ (pc # "send" /\ ~sendFailed) => sent = Len(taken)

\* fd_read hands over what arrived, in order and without loss, and reports
\* the end only after the last byte, or an error of the socket: never because
\* there is nothing to read just now.
ReadsUpToTheEnd ==
  /\ got \o queue = SubSeq(Answer, 1, arrived)
  /\ readEnded => rx \in broken \/ (peerClosed /\ queue = <<>>)

\* Whatever fails while a socket is made, every open descriptor is in the
\* hands of fd_create_socket or of the program, and none is left at the end.
NoDescriptorLeaks ==
  /\ open \subseteq {tx, rx, fd}
  /\ pc = "done" => open = {}

\* A peer that takes nothing cannot keep the program from reading: fd_write
\* gives up when there is no room, although its loop wants to send it all.
IncomingIsRead == queue # <<>> ~> (queue = <<>> \/ readEnded)

\* If the peer takes what is sent, the whole message is sent, or an error is
\* reported; no readiness is missed.
MessageIsSent ==
  WF_vars(Drain) => <>(sent = MessageLen \/ sendFailed \/ pc = "done")
=============================================================================
