------------------------- MODULE SocketLayerProofs -------------------------
(***************************************************************************)
(* For any descriptors, message, answer and buffer sizes: no descriptor is *)
(* lost while sockets are made, the bytes sent are the message from its    *)
(* beginning and are all accounted for, and what is read is what arrived.  *)
(***************************************************************************)
EXTENDS SocketLayer, SequenceTheorems, TLAPS

Making   == {"bind_local", "bind_device", "noblock"}
Creating == {"socket"} \cup Making
Rounds   == {"ask", "select", "read", "recv", "write", "send"}

TypeOK ==
  /\ open \subseteq Fd
  /\ taken \in Seq(Nat) /\ queue \in Seq(Nat) /\ got \in Seq(Nat)
  /\ drained \in Nat /\ arrived \in Nat
  /\ peerClosed \in BOOLEAN
  /\ pc \in Creating \cup Rounds \cup {"close", "done"}
  /\ {tx, rx, fd} \subseteq Fd \cup {-1}
  /\ output \in Nat /\ write_bytes \in Nat /\ writes \in Nat /\ sent \in Nat
  /\ sendFailed \in BOOLEAN /\ readEnded \in BOOLEAN

\* fd_create_socket has a descriptor exactly between socket and its return,
\* and it is none of the program's, which has no rx before the last return.
DescriptorsAreHeld ==
  /\ open \subseteq {tx, rx, fd}
  /\ fd # -1 <=> pc \in Making
  /\ pc \in Creating => rx = -1
  /\ pc = "done" => open = {}

\* What was sent is a beginning of the message.  In fd_write, output points
\* behind it, write_bytes is the rest and writes what the program has not
\* been told of; outside there is no such part, unless an error hid it.
SentIsPrefix ==
  /\ Len(taken) <= MessageLen
  /\ \A k \in 1 .. Len(taken) : taken[k] = k
  /\ sent <= Len(taken)
  /\ pc = "send" =>
       /\ ~sendFailed
       /\ output = Len(taken) + 1
       /\ sent + writes = Len(taken)
       /\ write_bytes = MessageLen - Len(taken)
  /\ pc # "send" /\ ~sendFailed => sent = Len(taken)

\* What was read, followed by what waits, is a beginning of the answer.
ReadIsPrefix ==
  /\ arrived <= AnswerLen
  /\ Len(got) + Len(queue) = arrived
  /\ \A k \in 1 .. Len(got) : got[k] = k
  /\ \A k \in 1 .. Len(queue) : queue[k] = Len(got) + k

\* The end is reported only after an error or the last byte, and not before
\* the socket is made: a new descriptor has no error yet.
EndIsReal ==
  /\ readEnded => rx \in broken \/ (peerClosed /\ queue = <<>>)
  /\ pc \in Creating => ~readEnded

\* The inductive invariant.
IInv == TypeOK /\ DescriptorsAreHeld /\ SentIsPrefix /\ ReadIsPrefix /\ EndIsReal
-----------------------------------------------------------------------------
\* The smaller of two numbers.
LEMMA MinOfTwo ==
  ASSUME NEW a \in Int, NEW b \in Int
  PROVE  Min({a, b}) \in Int /\ Min({a, b}) <= a /\ Min({a, b}) <= b
<1>1. \E x \in {a, b} : \A y \in {a, b} : x <= y
  BY a <= b \/ b <= a
<1>2. Min({a, b}) \in {a, b} /\ \A y \in {a, b} : Min({a, b}) <= y
  BY <1>1 DEF Min
<1>. QED
  BY <1>2

\* Descriptors are numbers, so -1 is none.
LEMMA NoDescriptor == -1 \notin Fd
BY SocketAssumption

\* A piece of the message appended to the part before it: still a beginning.
LEMMA PrefixGrows ==
  ASSUME NEW s \in Seq(Nat), NEW n \in Nat, NEW m \in Nat \ {0},
         Len(s) + m <= n, \A k \in 1 .. Len(s) : s[k] = k
  PROVE  LET t == s \o SubSeq([k \in 1 .. n |-> k], Len(s) + 1, Len(s) + m)
         IN  /\ t \in Seq(Nat)
             /\ Len(t) = Len(s) + m
             /\ \A k \in 1 .. Len(t) : t[k] = k
<1>. DEFINE w == [k \in 1 .. n |-> k]
            u == SubSeq(w, Len(s) + 1, Len(s) + m)
<1>1. Len(s) \in Nat
  BY LenProperties
<1>2. \A k \in Len(s) + 1 .. Len(s) + m : w[k] = k /\ w[k] \in Nat
  BY <1>1
<1>. HIDE DEF w
<1>3. /\ u \in Seq(Nat)
      /\ Len(u) = m
      /\ \A k \in 1 .. m : u[k] = w[Len(s) + k]
  <2>1. (Len(s) + m) - (Len(s) + 1) + 1 = m /\ Len(s) + 1 <= Len(s) + m
    BY <1>1
  <2>2. \A k \in 1 .. m : (Len(s) + 1) + k - 1 = Len(s) + k
    BY <1>1
  <2>. QED
    BY <1>1, <1>2, <2>1, <2>2, SubSeqProperties
<1>. HIDE DEF u
<1>4. \A k \in 1 .. m : u[k] = Len(s) + k
  <2>. SUFFICES ASSUME NEW k \in 1 .. m
                PROVE  u[k] = Len(s) + k
    OBVIOUS
  <2>1. Len(s) + k \in Len(s) + 1 .. Len(s) + m
    BY <1>1
  <2>. QED
    BY <1>2, <1>3, <2>1
<1>5. /\ s \o u \in Seq(Nat)
      /\ Len(s \o u) = Len(s) + m
      /\ \A k \in 1 .. Len(s) + m :
           (s \o u)[k] = IF k <= Len(s) THEN s[k] ELSE u[k - Len(s)]
  BY <1>3, ConcatProperties
<1>6. \A k \in 1 .. Len(s) + m : (s \o u)[k] = k
  BY <1>1, <1>4, <1>5
<1>. QED
  BY <1>5, <1>6 DEF u, w

-----------------------------------------------------------------------------
LEMMA InitIsSafe == Init => IInv
<1>. SUFFICES ASSUME Init
              PROVE  IInv
  OBVIOUS
<1>. USE DEF Init
<1>1. TypeOK
  BY EmptySeq DEF TypeOK, Creating
<1>2. Len(<<>>) = 0
  OBVIOUS
<1>3. SentIsPrefix /\ ReadIsPrefix
  BY <1>2, SocketAssumption DEF SentIsPrefix, ReadIsPrefix
<1>. QED
  BY <1>1, <1>3 DEF IInv, DescriptorsAreHeld, EndIsReal, Creating, Making

\* fd_create_socket moves no data, and pc stays away from fd_write and done.
LEMMA CreateKeepsData ==
  ASSUME IInv, Create
  PROVE  SentIsPrefix' /\ ReadIsPrefix'
<1>1. UNCHANGED <<peerVars, writeVars, resultVars>> /\ pc # "send" /\ pc' # "send"
  BY DEF Create, Socket, SocketFails, fd_bind_local, fd_bind_device, BindFails, Keep,
         NoblockFails
<1>. QED
  BY <1>1 DEF IInv, SentIsPrefix, ReadIsPrefix, peerVars, writeVars, resultVars

LEMMA SocketStep ==
  ASSUME IInv, Socket
  PROVE  IInv'
<1>. USE DEF IInv, Socket
<1>1. PICK new \in Fd \ open :
        /\ open' = open \cup {new}
        /\ broken' = broken \ {new}
        /\ fd' = new
  OBVIOUS
<1>. USE DEF peerVars, writeVars, resultVars, Creating, Making, Rounds
<1>2. TypeOK'
  BY <1>1 DEF TypeOK
<1>3. DescriptorsAreHeld'
  BY <1>1, NoDescriptor DEF TypeOK, DescriptorsAreHeld
<1>4. EndIsReal'
  BY DEF EndIsReal
<1>. QED
  BY <1>2, <1>3, <1>4, CreateKeepsData DEF Create

LEMMA CreateStep ==
  ASSUME IInv, Create
  PROVE  IInv'
<1>. USE DEF IInv, peerVars, writeVars, resultVars, kernelVars, sockets,
             Creating, Making, Rounds
<1>1. CASE Socket
  BY <1>1, SocketStep
<1>2. CASE SocketFails \/ fd_bind_local \/ fd_bind_device
  <2>1. TypeOK'
    BY <1>2 DEF SocketFails, fd_bind_local, fd_bind_device, TypeOK
  <2>2. DescriptorsAreHeld'
    BY <1>2 DEF SocketFails, fd_bind_local, fd_bind_device, DescriptorsAreHeld
  <2>3. EndIsReal'
    BY <1>2 DEF SocketFails, fd_bind_local, fd_bind_device, EndIsReal
  <2>. QED
    BY <2>1, <2>2, <2>3, CreateKeepsData
<1>3. CASE BindFails \/ NoblockFails
  <2>1. TypeOK'
    BY <1>3 DEF BindFails, NoblockFails, TypeOK
  <2>2. DescriptorsAreHeld'
    BY <1>3 DEF BindFails, NoblockFails, DescriptorsAreHeld
  <2>3. EndIsReal'
    BY <1>3 DEF BindFails, NoblockFails, EndIsReal
  <2>. QED
    BY <2>1, <2>2, <2>3, CreateKeepsData
<1>4. CASE Keep
  <2>1. TypeOK'
    BY <1>4 DEF Keep, TypeOK
  <2>2. DescriptorsAreHeld'
    BY <1>4 DEF Keep, DescriptorsAreHeld
  <2>3. EndIsReal'
    BY <1>4 DEF Keep, EndIsReal
  <2>. QED
    BY <2>1, <2>2, <2>3, CreateKeepsData
<1>. QED
  BY <1>1, <1>2, <1>3, <1>4 DEF Create

-----------------------------------------------------------------------------
\* The steps of a round that move no data: what is held, and whether fd_write
\* runs, stays as it is.
LEMMA ControlStep ==
  ASSUME IInv, Ask \/ SelectReturns \/ SelectFails \/ Read
  PROVE  IInv'
<1>1. /\ UNCHANGED <<kernelVars, peerVars, sockets, writeVars, resultVars>>
      /\ pc \in Rounds \ {"send"}
      /\ pc' \in (Rounds \ {"send"}) \cup {"close"}
  BY DEF Ask, SelectReturns, SelectFails, Read, Rounds
<1>. USE <1>1 DEF IInv, peerVars, writeVars, resultVars, kernelVars, sockets,
                  Creating, Making, Rounds
<1>2. TypeOK'
  BY DEF TypeOK
<1>3. DescriptorsAreHeld'
  BY DEF DescriptorsAreHeld
<1>4. SentIsPrefix'
  BY DEF SentIsPrefix
<1>5. ReadIsPrefix'
  BY DEF ReadIsPrefix
<1>6. EndIsReal'
  BY DEF EndIsReal
<1>. QED
  BY <1>2, <1>3, <1>4, <1>5, <1>6

\* What is left of a sequence without its first elements.
LEMMA Remainder ==
  ASSUME NEW q \in Seq(Nat), NEW n \in Nat, n <= Len(q),
         NEW r, r = SubSeq(q, n + 1, Len(q))
  PROVE  /\ r \in Seq(Nat)
         /\ Len(r) = Len(q) - n
         /\ \A k \in 1 .. Len(q) - n : r[k] = q[n + k]
<1>1. Len(q) \in Nat
  BY LenProperties
<1>. SUFFICES ASSUME NEW a \in Int, NEW b \in Int, a = n + 1, b = Len(q), r = SubSeq(q, a, b)
              PROVE  /\ r \in Seq(Nat)
                     /\ Len(r) = Len(q) - n
                     /\ \A k \in 1 .. Len(q) - n : r[k] = q[n + k]
  BY <1>1
<1>2. \A k \in a .. b : q[k] \in Nat
  BY <1>1, ElementOfSeq
<1>3. r \in Seq(Nat)
  BY <1>2, SubSeqProperties
<1>4. Len(r) = IF a <= b THEN b - a + 1 ELSE 0
  BY <1>2, SubSeqProperties
<1>5. \A k \in 1 .. b - a + 1 : r[k] = q[a + k - 1]
  <2>1. a \in Int /\ b \in Int /\ r = SubSeq(q, a, b)
    OBVIOUS
  <2>. QED
    BY ONLY <1>2, <2>1, SubSeqProperties
<1>6. Len(r) = Len(q) - n /\ b - a + 1 = Len(q) - n
  <2>1. /\ Len(q) \in Int /\ n \in Int /\ a \in Int /\ b \in Int
        /\ n <= Len(q) /\ a = n + 1 /\ b = Len(q)
    BY ONLY <1>1, n \in Nat, n <= Len(q), a \in Int, b \in Int, a = n + 1, b = Len(q)
  <2>. QED
    BY ONLY <1>4, <2>1
<1>7. \A k \in 1 .. Len(q) - n : a + k - 1 = n + k
  BY <1>1
<1>8. \A k \in 1 .. Len(q) - n : r[k] = q[n + k]
  BY <1>1, <1>5, <1>6, <1>7
<1>. QED
  BY <1>3, <1>6, <1>8

\* What fd_read hands over leaves the queue at its head.
LEMMA BytesMove ==
  ASSUME got \in Seq(Nat), queue \in Seq(Nat), ReadIsPrefix,
         NEW n \in 1 .. Len(queue),
         got' = got \o SubSeq(queue, 1, n),
         queue' = SubSeq(queue, n + 1, Len(queue)),
         arrived' = arrived
  PROVE  got' \in Seq(Nat) /\ queue' \in Seq(Nat) /\ ReadIsPrefix'
<1>1. Len(got) \in Nat /\ Len(queue) \in Nat /\ n \in Nat /\ n <= Len(queue)
  BY LenProperties
<1>2. /\ arrived <= AnswerLen /\ Len(got) + Len(queue) = arrived /\ arrived' = arrived
      /\ \A k \in 1 .. Len(got) : got[k] = k
      /\ \A k \in 1 .. Len(queue) : queue[k] = Len(got) + k
  BY DEF ReadIsPrefix
<1>3. \A k \in 1 .. Len(queue) : queue[k] \in Nat
  BY ElementOfSeq
<1>4. PICK u : u = SubSeq(queue, 1, n)
  OBVIOUS
<1>5. /\ u \in Seq(Nat)
      /\ Len(u) = n
      /\ \A k \in 1 .. n : u[k] = queue[k]
  BY <1>1, <1>3, <1>4, SubSeqProperties
<1>6. /\ queue' \in Seq(Nat)
      /\ Len(queue') = Len(queue) - n
      /\ \A k \in 1 .. Len(queue) - n : queue'[k] = queue[n + k]
  BY <1>1, Remainder
<1>7. /\ got' \in Seq(Nat)
      /\ Len(got') = Len(got) + n
      /\ \A k \in 1 .. Len(got) + n : got'[k] = IF k <= Len(got) THEN got[k] ELSE u[k - Len(got)]
  BY <1>4, <1>5, ConcatProperties
<1>8. \A k \in 1 .. Len(got') : got'[k] = k
  <2>. SUFFICES ASSUME NEW k \in 1 .. Len(got) + n
                PROVE  got'[k] = k
    BY <1>7
  <2>1. CASE k <= Len(got)
    <3>1. k \in 1 .. Len(got)
      BY <1>1, <2>1
    <3>. QED
      BY <1>7, <1>2, <2>1, <3>1
  <2>2. CASE k > Len(got)
    <3>1. k - Len(got) \in 1 .. n /\ k - Len(got) \in 1 .. Len(queue)
      BY <1>1, <2>2
    <3>2. u[k - Len(got)] = Len(got) + (k - Len(got))
      BY <1>5, <1>2, <3>1
    <3>. QED
      BY <1>1, <1>7, <2>2, <3>2
  <2>. QED
    BY <1>1, <2>1, <2>2
<1>9. \A k \in 1 .. Len(queue') : queue'[k] = Len(got') + k
  <2>. SUFFICES ASSUME NEW k \in 1 .. Len(queue')
                PROVE  queue'[k] = Len(got') + k
    OBVIOUS
  <2>1. n + k \in 1 .. Len(queue) /\ k \in 1 .. Len(queue) - n
    BY <1>1, <1>6
  <2>. QED
    BY ONLY <1>1, <1>6, <1>7, <2>1, <1>2, k \in 1 .. Len(queue')
<1>10. Len(got') + Len(queue') = Len(got) + Len(queue)
  BY ONLY <1>1, <1>6, <1>7
<1>. QED
  BY ONLY <1>6, <1>7, <1>8, <1>9, <1>10, <1>2 DEF ReadIsPrefix

\* recv: bytes of the queue; an error; the end of the stream; or nothing now.
LEMMA RecvStep ==
  ASSUME IInv, Recv
  PROVE  IInv'
<1>. USE DEF IInv, Recv, kernelVars, sockets, writeVars
<1>1. /\ got \in Seq(Nat) /\ queue \in Seq(Nat)
      /\ Len(got) \in Nat /\ Len(queue) \in Nat
      /\ (queue = <<>> <=> Len(queue) = 0)
  BY LenProperties, EmptySeq DEF TypeOK
<1>2. pc' \in {"recv", "write"} /\ pc = "recv" /\ arrived' = arrived
  BY DEF Received
<1>3. \/ \E n \in 1 .. Len(queue) :
           /\ got' = got \o SubSeq(queue, 1, n)
           /\ queue' = SubSeq(queue, n + 1, Len(queue))
           /\ readEnded' = readEnded
      \/ /\ got' = got /\ queue' = queue
         /\ \/ readEnded' = readEnded
            \/ rx \in broken
            \/ queue = <<>> /\ peerClosed
         /\ readEnded' \in BOOLEAN
  <2>1. SubSeq(queue, 1, -1) = <<>> /\ SubSeq(queue, 1, 0) = <<>>
    BY SubSeqEmpty
  <2>2. got \o <<>> = got
    BY <1>1, ConcatEmptySeq
  <2>3. CASE rx \in broken /\ Received(-1, "EIO")
    BY <2>1, <2>2, <2>3 DEF Received, fd_read, TypeOK
  <2>4. CASE queue = <<>> /\ peerClosed /\ Received(0, "none")
    BY <2>1, <2>2, <2>4 DEF Received, fd_read, TypeOK
  <2>5. CASE queue = <<>> /\ Received(-1, "EAGAIN")
    BY <2>1, <2>2, <2>5 DEF Received, fd_read, TypeOK
  <2>6. ASSUME NEW n \in 1 .. Min({ReadLen, Len(queue)}), Received(n, "none")
        PROVE  /\ n \in 1 .. Len(queue)
               /\ got' = got \o SubSeq(queue, 1, n)
               /\ queue' = SubSeq(queue, n + 1, Len(queue))
               /\ readEnded' = readEnded
    <3>1. Min({ReadLen, Len(queue)}) \in Int /\ Min({ReadLen, Len(queue)}) <= Len(queue)
      <4>1. ReadLen \in Int /\ Len(queue) \in Int
        BY <1>1, SocketAssumption
      <4>. HIDE DEF Recv
      <4>. QED
        BY <4>1, MinOfTwo
    <3>2. n \in 1 .. Len(queue)
      BY <1>1, <3>1
    <3>3. fd_read(n, "none") = n
      BY <3>2 DEF fd_read
    <3>4. n > 0 /\ n # -1
      BY <3>2
    <3>. QED
      BY <2>6, <3>2, <3>3, <3>4, Zenon DEF Received, TypeOK
  <2>. QED
    BY <2>3, <2>4, <2>5, <2>6
<1>4. CASE \E n \in 1 .. Len(queue) :
             /\ got' = got \o SubSeq(queue, 1, n)
             /\ queue' = SubSeq(queue, n + 1, Len(queue))
             /\ readEnded' = readEnded
  <2>1. PICK n \in 1 .. Len(queue) :
          /\ got' = got \o SubSeq(queue, 1, n)
          /\ queue' = SubSeq(queue, n + 1, Len(queue))
    BY <1>4
  <2>2. got' \in Seq(Nat) /\ queue' \in Seq(Nat) /\ ReadIsPrefix'
    BY <1>1, <1>2, <2>1, BytesMove
  <2>3. queue # <<>>
    BY <1>1, <1>4
  <2>4. TypeOK'
    BY <1>2, <1>4, <2>2 DEF TypeOK, Creating, Rounds
  <2>5. DescriptorsAreHeld' /\ SentIsPrefix'
    BY <1>2 DEF DescriptorsAreHeld, SentIsPrefix, Creating, Making, Rounds
  <2>6. rx' = rx /\ broken' = broken /\ readEnded' = readEnded
    BY <1>4 DEF Received
  <2>7. readEnded => rx \in broken
    BY <2>3 DEF EndIsReal
  <2>8. pc' \notin Creating /\ pc \notin Creating
    BY <1>2 DEF Creating, Making
  <2>9. EndIsReal'
    BY ONLY <2>6, <2>7, <2>8 DEF EndIsReal
  <2>. QED
    BY <2>2, <2>4, <2>5, <2>9
<1>5. CASE /\ got' = got /\ queue' = queue
           /\ \/ readEnded' = readEnded
              \/ rx \in broken
              \/ queue = <<>> /\ peerClosed
           /\ readEnded' \in BOOLEAN
  BY <1>2, <1>5 DEF TypeOK, DescriptorsAreHeld, SentIsPrefix, ReadIsPrefix, EndIsReal,
                    Creating, Making, Rounds
<1>. QED
  BY <1>3, <1>4, <1>5

-----------------------------------------------------------------------------
\* fd_write and close leave what was read, and the sockets, alone.
LEMMA WriteStep ==
  ASSUME IInv, Write
  PROVE  IInv'
<1>. USE DEF IInv, Write, kernelVars, peerVars, sockets, resultVars, writeVars
<1>1. Len(taken) \in Nat
  BY LenProperties DEF TypeOK
<1>2. TypeOK' /\ DescriptorsAreHeld' /\ EndIsReal'
  BY SocketAssumption
     DEF TypeOK, DescriptorsAreHeld, EndIsReal, Unsent, Creating, Making, Rounds
<1>3. SentIsPrefix'
  <2>1. pc = "write" /\ UNCHANGED <<taken, sent, sendFailed>>
    OBVIOUS
  <2>2. CASE /\ sent < MessageLen /\ ~sendFailed
             /\ output' = sent + 1 /\ write_bytes' = MessageLen - sent /\ writes' = 0
             /\ pc' = "send"
    BY ONLY <1>1, <2>1, <2>2, SentIsPrefix, TypeOK DEF TypeOK, SentIsPrefix
  <2>3. CASE pc' = "ask"
    BY ONLY <1>1, <2>1, <2>3, SentIsPrefix DEF SentIsPrefix
  <2>. QED
    BY <2>2, <2>3 DEF Unsent
<1>4. ReadIsPrefix'
  BY DEF ReadIsPrefix
<1>. QED
  BY <1>2, <1>3, <1>4

\* send takes a piece of what is left; the rest is sent in the next turn, or
\* nothing is left and the program learns of all of it.
LEMMA SendTakesStep ==
  ASSUME IInv, SendTakes
  PROVE  IInv'
<1>. USE DEF IInv, kernelVars, sockets
<1>1. PICK bytes \in 1 .. Min({write_bytes, Room}) :
        /\ taken' = taken \o SubSeq(Message, output, output + bytes - 1)
        /\ output' = output + bytes
        /\ write_bytes' = write_bytes - bytes
        /\ writes' = writes + bytes
  BY DEF SendTakes
<1>2. /\ pc = "send"
      /\ IF write_bytes' > 0 THEN pc' = pc /\ sent' = sent
         ELSE pc' = "ask" /\ sent' = sent + writes'
      /\ UNCHANGED <<open, broken, drained, queue, arrived, peerClosed, tx, rx, fd,
                     got, sendFailed, readEnded>>
  BY DEF SendTakes
<1>3. Len(taken) \in Nat /\ taken \in Seq(Nat)
  BY LenProperties DEF TypeOK
<1>4. /\ output = Len(taken) + 1 /\ sent + writes = Len(taken) /\ ~sendFailed
      /\ write_bytes = MessageLen - Len(taken)
      /\ write_bytes \in Nat /\ writes \in Nat /\ sent \in Nat
      /\ \A k \in 1 .. Len(taken) : taken[k] = k
  BY <1>2 DEF SentIsPrefix, TypeOK
<1>5. bytes \in Nat \ {0} /\ bytes <= write_bytes
  <2>1. write_bytes \in Int /\ Room \in Int
    BY <1>3, SocketAssumption DEF TypeOK, Room
  <2>2. Min({write_bytes, Room}) \in Int /\ Min({write_bytes, Room}) <= write_bytes
    BY <2>1, MinOfTwo
  <2>. QED
    BY <1>4, <2>2
<1>6. /\ taken' \in Seq(Nat)
      /\ Len(taken') = Len(taken) + bytes
      /\ \A k \in 1 .. Len(taken') : taken'[k] = k
  <2>1. Len(taken) + bytes <= MessageLen /\ MessageLen \in Nat
    BY <1>3, <1>4, <1>5, SocketAssumption
  <2>2. output + bytes - 1 = Len(taken) + bytes
    BY <1>3, <1>4, <1>5
  <2>. QED
    BY <1>1, <1>3, <1>4, <1>5, <2>1, <2>2, PrefixGrows DEF Message
<1>7. TypeOK'
  <2>1. output' \in Nat /\ writes' \in Nat
    BY ONLY <1>1, <1>3, <1>4, <1>5
  <2>2. write_bytes' \in Nat
    BY ONLY <1>1, <1>4, <1>5
  <2>3. sent' \in Nat
    BY ONLY <1>2, <1>4, <2>1
  <2>4. pc' \in Rounds
    BY ONLY <1>2 DEF Rounds
  <2>5. UNCHANGED <<open, broken, drained, queue, arrived, peerClosed, tx, rx, fd,
                    got, sendFailed, readEnded>>
    BY ONLY <1>2
  <2>. QED
    BY ONLY TypeOK, <1>6, <2>1, <2>2, <2>3, <2>4, <2>5 DEF TypeOK
<1>8. DescriptorsAreHeld' /\ EndIsReal' /\ ReadIsPrefix'
  BY <1>2 DEF DescriptorsAreHeld, EndIsReal, ReadIsPrefix, Creating, Making
<1>9. SentIsPrefix'
  <2>1. Len(taken') <= MessageLen
    BY ONLY <1>3, <1>4, <1>5, <1>6, SocketAssumption
  <2>2. /\ output' = output + bytes
        /\ write_bytes' = write_bytes - bytes
        /\ writes' = writes + bytes
        /\ Len(taken') = Len(taken) + bytes
    BY <1>1, <1>6
  <2>. HIDE DEF IInv
  <2>3. CASE write_bytes' > 0 /\ pc' = pc /\ sent' = sent
    <3>1. /\ output' = Len(taken') + 1 /\ sent' + writes' = Len(taken')
          /\ write_bytes' = MessageLen - Len(taken') /\ sent' <= Len(taken')
      BY ONLY <1>3, <1>4, <1>5, <2>2, <2>3, SocketAssumption
    <3>. QED
      BY ONLY <1>2, <1>4, <1>6, <2>1, <2>3, <3>1 DEF SentIsPrefix
  <2>4. CASE ~(write_bytes' > 0) /\ pc' = "ask" /\ sent' = sent + writes'
    <3>1. sent' = Len(taken') /\ sent' <= Len(taken')
      BY ONLY <1>3, <1>4, <1>5, <2>2, <2>4
    <3>. QED
      BY ONLY <1>6, <2>1, <2>4, <3>1 DEF SentIsPrefix
  <2>. QED
    BY ONLY <1>2, <2>3, <2>4
<1>. QED
  BY <1>7, <1>8, <1>9

LEMMA SendEndsStep ==
  ASSUME IInv, SendAgain \/ SendFails \/ SendTakesNothing
  PROVE  IInv'
<1>1. /\ UNCHANGED <<kernelVars, peerVars, sockets, writeVars, got, readEnded>>
      /\ pc = "send" /\ pc' = "ask"
      /\ \/ sent' = sent + writes /\ sendFailed' = sendFailed
         \/ sendFailed' = TRUE /\ sent' = sent
  BY DEF SendAgain, SendFails, SendTakesNothing, WritesOnEAGAIN
<1>. USE <1>1 DEF IInv, kernelVars, peerVars, sockets, writeVars
<1>2. TypeOK'
  <2>1. sent' \in Nat /\ sendFailed' \in BOOLEAN
    <3>1. sent \in Nat /\ writes \in Nat /\ sendFailed \in BOOLEAN
      BY DEF TypeOK
    <3>2. sent' \in Nat
      BY ONLY <1>1, <3>1
    <3>3. sendFailed' \in BOOLEAN
      BY ONLY <1>1, <3>1, Zenon
    <3>. QED
      BY <3>2, <3>3
  <2>. QED
    BY <2>1 DEF TypeOK, Rounds
<1>3. DescriptorsAreHeld' /\ EndIsReal' /\ ReadIsPrefix'
  BY DEF DescriptorsAreHeld, EndIsReal, ReadIsPrefix, Creating, Making
<1>4. SentIsPrefix'
  BY DEF SentIsPrefix, TypeOK
<1>. QED
  BY <1>2, <1>3, <1>4

LEMMA CloseStep ==
  ASSUME IInv, Close
  PROVE  IInv'
<1>. USE DEF IInv, Close, peerVars, sockets, writeVars, resultVars
<1>1. fd = -1
  BY DEF DescriptorsAreHeld, Making
<1>2. open' = {}
  BY <1>1, NoDescriptor DEF TypeOK, DescriptorsAreHeld
<1>3. TypeOK' /\ DescriptorsAreHeld' /\ EndIsReal'
  BY <1>1, <1>2 DEF TypeOK, DescriptorsAreHeld, EndIsReal, Creating, Making, Rounds
<1>4. SentIsPrefix' /\ ReadIsPrefix'
  BY DEF SentIsPrefix, ReadIsPrefix
<1>. QED
  BY <1>3, <1>4

-----------------------------------------------------------------------------
\* The peer sends only after the program has its rx, and never after closing.
LEMMA PeerSendsStep ==
  ASSUME IInv, PeerSends
  PROVE  IInv'
<1>. USE DEF IInv, PeerSends, kernelVars, sockets, writeVars, resultVars
<1>1. Len(got) \in Nat /\ Len(queue) \in Nat /\ arrived' \in 1 .. AnswerLen
  BY LenProperties, SocketAssumption DEF TypeOK, ReadIsPrefix
<1>2. Answer[arrived'] = arrived' /\ arrived' \in Nat
  BY <1>1 DEF Answer
<1>3. /\ queue' \in Seq(Nat)
      /\ Len(queue') = Len(queue) + 1
      /\ \A k \in 1 .. Len(queue) : queue'[k] = queue[k]
      /\ queue'[Len(queue) + 1] = arrived'
  BY <1>2, AppendProperties DEF TypeOK
<1>4. TypeOK' /\ DescriptorsAreHeld' /\ SentIsPrefix'
  BY <1>2, <1>3 DEF TypeOK, DescriptorsAreHeld, SentIsPrefix
<1>5. ReadIsPrefix'
  <2>1. /\ Len(got) + Len(queue) = arrived /\ arrived' = arrived + 1
        /\ got' = got
        /\ \A k \in 1 .. Len(got) : got[k] = k
        /\ \A k \in 1 .. Len(queue) : queue[k] = Len(got) + k
    BY DEF ReadIsPrefix
  <2>2. \A k \in 1 .. Len(queue') : queue'[k] = Len(got') + k
    <3>. SUFFICES ASSUME NEW k \in 1 .. Len(queue) + 1
                  PROVE  queue'[k] = Len(got') + k
      BY <1>3
    <3>1. CASE k \in 1 .. Len(queue)
      BY ONLY <1>3, <2>1, <3>1
    <3>2. CASE k = Len(queue) + 1
      BY ONLY <1>1, <1>3, <2>1, <3>2
    <3>. QED
      BY <1>1, <3>1, <3>2
  <2>. QED
    BY ONLY <1>1, <1>3, <2>1, <2>2 DEF ReadIsPrefix
<1>6. EndIsReal'
  BY DEF EndIsReal
<1>. QED
  BY <1>4, <1>5, <1>6

LEMMA EnvironmentStep ==
  ASSUME IInv, Drain \/ PeerSends \/ PeerCloses \/ Break
  PROVE  IInv'
<1>1. CASE Drain
  <2>1. UNCHANGED <<open, broken, taken, queue, arrived, peerClosed, pc, tx, rx, fd,
                 output, write_bytes, writes, sent, got, sendFailed, readEnded>>
    BY <1>1 DEF Drain, kernelVars, peerVars, sockets, writeVars, resultVars
  <2>2. drained' \in Nat
    BY <1>1 DEF Drain, IInv, TypeOK
  <2>3. TypeOK'
    BY <2>1, <2>2 DEF IInv, TypeOK
  <2>4. DescriptorsAreHeld' /\ SentIsPrefix'
    BY <2>1 DEF IInv, DescriptorsAreHeld, SentIsPrefix
  <2>5. ReadIsPrefix'
    BY <2>1 DEF IInv, ReadIsPrefix
  <2>6. EndIsReal'
    BY <1>1, <2>1, <2>2 DEF IInv, EndIsReal
  <2>. QED
    BY <2>3, <2>4, <2>5, <2>6 DEF IInv
<1>2. CASE PeerCloses
  <2>1. UNCHANGED <<open, broken, taken, drained, queue, arrived, pc, tx, rx, fd,
                 output, write_bytes, writes, sent, got, sendFailed, readEnded>>
    BY <1>2 DEF PeerCloses, kernelVars, peerVars, sockets, writeVars, resultVars
  <2>2. peerClosed' \in BOOLEAN
    BY <1>2 DEF PeerCloses, IInv, TypeOK
  <2>3. TypeOK'
    BY <2>1, <2>2 DEF IInv, TypeOK
  <2>4. DescriptorsAreHeld' /\ SentIsPrefix'
    BY <2>1 DEF IInv, DescriptorsAreHeld, SentIsPrefix
  <2>5. ReadIsPrefix'
    BY <2>1 DEF IInv, ReadIsPrefix
  <2>6. EndIsReal'
    BY <1>2, <2>1, <2>2 DEF IInv, EndIsReal, PeerCloses
  <2>. QED
    BY <2>3, <2>4, <2>5, <2>6 DEF IInv
<1>3. CASE Break
  <2>1. UNCHANGED <<open, taken, drained, queue, arrived, peerClosed, pc, tx, rx, fd,
                 output, write_bytes, writes, sent, got, sendFailed, readEnded>>
    BY <1>3 DEF Break, kernelVars, peerVars, sockets, writeVars, resultVars
  <2>2. broken \subseteq broken'
    BY <1>3 DEF Break, IInv, TypeOK
  <2>3. TypeOK'
    BY <2>1, <2>2 DEF IInv, TypeOK
  <2>4. DescriptorsAreHeld' /\ SentIsPrefix'
    BY <2>1 DEF IInv, DescriptorsAreHeld, SentIsPrefix
  <2>5. ReadIsPrefix'
    BY <2>1 DEF IInv, ReadIsPrefix
  <2>6. EndIsReal'
    BY <1>3, <2>1, <2>2 DEF IInv, EndIsReal
  <2>. QED
    BY <2>3, <2>4, <2>5, <2>6 DEF IInv
<1>. QED
  BY <1>1, <1>2, <1>3, PeerSendsStep

-----------------------------------------------------------------------------
\* Descriptors, the message and the answer are in order at every step.
THEOREM SocketInvariant == Spec => []IInv
<1>1. IInv /\ [Next]_vars => IInv'
  <2>. SUFFICES ASSUME IInv, [Next]_vars
                PROVE  IInv'
    OBVIOUS
  <2>1. CASE UNCHANGED vars
    BY <2>1 DEF vars, kernelVars, peerVars, sockets, writeVars, resultVars, IInv,
                TypeOK, DescriptorsAreHeld, SentIsPrefix, ReadIsPrefix, EndIsReal
  <2>2. CASE Next
    BY <2>2, CreateStep, ControlStep, RecvStep, WriteStep, SendTakesStep,
       SendEndsStep, CloseStep, EnvironmentStep DEF Next, Round
  <2>. QED
    BY <2>1, <2>2
<1>. QED
  BY InitIsSafe, <1>1, PTL DEF Spec

\* Every open descriptor is in the hands of fd_create_socket or of the
\* program, and none is left at the end.
THEOREM DescriptorsAreClosed == Spec => []NoDescriptorLeaks
<1>1. IInv => NoDescriptorLeaks
  BY DEF IInv, DescriptorsAreHeld, NoDescriptorLeaks
<1>. QED
  BY SocketInvariant, <1>1, PTL

\* Through partial sends and full buffers, what was sent is the message from
\* its beginning, and the program knows how much of it, until fd_write has
\* returned -1.
THEOREM WritesAreCounted == Spec => []SentIsAcknowledged
<1>1. IInv => SentIsAcknowledged
  <2>. SUFFICES ASSUME IInv
                PROVE  SentIsAcknowledged
    OBVIOUS
  <2>1. taken \in Seq(Nat) /\ Len(taken) \in Nat
    BY LenProperties DEF IInv, TypeOK
  <2>2. Len(taken) <= MessageLen /\ \A k \in 1 .. Len(taken) : taken[k] = k
    BY DEF IInv, SentIsPrefix
  <2>3. PICK s : s = SubSeq(Message, 1, Len(taken))
    OBVIOUS
  <2>4. \A k \in 1 .. Len(taken) : Message[k] = k /\ Message[k] \in Nat
    BY <2>1, <2>2, SocketAssumption DEF Message
  <2>5. s \in Seq(Nat) /\ Len(s) = Len(taken) /\ \A k \in 1 .. Len(taken) : s[k] = k
    BY <2>1, <2>3, <2>4, SubSeqProperties
  <2>6. taken = s
    BY ONLY <2>1, <2>2, <2>5, SeqEqual
  <2>. QED
    BY <2>3, <2>6 DEF IInv, SentIsPrefix, SentIsAcknowledged
<1>. QED
  BY SocketInvariant, <1>1, PTL

\* What was read and what waits is the answer as far as it has arrived, and
\* the end is reported only after an error or the last byte.
THEOREM ReadsAreExact == Spec => []ReadsUpToTheEnd
<1>1. IInv => ReadsUpToTheEnd
  <2>. SUFFICES ASSUME IInv
                PROVE  ReadsUpToTheEnd
    OBVIOUS
  <2>1. /\ got \in Seq(Nat) /\ queue \in Seq(Nat)
        /\ Len(got) \in Nat /\ Len(queue) \in Nat
    BY LenProperties DEF IInv, TypeOK
  <2>2. /\ arrived <= AnswerLen /\ Len(got) + Len(queue) = arrived
        /\ \A k \in 1 .. Len(got) : got[k] = k
        /\ \A k \in 1 .. Len(queue) : queue[k] = Len(got) + k
    BY DEF IInv, ReadIsPrefix
  <2>3. PICK s, t : s = SubSeq(Answer, 1, arrived) /\ t = got \o queue
    OBVIOUS
  <2>4. \A k \in 1 .. arrived : Answer[k] = k /\ Answer[k] \in Nat
    BY <2>1, <2>2, SocketAssumption DEF Answer
  <2>5. s \in Seq(Nat) /\ Len(s) = arrived /\ \A k \in 1 .. arrived : s[k] = k
    BY <2>1, <2>2, <2>3, <2>4, SubSeqProperties
  <2>6. /\ t \in Seq(Nat)
        /\ Len(t) = arrived
        /\ \A k \in 1 .. arrived :
             t[k] = IF k <= Len(got) THEN got[k] ELSE queue[k - Len(got)]
    BY <2>1, <2>2, <2>3, ConcatProperties
  <2>7. \A k \in 1 .. arrived : t[k] = k
    <3>. SUFFICES ASSUME NEW k \in 1 .. arrived
                  PROVE  t[k] = k
      OBVIOUS
    <3>1. k \in 1 .. Len(got) \/ (~(k <= Len(got)) /\ k - Len(got) \in 1 .. Len(queue))
      BY <2>1, <2>2
    <3>2. k <= Len(got) => got[k] = k
      BY <2>1, <2>2, <3>1
    <3>3. ~(k <= Len(got)) => queue[k - Len(got)] = Len(got) + (k - Len(got))
      BY <2>1, <2>2, <3>1
    <3>. QED
      BY ONLY <2>1, <2>2, <2>6, <3>1, <3>2, <3>3, k \in 1 .. arrived
  <2>8. s = t
    BY ONLY <2>5, <2>6, <2>7, SeqEqual
  <2>. QED
    BY <2>3, <2>8 DEF IInv, EndIsReal, ReadsUpToTheEnd
<1>. QED
  BY SocketInvariant, <1>1, PTL
=============================================================================
