------------------------- MODULE TcpConnectionProofs -------------------------
(***************************************************************************)
(* The events, the callers and the peer keep the invariant of              *)
(* TcpConnectionMethods too, and what follows from it, for every size of   *)
(* the buffers, every limit and every number of calls: the stream is in    *)
(* order, no output is forgotten, the FIN follows the output, and a closed *)
(* connection stays out of the loop.                                       *)
(***************************************************************************)
EXTENDS TcpConnectionMethods

USE Zenon DEF Connections, Channels, Sockets

-----------------------------------------------------------------------------
(* Events.                                                                 *)

\* A stack of one frame, and one of two.
Alone(t, a) == \A l : (Top(t, l) <=> l = a) /\ ~Under(t, l)
Paired(t, a, b) == \A l : (Top(t, l) <=> l = a) /\ (Under(t, l) <=> l = b)

\* The frames of an event or of a queued call, on the stack of a loop that was idle.
LEMMA ShortStacks ==
    ASSUME NEW f \in Frames, NEW g \in Frames
    PROVE  /\ \A l : ~Held(<<>>, l)
           /\ <<f>> \in Seq(Frames) /\ Alone(<<f>>, f.at)
           /\ <<f, g>> \in Seq(Frames) /\ Paired(<<f, g>>, f.at, g.at)
<1>1. /\ Len(<<>>) = 0 /\ Len(<<f>>) = 1 /\ Len(<<f, g>>) = 2
      /\ <<f, g>>[2] = g /\ Head(<<f>>) = f /\ Head(<<f, g>>) = f
      /\ <<f>> # <<>> /\ <<f, g>> # <<>>
  BY SMT
<1>2. \A l : ~Held(<<>>, l)
  BY SMT, <1>1 DEF Held, Top, Under
<1>3. Alone(<<f>>, f.at)
  BY SMT, <1>1 DEF Alone, Top, Under
<1>4. Paired(<<f, g>>, f.at, g.at)
  BY SMT, <1>1 DEF Paired, Top, Under
<1> QED
  BY SMT, <1>2, <1>3, <1>4

\* The loop dispatches what epoll reports: pending output and unread input that an
\* edge announced are now in the hands of a handler, or the socket is full.
LEMMA OnEventKeeps ==
    ASSUME IInv, OnEvent PROVE IInv' /\ (~StopsAtLimit /\ ReadEdgeInv => ReadEdgeInv')
<1> USE DEF IInv, StreamInv
<1> DEFINE r == "read" \in Reported \cap chan.events
           w == "write" \in Reported
<1>0. /\ stack = <<>> /\ sock.edge /\ chan.armed # {}
      /\ sock' = [sock EXCEPT !.edge = FALSE]
      /\ UNCHANGED <<conn, output, input, chan, queue, written, failed>>
      /\ ~conn.cleanup_done
      /\ \A l : ~Held(stack, l)
  <2>1. \A l : ~Held(<<>>, l)
    BY DoIsFrame, ShortStacks DEF Labels
  <2> QED
    BY <2>1 DEF OnEvent, histVars, CleanupInv
<1>a. /\ sock' \in Sockets
      /\ sock'.wire = sock.wire /\ sock'.reset = sock.reset
      /\ sock'.delivered = sock.delivered /\ sock'.inbox = sock.inbox
      /\ sock'.sent = sock.sent /\ sock'.established = sock.established
      /\ sock'.peer_fin = sock.peer_fin /\ sock'.fin = sock.fin
  BY <1>0 DEF TypeOK
<1>1. /\ stack' \in Seq(Frames)
      /\ \A l : Top(stack', l) => l \in {"on_read_event", "on_write_event"}
      /\ \A l : Under(stack', l) => l = "on_write_event"
      /\ r => Held(stack', "on_read_event")
      /\ w => Held(stack', "on_write_event")
  <2> DEFINE f == Do("on_read_event") g == Do("on_write_event")
  <2>1. f \in Frames /\ g \in Frames /\ f.at = "on_read_event" /\ g.at = "on_write_event"
    BY DoIsFrame DEF Labels
  <2>2. stack' = (IF r THEN <<f>> ELSE <<>>) \o (IF w THEN <<g>> ELSE <<>>)
    BY DEF OnEvent
  <2> HIDE DEF f, g, r, w
  <2>3. CASE r /\ w
    <3>1. stack' = <<f, g>>
      BY <2>1, <2>2, <2>3, PairOf
    <3> QED
      BY <2>1, <3>1, ShortStacks DEF Paired, Held
  <2>4. CASE r /\ ~w
    <3>1. stack' = <<f>>
      BY SMTT(60), <2>1, <2>2, <2>4
    <3> QED
      BY <2>1, <2>4, <3>1, ShortStacks DEF Alone, Held
  <2>5. CASE ~r /\ w
    <3>1. stack' = <<g>>
      BY SMT, <2>1, <2>2, <2>5
    <3> QED
      BY <2>1, <2>5, <3>1, ShortStacks DEF Alone, Held
  <2>6. CASE ~r /\ ~w
    <3>1. stack' = <<>> /\ <<>> \in Seq(Frames)
      BY SMT, <2>2, <2>6
    <3>2. \A l : ~Held(stack', l)
      BY <2>1, <3>1, ShortStacks
    <3> QED
      BY <2>6, <3>1, <3>2 DEF Held
  <2> QED
    BY <2>3, <2>4, <2>5, <2>6
<1>b. ~conn.is_closing /\ output # <<>> => w \/ (Room = 0 /\ ~sock.reset)
  <2> SUFFICES ASSUME ~conn.is_closing, output # <<>>, ~(Room = 0 /\ ~sock.reset) PROVE w
    OBVIOUS
  <2>1. /\ "write" \in chan.events /\ "write" \in chan.armed
        /\ sock.established \/ sock.reset
    BY <1>0 DEF WriteEdgeInv, EstablishedInv
  <2>2. Room \in Nat
    <3>1. /\ Len(sock.wire) \in Nat /\ sock.delivered \in Nat /\ SendRoom \in Nat
          /\ sock.delivered <= Len(sock.wire) /\ Len(sock.wire) <= sock.delivered + SendRoom
      BY LenProperties, TcpConnectionAssumption DEF TypeOK, WriteEdgeInv
    <3> QED
      BY SMT, <3>1 DEF Room
  <2> QED
    BY SMT, <2>1, <2>2 DEF Reported
<1>c. /\ ReadEdgeInv /\ conn.state \in {"connecting", "connected"} /\ ~conn.input_shutdown
      /\ sock.inbox > 0 \/ sock.peer_fin
      => r
  <2> SUFFICES ASSUME ReadEdgeInv, conn.state \in {"connecting", "connected"},
                      ~conn.input_shutdown, sock.inbox > 0 \/ sock.peer_fin
               PROVE  r
    OBVIOUS
  <2>1. "read" \in chan.events /\ "read" \in chan.armed
    BY DEF ReadEdgeInv, WriteEdgeInv, FlagsAgree
  <2> QED
    BY <2>1 DEF Reported, ReadEdgeInv
<1>d. r \/ w => sock.established \/ sock.reset
  BY DEF Reported, EstablishedInv
<1>e. (Room = 0) = (Room = 0)'
  BY <1>a DEF Room
<1> HIDE DEF r, w
<1>2. TypeOK'
  BY <1>0, <1>1, <1>a DEF TypeOK
<1>3. Numbered'
  BY <1>0, <1>a DEF Numbered
<1>4. FlagsAgree'
  BY <1>0, <1>a DEF FlagsAgree, Held
<1>5. ClosesDrained'
  <2>1. /\ ~Under(stack', "drained") /\ ~Top(stack', "drained")
        /\ ~Under(stack', "do_close") /\ ~Top(stack', "do_close")
    BY SMTT(60), <1>1
  <2> QED
    BY <2>1 DEF ClosesDrained
<1>6. CleanupInv'
  BY SMTT(60), <1>0, <1>1 DEF CleanupInv, Held, Labels, QueuedLabels
<1>7. WriteEdgeInv'
  BY <1>0, <1>1, <1>a, <1>b, <1>e DEF WriteEdgeInv
<1>8. ReadEdgeInv => ReadEdgeInv'
  BY <1>0, <1>1, <1>a, <1>c DEF ReadEdgeInv
<1>9. EstablishedInv'
  <2>1. Held(stack', "on_read_event") \/ Held(stack', "on_write_event") => r \/ w
    BY SMT DEF OnEvent, r, w, Held, Top, Under
  <2> QED
    BY ZenonT(60), <1>0, <1>a, <1>d, <2>1 DEF EstablishedInv
<1> QED
  BY <1>2, <1>3, <1>4, <1>5, <1>6, <1>7, <1>8, <1>9

\* Both handlers begin by finishing a connect, which leaves nothing unannounced.
LEMMA ConnectingKeeps ==
    ASSUME IInv, NEW l, NEW next, Top(stack, l), Connecting(next),
           \/ l = "on_read_event" /\ next = "read"
           \/ l = "on_write_event" /\ next = "ready"
    PROVE IInv' /\ (~StopsAtLimit /\ ReadEdgeInv => ReadEdgeInv')
<1> USE DEF IInv, StreamInv
<1>0. /\ stack \in Seq(Frames) /\ stack # <<>> /\ ~conn.cleanup_done
      /\ UNCHANGED <<output, input, chan, sock, queue, written, failed>>
      /\ sock.established \/ sock.reset
      /\ next \in Labels
  BY DEF TypeOK, Top, Connecting, histVars, CleanupInv, Labels, QueuedLabels,
         EstablishedInv, Held
<1>1. /\ stack' \in Seq(Frames)
      /\ \/ Swapped(stack, stack', next) /\ conn' = conn
         \/ Swapped2(stack, stack', "user", "close") /\ conn' = conn
         \/ /\ Swapped2(stack, stack', "user", next)
            /\ conn.state = "connecting"
            /\ conn' = [conn EXCEPT !.state = "connected"]
  BY <1>0, SwapDo, SwapDo2
     DEF Connecting, Continue, Notify, Labels, QueuedLabels
<1>a. /\ conn' \in Connections
      /\ conn'.is_closing = conn.is_closing
      /\ conn'.output_shutdown = conn.output_shutdown
      /\ conn'.input_shutdown = conn.input_shutdown
      /\ conn'.cleanup_done = conn.cleanup_done
      /\ conn'.state # conn.state => conn.state = "connecting" /\ conn'.state = "connected"
  BY ZenonT(60), <1>1 DEF TypeOK
<1>b. /\ Swapped(stack, stack', next) \/ Swapped2(stack, stack', "user", next)
         \/ (Swapped2(stack, stack', "user", "close") /\ conn.state = "connecting")
  BY <1>0, <1>1, SwapDo, SwapDo2
     DEF Connecting, Continue, Notify, Labels, QueuedLabels
<1>2. TypeOK'
  BY <1>0, <1>1, <1>a DEF TypeOK
<1>3. Numbered'
  BY <1>0, <1>a DEF Numbered
<1>4. FlagsAgree'
  BY <1>0, <1>1, <1>a, OneTop DEF FlagsAgree, Swapped, Swapped2
<1>5. ClosesDrained'
  BY <1>0, <1>1, <1>a, OneTop DEF ClosesDrained, Swapped, Swapped2, Excused
<1>6. CleanupInv'
  BY <1>0, <1>1, <1>a, OneTop
     DEF CleanupInv, Held, Swapped, Swapped2, Labels, QueuedLabels
<1>7. WriteEdgeInv'
  BY <1>0, <1>a, <1>b, OneTop
     DEF WriteEdgeInv, FlagsAgree, Room, Held, Swapped, Swapped2
<1>8. ~StopsAtLimit /\ ReadEdgeInv => ReadEdgeInv'
  BY <1>0, <1>1, <1>a, OneTop DEF ReadEdgeInv, Held, Swapped, Swapped2
<1>9. EstablishedInv'
  BY <1>0 DEF EstablishedInv
<1> QED
  BY ZenonT(60), <1>2, <1>3, <1>4, <1>5, <1>6, <1>7, <1>8, <1>9

\* TcpConnection::on_read_event() up to the reads.
LEMMA OnReadEventKeeps ==
    ASSUME IInv, OnReadEvent PROVE IInv' /\ (~StopsAtLimit /\ ReadEdgeInv => ReadEdgeInv')
BY ConnectingKeeps DEF OnReadEvent, At, Top

\* TcpConnection::on_write_event() up to the flush.
LEMMA OnWriteEventKeeps ==
    ASSUME IInv, OnWriteEvent PROVE IInv' /\ (~StopsAtLimit /\ ReadEdgeInv => ReadEdgeInv')
<1>1. Top(stack, "on_write_event")
  BY DEF OnWriteEvent, At, Top
<1>2. CASE "write" \in chan.events
  BY <1>1, <1>2, ConnectingKeeps DEF OnWriteEvent
<1>3. CASE "write" \notin chan.events
  BY <1>1, <1>3, DropKeeps DEF OnWriteEvent
<1> QED
  BY <1>2, <1>3

\* How far a read event fills the input buffer: as far as the socket has bytes.
LEMMA ReadAmount ==
    ASSUME IInv, ReadEnds # "overfull"
    PROVE  /\ ReadsUpTo \in Nat
           /\ input <= ReadsUpTo
           /\ ReadsUpTo <= input + sock.inbox
<1> DEFINE b == sock.inbox
<1>1. /\ input \in Nat /\ b \in Nat
      /\ DrainMax \in Nat /\ PacketMax \in Nat /\ DrainMax < PacketMax
  BY TcpConnectionAssumption DEF IInv, TypeOK
<1>2. input < PacketMax
  BY SMT, <1>1 DEF ReadEnds
<1> HIDE DEF b
<1> QED
  BY SMT, <1>1, <1>2 DEF ReadsUpTo, FillTo, Lesser, b

\* The reads of on_read_event() and what they leave to do.
LEMMA ReadKeeps ==
    ASSUME IInv, Read PROVE IInv' /\ (~StopsAtLimit /\ ReadEdgeInv => ReadEdgeInv')
<1> USE DEF IInv, StreamInv
<1> DEFINE to == IF ReadEnds = "overfull" THEN input ELSE ReadsUpTo
           bad == ReadEnds \in {"overfull", "error"}
           left == sock.inbox - (to - input)
           read == [sock EXCEPT !.inbox = left]
<1>0. /\ stack \in Seq(Frames) /\ stack # <<>> /\ Top(stack, "read")
      /\ UNCHANGED <<conn, output, queue, written, failed>>
      /\ ~conn.cleanup_done
      /\ input' = to
  BY DEF Read, At, Top, TypeOK, histVars, CleanupInv, Labels, QueuedLabels
<1>a. to \in Nat /\ left \in Nat /\ to + left = input + sock.inbox
  <2>1. input \in Nat /\ sock.inbox \in Nat
    BY DEF TypeOK
  <2>2. to \in Nat /\ input <= to /\ to <= input + sock.inbox
    BY SMT, <2>1, ReadAmount
  <2> HIDE DEF to
  <2> QED
    BY SMT, <2>1, <2>2
<1>b. sock' = read \/ sock' = Rearmed(read)
  BY DEF Read
<1>c. ReadEnds = "again" => sock' = Rearmed(read)
  BY DEF Read
<1>d. /\ sock' \in Sockets
      /\ sock'.wire = sock.wire /\ sock'.reset = sock.reset
      /\ sock'.delivered = sock.delivered /\ sock'.inbox = left
      /\ sock'.sent = sock.sent /\ sock'.established = sock.established
      /\ sock'.peer_fin = sock.peer_fin /\ sock'.fin = sock.fin
      /\ sock.edge => sock'.edge
      /\ ReadEnds = "again" => sock'.edge
  <2> HIDE DEF left
  <2>1. CASE sock' = read /\ ReadEnds # "again"
    BY <1>a, <2>1 DEF TypeOK
  <2>2. CASE sock' = Rearmed(read)
    BY <1>a, <2>2 DEF TypeOK, Rearmed
  <2> QED
    BY <1>b, <1>c, <2>1, <2>2
<1>e. /\ chan' \in Channels
      /\ chan.armed = chan.events => chan'.armed = chan'.events
      /\ "read" \in chan.events => "read" \in chan'.events
      /\ "write" \in chan.events => "write" \in chan'.events
  <2>1. CASE chan' = chan
    BY <2>1 DEF TypeOK
  <2>2. CASE chan' = Updated(chan.events \cup {"read"})
    BY <2>2 DEF TypeOK, Updated
  <2> QED
    BY <2>1, <2>2 DEF Read
<1>1. /\ stack' \in Seq(Frames)
      /\ \A l : Under(stack, l) => Held(stack', l)
      /\ \A l : Top(stack', l) => Under(stack, l) \/ l \in {"user", "readable", "peer_closed"}
      /\ \A l : Under(stack', l) => Under(stack, l) \/ l \in {"readable", "peer_closed"}
      /\ ReadEnds \in {"overfull", "error", "eof"} => Held(stack', "peer_closed")
  <2> DEFINE u == Do("user") d == Do("readable") p == Do("peer_closed")
             e == bad \/ ReadEnds = "eof"
             m == to > input
  <2>1. /\ u \in Frames /\ d \in Frames /\ p \in Frames
        /\ u.at = "user" /\ d.at = "readable" /\ p.at = "peer_closed"
    BY DoIsFrame DEF Labels
  <2>2. stack' = ((IF bad THEN <<u>> ELSE <<>>)
                    \o (IF m THEN <<d>> ELSE <<>>)
                    \o (IF e THEN <<p>> ELSE <<>>)) \o Tail(stack)
    BY DEF Read, Continue, Notify
  <2>3. (bad => e) /\ (ReadEnds \in {"overfull", "error", "eof"} => e)
    OBVIOUS
  <2> HIDE DEF u, d, p, e, m, bad
  <2>4. CASE bad /\ m
    <3>1. stack' = <<u, d, p>> \o Tail(stack)
      <4>1. (<<u>> \o <<d>>) \o <<p>> = <<u, d, p>>
        BY SMT, <2>1, TripleOf
      <4> QED
        BY <2>2, <2>3, <2>4, <4>1
    <3>2. stack' \in Seq(Frames) /\ Swapped3(stack, stack', "user", "readable", "peer_closed")
      BY <1>0, <2>1, <3>1, Swap3
    <3> QED
      BY <3>2 DEF Swapped3, Held
  <2>5. CASE bad /\ ~m
    <3>1. stack' = <<u, p>> \o Tail(stack)
      <4>1. (<<u>> \o <<>>) \o <<p>> = <<u, p>>
        BY SMT, <2>1, TripleOf
      <4> QED
        BY <2>2, <2>3, <2>5, <4>1
    <3>2. stack' \in Seq(Frames) /\ Swapped2(stack, stack', "user", "peer_closed")
      BY <1>0, <2>1, <3>1, Swap2
    <3> QED
      BY <3>2 DEF Swapped2, Held
  <2>6. CASE ~bad /\ e /\ m
    <3>1. stack' = <<d, p>> \o Tail(stack)
      <4>1. (<<>> \o <<d>>) \o <<p>> = <<d, p>>
        BY SMTT(60), <2>1, TripleOf
      <4> QED
        BY <2>2, <2>6, <4>1
    <3>2. stack' \in Seq(Frames) /\ Swapped2(stack, stack', "readable", "peer_closed")
      BY <1>0, <2>1, <3>1, Swap2
    <3> QED
      BY <3>2 DEF Swapped2, Held
  <2>7. CASE ~bad /\ e /\ ~m
    <3>1. stack' = <<p>> \o Tail(stack)
      <4>1. (<<>> \o <<>>) \o <<p>> = <<p>>
        BY <2>1, TripleOf
      <4> QED
        BY <2>2, <2>7, <4>1
    <3>2. stack' \in Seq(Frames) /\ Swapped(stack, stack', "peer_closed")
      BY <1>0, <2>1, <3>1, Swap
    <3> QED
      BY <3>2 DEF Swapped, Held
  <2>8. CASE ~e /\ m
    <3>1. stack' = <<d>> \o Tail(stack)
      <4>1. (<<>> \o <<d>>) \o <<>> = <<d>>
        BY <2>1, TripleOf
      <4> QED
        BY <2>2, <2>3, <2>8, <4>1
    <3>2. stack' \in Seq(Frames) /\ Swapped(stack, stack', "readable")
      BY <1>0, <2>1, <3>1, Swap
    <3> QED
      BY <2>3, <2>8, <3>2 DEF Swapped, Held
  <2>9. CASE ~e /\ ~m
    <3>1. stack' = <<>> \o Tail(stack)
      <4>1. (<<>> \o <<>>) \o <<>> = <<>>
        BY SMT
      <4> QED
        BY <2>2, <2>3, <2>9, <4>1
    <3>2. stack' \in Seq(Frames) /\ Popped(stack, stack')
      BY <1>0, <3>1, Pop
    <3> QED
      BY <2>3, <2>9, <3>2 DEF Popped, Held
  <2> QED
    BY ZenonT(60), <2>3, <2>4, <2>5, <2>6, <2>7, <2>8, <2>9
<1>f. ReadEnds \in {"overfull", "full", "error", "eof", "again"}
  BY DEF ReadEnds
<1>g. ~StopsAtLimit => sock'.edge \/ Held(stack', "peer_closed")
  BY <1>1, <1>d, <1>f DEF StopsAtLimit, Read
<1> HIDE DEF to, bad, left, read
<1>2. TypeOK'
  BY ZenonT(60), <1>0, <1>1, <1>a, <1>d, <1>e DEF TypeOK
<1>3. Numbered'
  BY <1>0, <1>d DEF Numbered
<1>4. FlagsAgree'
  BY <1>0, <1>d, OneTop DEF FlagsAgree
<1>5. ClosesDrained'
  BY SMTT(30), <1>0, <1>1, <1>d DEF ClosesDrained, Excused
<1>6. CleanupInv'
  BY SMTT(30), <1>0, <1>1 DEF CleanupInv, Held, Labels, QueuedLabels
<1>7. WriteEdgeInv'
  BY ZenonT(60), <1>0, <1>1, <1>d, <1>e, OneTop DEF WriteEdgeInv, Room, Held
<1>8. ~StopsAtLimit /\ ReadEdgeInv => ReadEdgeInv'
  <2> SUFFICES ASSUME ~StopsAtLimit, ReadEdgeInv PROVE ReadEdgeInv'
    OBVIOUS
  <2>1. input' + sock'.inbox <= sock'.sent /\ sock'.sent <= MaxInput
    BY <1>0, <1>a, <1>d DEF ReadEdgeInv
  <2>2. sock'.inbox > 0 => sock'.established
    <3>1. left <= sock.inbox
      BY SMTT(60), ReadAmount DEF left, to, TypeOK
    <3> QED
      BY SMTT(30), <1>a, <1>d, <3>1 DEF ReadEdgeInv, TypeOK
  <2> QED
    BY SMTT(30), <1>0, <1>d, <1>e, <1>g, <2>1, <2>2 DEF ReadEdgeInv
<1>9. EstablishedInv'
  BY SMTT(30), <1>0, <1>1, <1>d DEF EstablishedInv, Held
<1> QED
  BY ZenonT(60), <1>2, <1>3, <1>4, <1>5, <1>6, <1>7, <1>8, <1>9

\* on_read_event() at the end of the stream: the input side is shut down.
LEMMA PeerClosedKeeps ==
    ASSUME IInv, PeerClosed PROVE IInv' /\ (~StopsAtLimit /\ ReadEdgeInv => ReadEdgeInv')
<1> USE DEF IInv, StreamInv
<1>0. stack \in Seq(Frames) /\ stack # <<>> /\ Top(stack, "peer_closed")
  BY DEF PeerClosed, At, Top, TypeOK
<1>1. CASE conn.state = "closed" \/ conn.is_closing
  <2>1. conn.is_closing
    BY SMTT(30), <1>1 DEF FlagsAgree
  <2> QED
    BY <1>0, <1>1, <2>1, DropKeeps DEF PeerClosed
<1>2. CASE ~(conn.state = "closed" \/ conn.is_closing)
  <2>0. /\ ~conn.is_closing /\ ~conn.cleanup_done
        /\ UNCHANGED <<output, input, queue, written, failed>>
        /\ conn' = [conn EXCEPT !.input_shutdown = TRUE]
        /\ chan' = Updated(chan.events \ {"read"})
        /\ sock' = Rearmed(sock)
    BY <1>2 DEF CleanupInv, PeerClosed, histVars
  <2>1. stack' \in Seq(Frames) /\ Swapped2(stack, stack', "user", "after_shutdown")
    BY <1>0, <1>2, SwapDo2 DEF PeerClosed, Notify, Continue, Labels
  <2>2. /\ conn'.state = conn.state /\ conn'.is_closing = conn.is_closing
        /\ conn'.output_shutdown = conn.output_shutdown
        /\ conn'.cleanup_done = conn.cleanup_done /\ conn'.input_shutdown
        /\ conn' \in Connections
    BY <2>0 DEF TypeOK
  <2>3. /\ sock' \in Sockets
        /\ sock'.wire = sock.wire /\ sock'.reset = sock.reset
        /\ sock'.delivered = sock.delivered /\ sock'.inbox = sock.inbox
        /\ sock'.sent = sock.sent /\ sock'.established = sock.established
        /\ sock'.peer_fin = sock.peer_fin /\ sock'.fin = sock.fin
        /\ sock'.edge
    BY <2>0 DEF TypeOK, Rearmed
  <2>4. /\ chan' \in Channels
        /\ chan'.armed = chan'.events
        /\ "write" \in chan.events => "write" \in chan'.events
    BY <2>0 DEF TypeOK, Updated
  <2>5. TypeOK'
    BY ZenonT(60), <2>0, <2>1, <2>2, <2>3, <2>4 DEF TypeOK
  <2>6. Numbered'
    BY SMTT(60), <2>0, <2>2, <2>3 DEF Numbered
  <2>7. FlagsAgree'
    BY <1>0, <2>0, <2>2, <2>3, OneTop DEF FlagsAgree
  <2>8. ClosesDrained'
    BY ZenonT(60), <2>0, <2>1, <2>2, <2>3 DEF ClosesDrained, Excused, Swapped2
  <2>9. CleanupInv'
    BY ZenonT(60), <1>0, <2>0, <2>1, <2>2, OneTop
       DEF CleanupInv, Held, Swapped2, Labels, QueuedLabels
  <2>10. WriteEdgeInv'
    BY <2>0, <2>2, <2>3, <2>4 DEF WriteEdgeInv
  <2>11. ReadEdgeInv => ReadEdgeInv'
    BY <2>0, <2>2, <2>3 DEF ReadEdgeInv
  <2>12. EstablishedInv'
    BY <2>0, <2>1, <2>2, <2>3 DEF EstablishedInv, Held, Swapped2
  <2> QED
    BY <2>5, <2>6, <2>7, <2>8, <2>9, <2>10, <2>11, <2>12
<1> QED
  BY <1>1, <1>2

-----------------------------------------------------------------------------
(* Callers and the peer.                                                   *)

\* The frames of the calls.
LEMMA CallFrames ==
    /\ \A c \in ForeignCalls : c \in QueuedFrames /\ c.at # "cleanup"
    /\ \A c \in LoopCalls : c \in Frames /\ c.at \notin {"cleanup", "drained", "do_close",
                                "closed", "on_read_event", "on_write_event"}
<1>1. Sizes \subseteq Nat
  BY TcpConnectionAssumption
<1>2. \A c \in ForeignCalls : /\ c \in QueuedFrames /\ c.at \in QueuedLabels \ {"cleanup"}
  BY SMTT(60), <1>1 DEF ForeignCalls, Do, Frame, QueuedFrames, QueuedLabels
<1>3. ASSUME NEW c \in LoopCalls
      PROVE  c \in Frames /\ c.at \in (QueuedLabels \ {"cleanup"})
                                         \cup {"write_and_flush", "abort"}
  <2>1. CASE c \in ForeignCalls
    BY <1>2, <2>1 DEF QueuedFrames, Frames, Labels
  <2>2. CASE c \in {Frame("write_and_flush", n) : n \in Sizes} \cup {Do("abort")}
    BY SMTT(60), <1>1, <2>2 DEF Do, Frame, Frames, Labels
  <2> QED
    BY <1>3, <2>1, <2>2 DEF LoopCalls
<1>4. \A c \in ForeignCalls : c \in QueuedFrames /\ c.at # "cleanup"
  BY <1>2
<1>5. \A c \in LoopCalls : c \in Frames /\ c.at \notin {"cleanup", "drained", "do_close",
                                "closed", "on_read_event", "on_write_event"}
  BY <1>3 DEF QueuedLabels
<1> QED
  BY <1>4, <1>5

\* User code calls the connection again from a notification.
LEMMA UserCallsKeeps ==
    ASSUME IInv, UserCalls PROVE IInv' /\ (~StopsAtLimit /\ ReadEdgeInv => ReadEdgeInv')
<1> USE DEF IInv, StreamInv
<1>0. /\ stack \in Seq(Frames) /\ stack # <<>> /\ Top(stack, "user") /\ StackOnly
      /\ ~conn.cleanup_done
  BY DEF UserCalls, At, Top, TypeOK, StackOnly, CleanupInv, Labels, QueuedLabels
<1>1. PICK c \in LoopCalls : stack' = <<c>> \o stack
  BY DEF UserCalls
<1>a. stack' \in Seq(Frames) /\ Pushed(stack, stack', c.at)
  BY <1>0, <1>1, CallFrames, Push
<1>b. c.at \notin {"cleanup", "drained", "do_close", "closed", "on_read_event", "on_write_event"}
  BY CallFrames
<1>2. TypeOK'
  BY SMTT(60), <1>0, <1>a DEF TypeOK, StackOnly
<1>3. Numbered'
  BY <1>0 DEF Numbered, StackOnly
<1>4. FlagsAgree'
  BY <1>0, <1>a, <1>b, OneTop DEF FlagsAgree, Pushed, StackOnly, Held
<1>5. ClosesDrained'
  BY ZenonT(60), <1>0, <1>a, <1>b, OneTop
     DEF ClosesDrained, Pushed, StackOnly, Excused, Held
<1>6. CleanupInv'
  BY SMTT(30), <1>0, <1>a, <1>b, OneTop
     DEF CleanupInv, Held, Pushed, StackOnly, Labels, QueuedLabels
<1>7. WriteEdgeInv'
  BY <1>0, <1>a, <1>b, OneTop DEF WriteEdgeInv, Held, Pushed, StackOnly, Room
<1>8. ~StopsAtLimit /\ ReadEdgeInv => ReadEdgeInv'
  BY <1>0, <1>a, <1>b, OneTop DEF ReadEdgeInv, Held, Pushed, StackOnly
<1>9. EstablishedInv'
  BY <1>0, <1>a, <1>b, OneTop DEF EstablishedInv, Held, Pushed, StackOnly
<1> QED
  BY SMTT(30), <1>2, <1>3, <1>4, <1>5, <1>6, <1>7, <1>8, <1>9

\* The handler takes the input.
LEMMA TakeInputKeeps ==
    ASSUME IInv, TakeInput PROVE IInv' /\ (~StopsAtLimit /\ ReadEdgeInv => ReadEdgeInv')
<1> USE DEF IInv, StreamInv
<1>0. input' = 0 /\ UNCHANGED <<conn, output, chan, sock, stack, queue, written, failed>>
  BY DEF TakeInput, histVars
<1>1. TypeOK' /\ Numbered' /\ FlagsAgree' /\ ClosesDrained'
  BY SMTT(30), <1>0 DEF TypeOK, Numbered, FlagsAgree, ClosesDrained, Excused
<1>2. CleanupInv' /\ WriteEdgeInv' /\ EstablishedInv'
  BY <1>0 DEF CleanupInv, WriteEdgeInv, EstablishedInv, Room
<1>3. ReadEdgeInv => ReadEdgeInv'
  BY SMTT(60), <1>0 DEF ReadEdgeInv, TypeOK
<1> QED
  BY <1>1, <1>2, <1>3

\* Another thread queues a call.
LEMMA DispatchKeeps ==
    ASSUME IInv, Dispatch PROVE IInv' /\ (~StopsAtLimit /\ ReadEdgeInv => ReadEdgeInv')
<1> USE DEF IInv, StreamInv
<1>0. UNCHANGED <<conn, output, input, chan, sock, stack, written, failed>>
  BY DEF Dispatch
<1>1. PICK c \in ForeignCalls : queue' = Append(queue, c)
  BY DEF Dispatch
<1>2. /\ queue' \in Seq(QueuedFrames)
      /\ (\E i \in 1..Len(queue') : queue'[i].at = "cleanup") =>
             \E i \in 1..Len(queue) : queue[i].at = "cleanup"
  BY SMTT(30), <1>1, CallFrames DEF TypeOK
<1>3. TypeOK' /\ Numbered' /\ FlagsAgree' /\ ClosesDrained'
  BY SMTT(30), <1>0, <1>2 DEF TypeOK, Numbered, FlagsAgree, ClosesDrained, Excused
<1>4. CleanupInv'
  BY <1>0, <1>2 DEF CleanupInv
<1>5. WriteEdgeInv' /\ EstablishedInv' /\ (ReadEdgeInv => ReadEdgeInv')
  BY <1>0 DEF WriteEdgeInv, EstablishedInv, ReadEdgeInv, Room
<1> QED
  BY <1>3, <1>4, <1>5

\* The loop, back from its events, runs a queued call.
LEMMA RunQueuedKeeps ==
    ASSUME IInv, RunQueued PROVE IInv' /\ (~StopsAtLimit /\ ReadEdgeInv => ReadEdgeInv')
<1> USE DEF IInv, StreamInv
<1>0. /\ stack = <<>> /\ queue # <<>> /\ queue \in Seq(QueuedFrames)
      /\ UNCHANGED <<conn, output, input, chan, sock, written, failed>>
      /\ stack' = <<Head(queue)>> /\ queue' = Tail(queue)
  BY DEF RunQueued, histVars, TypeOK
<1> DEFINE f == Head(queue)
<1>1. /\ f \in QueuedFrames /\ f \in Frames
      /\ f = queue[1] /\ 1 \in 1..Len(queue)
      /\ queue' \in Seq(QueuedFrames)
      /\ \A i \in 1..Len(queue') : i + 1 \in 1..Len(queue) /\ queue'[i] = queue[i + 1]
  <2>1. f \in QueuedFrames /\ f = queue[1] /\ 1 \in 1..Len(queue)
    BY SMT, <1>0
  <2>2. f \in Frames
    BY <2>1 DEF QueuedFrames, Frames, Labels
  <2> QED
    BY SMTT(60), <1>0, <2>1, <2>2
<1>2. /\ stack' \in Seq(Frames) /\ Alone(stack', f.at)
      /\ \A l : ~Held(stack, l)
  BY <1>0, <1>1, ShortStacks
<1>3. f.at \in QueuedLabels /\ (f.at = "cleanup" => conn.is_closing)
  <2>1. f.at \in QueuedLabels
    BY <1>1 DEF QueuedFrames
  <2> QED
    BY <1>1, <2>1 DEF CleanupInv
<1>4. (\E i \in 1..Len(queue') : queue'[i].at = "cleanup") => conn.is_closing
  BY <1>1 DEF CleanupInv
<1> HIDE DEF f
<1>5. TypeOK'
  BY SMTT(30), <1>0, <1>1, <1>2 DEF TypeOK
<1>10. Numbered'
  BY <1>0 DEF Numbered
<1>6. FlagsAgree' /\ ClosesDrained'
  BY ZenonT(60), <1>0, <1>2, <1>3
     DEF FlagsAgree, ClosesDrained, Excused, Alone, Held, QueuedLabels
<1>7. CleanupInv'
  BY SMTT(30), <1>0, <1>2, <1>3, <1>4 DEF CleanupInv, Alone, Held, Labels, QueuedLabels
<1>8. WriteEdgeInv' /\ (ReadEdgeInv => ReadEdgeInv')
  BY <1>0, <1>2 DEF WriteEdgeInv, ReadEdgeInv, Room
<1>9. EstablishedInv'
  BY <1>0, <1>2, <1>3 DEF EstablishedInv, Alone, Held, QueuedLabels
<1> QED
  BY <1>5, <1>6, <1>7, <1>8, <1>9, <1>10

\* What the peer and the kernel may do: an edge announces whatever gives the loop
\* something to do.
PeerMoves ==
    /\ UNCHANGED <<conn, output, input, chan, stack, queue, written, failed>>
    /\ sock' \in Sockets
    /\ sock'.wire = sock.wire /\ sock'.fin = sock.fin
    /\ sock.reset => sock'.reset
    /\ sock.established => sock'.established
    /\ sock.edge => sock'.edge
    /\ sock'.peer_fin => sock'.established
    /\ sock'.inbox > sock.inbox => sock'.established
    /\ sock'.inbox + sock.sent = sock.inbox + sock'.sent
    /\ sock.sent <= MaxInput => sock'.sent <= MaxInput
    /\ sock.delivered <= sock'.delivered /\ sock'.delivered <= Len(sock.wire)
    /\ sock'.edge \/ /\ sock'.inbox = sock.inbox /\ sock'.peer_fin = sock.peer_fin
                     /\ sock'.reset = sock.reset
                     /\ sock'.delivered = sock.delivered \/ Room # 0

\* Such moves keep the invariant.
LEMMA PeerMovesKeeps ==
    ASSUME IInv, PeerMoves PROVE IInv' /\ (~StopsAtLimit /\ ReadEdgeInv => ReadEdgeInv')
<1> USE DEF IInv, StreamInv
<1> USE DEF PeerMoves
<1>1. TypeOK' /\ Numbered'
  BY SMTT(60) DEF TypeOK, Numbered
<1>2. FlagsAgree' /\ ClosesDrained'
  BY DEF FlagsAgree, ClosesDrained, Excused
<1>3. CleanupInv' /\ EstablishedInv'
  BY DEF CleanupInv, EstablishedInv
<1>4. WriteEdgeInv'
  <2>1. Len(sock.wire) <= sock'.delivered + SendRoom
    <3>1. Len(sock.wire) \in Nat /\ sock.delivered \in Nat /\ sock'.delivered \in Nat
          /\ SendRoom \in Nat
      BY LenProperties, TcpConnectionAssumption DEF TypeOK
    <3> QED
      BY SMTT(30), <3>1 DEF WriteEdgeInv
  <2>2. sock'.delivered = sock.delivered => Room' = Room
    BY DEF Room
  <2> QED
    BY <2>1, <2>2 DEF WriteEdgeInv
<1>5. ReadEdgeInv => ReadEdgeInv'
  <2> SUFFICES ASSUME ReadEdgeInv PROVE ReadEdgeInv'
    OBVIOUS
  <2>1. /\ sock.inbox \in Nat /\ sock'.inbox \in Nat /\ sock.sent \in Nat
        /\ sock'.sent \in Nat /\ input \in Nat
    BY DEF TypeOK
  <2>2. input' + sock'.inbox <= sock'.sent /\ sock'.sent <= MaxInput
    BY SMTT(30), <2>1 DEF ReadEdgeInv
  <2>3. sock'.inbox > 0 => sock'.established
    BY SMT, <2>1 DEF ReadEdgeInv
  <2> QED
    BY <2>2, <2>3 DEF ReadEdgeInv
<1> QED
  BY ZenonT(60), <1>1, <1>2, <1>3, <1>4, <1>5

\* The steps of the peer are such moves.
LEMMA PeerKeeps ==
    ASSUME IInv, Peer PROVE IInv' /\ (~StopsAtLimit /\ ReadEdgeInv => ReadEdgeInv')
<1>0. /\ sock.delivered \in Nat /\ Len(sock.wire) \in Nat
      /\ sock.delivered <= Len(sock.wire) /\ MaxInput \in Nat
      /\ sock.peer_fin => sock.established
      /\ sock.inbox \in Nat /\ sock.sent \in Nat
      /\ sock \in Sockets
  BY LenProperties, TcpConnectionAssumption
     DEF IInv, TypeOK, WriteEdgeInv, EstablishedInv
<1>1. CASE Establish
  <2>1. sock' = [sock EXCEPT !.established = TRUE, !.edge = TRUE]
    BY <1>1 DEF Establish
  <2>2. /\ sock' \in Sockets
        /\ sock'.wire = sock.wire
        /\ sock'.fin = sock.fin
        /\ sock'.reset = sock.reset
        /\ sock'.inbox = sock.inbox
        /\ sock'.sent = sock.sent
        /\ sock'.delivered = sock.delivered
        /\ sock'.established = TRUE
        /\ sock'.peer_fin = sock.peer_fin
        /\ sock'.edge = TRUE
    BY <2>1 DEF IInv, TypeOK
  <2>3. UNCHANGED <<conn, output, input, chan, stack, queue, written, failed>>
    BY <1>1 DEF Establish, PeerVars, histVars
  <2>4. PeerMoves
    BY SMTT(60), <1>0, <2>1, <2>2, <2>3 DEF PeerMoves
  <2> QED
    BY <2>4, PeerMovesKeeps
<1>2. CASE PeerSend
  <2> DEFINE i == sock.inbox + 1
             n == sock.sent + 1
  <2>0. i \in Nat /\ n \in Nat
    BY SMTT(60), <1>0
  <2>1. /\ sock' = [sock EXCEPT !.inbox = i, !.sent = n, !.edge = TRUE]
        /\ sock.established /\ sock.sent < MaxInput
    BY <1>2 DEF PeerSend
  <2> HIDE DEF i, n
  <2>2. /\ sock' \in Sockets
        /\ sock'.wire = sock.wire
        /\ sock'.fin = sock.fin
        /\ sock'.reset = sock.reset
        /\ sock'.inbox = i
        /\ sock'.sent = n
        /\ sock'.delivered = sock.delivered
        /\ sock'.established = sock.established
        /\ sock'.peer_fin = sock.peer_fin
        /\ sock'.edge = TRUE
    BY <2>0, <2>1 DEF IInv, TypeOK
  <2>3. UNCHANGED <<conn, output, input, chan, stack, queue, written, failed>>
    BY <1>2 DEF PeerSend, PeerVars, histVars
  <2>4. PeerMoves
    BY SMTT(60), <1>0, <2>1, <2>2, <2>3 DEF PeerMoves, i, n
  <2> QED
    BY <2>4, PeerMovesKeeps
<1>3. CASE PeerFin
  <2>1. sock' = [sock EXCEPT !.peer_fin = TRUE, !.edge = TRUE] /\ sock.established
    BY <1>3 DEF PeerFin
  <2>2. /\ sock' \in Sockets
        /\ sock'.wire = sock.wire
        /\ sock'.fin = sock.fin
        /\ sock'.reset = sock.reset
        /\ sock'.inbox = sock.inbox
        /\ sock'.sent = sock.sent
        /\ sock'.delivered = sock.delivered
        /\ sock'.established = sock.established
        /\ sock'.peer_fin = TRUE
        /\ sock'.edge = TRUE
    BY <2>1 DEF IInv, TypeOK
  <2>3. UNCHANGED <<conn, output, input, chan, stack, queue, written, failed>>
    BY <1>3 DEF PeerFin, PeerVars, histVars
  <2>4. PeerMoves
    BY SMTT(60), <1>0, <2>1, <2>2, <2>3 DEF PeerMoves
  <2> QED
    BY <2>4, PeerMovesKeeps
<1>4. CASE PeerReset
  <2>1. sock' = [sock EXCEPT !.reset = TRUE, !.edge = TRUE]
    BY <1>4 DEF PeerReset
  <2>2. /\ sock' \in Sockets
        /\ sock'.wire = sock.wire
        /\ sock'.fin = sock.fin
        /\ sock'.reset = TRUE
        /\ sock'.inbox = sock.inbox
        /\ sock'.sent = sock.sent
        /\ sock'.delivered = sock.delivered
        /\ sock'.established = sock.established
        /\ sock'.peer_fin = sock.peer_fin
        /\ sock'.edge = TRUE
    BY <2>1 DEF IInv, TypeOK
  <2>3. UNCHANGED <<conn, output, input, chan, stack, queue, written, failed>>
    BY <1>4 DEF PeerReset, PeerVars, histVars
  <2>4. PeerMoves
    BY SMTT(60), <1>0, <2>1, <2>2, <2>3 DEF PeerMoves
  <2> QED
    BY <2>4, PeerMovesKeeps
<1>5. CASE PeerRead
  <2> DEFINE e == sock.edge \/ Room = 0
             n == sock.delivered + 1
  <2>1. n \in Nat
    BY SMT, <1>0
  <2>2. e \in BOOLEAN /\ (sock.edge => e) /\ (Room = 0 => e)
    OBVIOUS
  <2>3. sock' = [sock EXCEPT !.delivered = n, !.edge = e] /\ sock.delivered < Len(sock.wire)
    BY <1>5 DEF PeerRead
  <2>4. UNCHANGED <<conn, output, input, chan, stack, queue, written, failed>>
    BY <1>5 DEF PeerRead, PeerVars, histVars
  <2> HIDE DEF e, n
  <2>5. /\ sock' \in Sockets
        /\ sock'.wire = sock.wire /\ sock'.fin = sock.fin /\ sock'.reset = sock.reset
        /\ sock'.inbox = sock.inbox /\ sock'.sent = sock.sent
        /\ sock'.established = sock.established /\ sock'.peer_fin = sock.peer_fin
        /\ sock'.edge = e /\ sock'.delivered = n
    BY <2>1, <2>2, <2>3 DEF IInv, TypeOK
  <2>6. PeerMoves
    BY SMTT(30), <1>0, <2>2, <2>3, <2>4, <2>5 DEF PeerMoves, n
  <2> QED
    BY <2>6, PeerMovesKeeps
<1> QED
  BY <1>1, <1>2, <1>3, <1>4, <1>5 DEF Peer

-----------------------------------------------------------------------------
(* The theorems.                                                           *)

\* A new connection satisfies the invariant.
LEMMA InitHolds == ASSUME Init PROVE IInv /\ ReadEdgeInv
<1> DEFINE c == conn.state = "connected"
<1>1. /\ output = <<>> /\ input = 0 /\ stack = <<>> /\ queue = <<>> /\ written = 0
      /\ failed = FALSE
      /\ conn \in Connections
      /\ conn.state \in {"connecting", "connected"} /\ ~conn.is_closing
      /\ ~conn.output_shutdown /\ ~conn.cleanup_done
  BY SMTT(60) DEF Init
<1>2. /\ chan \in Channels
      /\ chan.armed = chan.events /\ "read" \in chan.events
  BY SMTT(30) DEF Init
<1>3. /\ sock = [open |-> TRUE, established |-> c, edge |-> TRUE,
                 wire |-> <<>>, delivered |-> 0, fin |-> FALSE,
                 inbox |-> 0, sent |-> 0, peer_fin |-> FALSE, reset |-> FALSE]
      /\ c \in BOOLEAN
  BY SMT DEF Init
<1>4. conn.state = "connected" => c
  OBVIOUS
<1> HIDE DEF c
<1>5. sock \in Sockets /\ Len(sock.wire) = 0
      /\ <<>> \in Seq(Nat) /\ <<>> \in Seq(Frames) /\ <<>> \in Seq(QueuedFrames)
  BY SMT, <1>3
<1>6. \A l : ~Held(stack, l) /\ ~Top(stack, l) /\ ~Under(stack, l)
  BY ZenonT(30), <1>1, DoIsFrame, ShortStacks DEF Labels, Held
<1>7. TypeOK
  BY <1>1, <1>2, <1>5 DEF TypeOK
<1>8. StreamInv
  BY SMTT(30), <1>1, <1>3, <1>6 DEF StreamInv, Numbered, FlagsAgree, ClosesDrained
<1>9. CleanupInv
  BY SMTT(30), <1>1, <1>6 DEF CleanupInv
<1>10. WriteEdgeInv
  BY SMTT(30), <1>1, <1>2, <1>3, <1>5, TcpConnectionAssumption DEF WriteEdgeInv
<1>11. EstablishedInv
  BY ZenonT(60), <1>1, <1>3, <1>4, <1>6 DEF EstablishedInv
<1>12. ReadEdgeInv
  BY SMTT(30), <1>1, <1>2, <1>3, TcpConnectionAssumption DEF ReadEdgeInv
<1> QED
  BY <1>7, <1>8, <1>9, <1>10, <1>11, <1>12 DEF IInv

\* Every step keeps it.
LEMMA NextKeeps ==
    ASSUME IInv, [Next]_vars PROVE IInv' /\ (~StopsAtLimit /\ ReadEdgeInv => ReadEdgeInv')
<1>1. CASE Write
  BY <1>1, WriteKeeps
<1>2. CASE WriteAndFlush
  BY SMTT(30), <1>2, WriteAndFlushKeeps
<1>3. CASE WriteOwnedAndFlush
  BY <1>3, WriteOwnedAndFlushKeeps
<1>4. CASE WriteRawAndFlush
  BY <1>4, WriteRawAndFlushKeeps
<1>5. CASE Flush
  BY <1>5, FlushKeeps
<1>6. CASE Drained
  BY <1>6, DrainedKeeps
<1>7. CASE ShutdownWrite
  BY <1>7, ShutdownWriteKeeps
<1>8. CASE Close
  BY <1>8, CloseKeeps
<1>9. CASE Abort
  BY <1>9, AbortKeeps
<1>10. CASE DoClose
  BY <1>10, DoCloseKeeps
<1>11. CASE Closed
  BY <1>11, ClosedKeeps
<1>12. CASE Cleanup
  BY <1>12, CleanupKeeps
<1>13. CASE OnReadEvent
  BY <1>13, OnReadEventKeeps
<1>14. CASE OnWriteEvent
  BY <1>14, OnWriteEventKeeps
<1>15. CASE Read
  BY <1>15, ReadKeeps
<1>16. CASE Readable
  BY <1>16, ReadableKeeps
<1>17. CASE PeerClosed
  BY <1>17, PeerClosedKeeps
<1>18. CASE AfterShutdown
  BY <1>18, AfterShutdownKeeps
<1>19. CASE Ready
  BY <1>19, ReadyKeeps
<1>20. CASE Flushed
  BY <1>20, FlushedKeeps
<1>21. CASE Notified
  BY <1>21, NotifiedKeeps
<1>22. CASE Written
  BY <1>22, WrittenKeeps
<1>23. CASE UserReturns
  BY <1>23, UserReturnsKeeps
<1>24. CASE UserCalls
  BY <1>24, UserCallsKeeps
<1>25. CASE TakeInput
  BY <1>25, TakeInputKeeps
<1>26. CASE OnEvent
  BY <1>26, OnEventKeeps
<1>27. CASE RunQueued
  BY <1>27, RunQueuedKeeps
<1>28. CASE Dispatch
  BY <1>28, DispatchKeeps
<1>29. CASE Peer
  BY <1>29, PeerKeeps
<1>30. CASE UNCHANGED vars
  <2>1. UNCHANGED <<conn, output, input, chan, sock, stack, queue, written, failed>>
    BY ZenonT(60), <1>30 DEF vars, histVars
  <2>2. TypeOK' /\ StreamInv'
    BY SMTT(30), <2>1
       DEF IInv, TypeOK, StreamInv, Numbered, FlagsAgree, ClosesDrained, Excused
  <2>3. CleanupInv' /\ WriteEdgeInv' /\ EstablishedInv' /\ (ReadEdgeInv => ReadEdgeInv')
    BY <2>1
       DEF IInv, CleanupInv, WriteEdgeInv, EstablishedInv, ReadEdgeInv, Room
  <2> QED
    BY <2>2, <2>3 DEF IInv
<1> QED
  BY ZenonT(60), <1>1, <1>2, <1>3, <1>4, <1>5, <1>6, <1>7, <1>8, <1>9, <1>10, <1>11,
     <1>12, <1>13, <1>14, <1>15, <1>16, <1>17, <1>18, <1>19, <1>20, <1>21, <1>22,
     <1>23, <1>24, <1>25, <1>26, <1>27, <1>28, <1>29, <1>30 DEF Next, Methods

\* The invariant holds whatever the peer, the user code and other threads do.
LEMMA Invariant == Spec => []IInv
<1>1. Init => IInv
  BY InitHolds
<1>2. IInv /\ [Next]_vars => IInv'
  BY NextKeeps
<1> QED
  BY <1>1, <1>2, PTL DEF Spec

\* A sequence of numbers is known by its length and its entries.
LEMMA Counting ==
    ASSUME NEW s \in Seq(Nat), \A i \in 1..Len(s) : s[i] = i
    PROVE  s = [i \in 1..Len(s) |-> i]
<1>1. s = [i \in 1..Len(s) |-> s[i]]
  BY SMT
<1> QED
  BY <1>1

\* The bytes on the wire, followed by those of output_buffer_, are the bytes that
\* the write methods accepted, in order, each once; a close() that met no failure
\* has sent all of them.  For every buffer size, limit and number of calls.
THEOREM StreamStaysInOrder == Spec => []StreamInOrder
<1>1. ASSUME IInv PROVE StreamInOrder
  <2> USE DEF IInv, StreamInv
  <2>0. sock.wire \in Seq(Nat) /\ output \in Seq(Nat) /\ written \in Nat
    BY <1>1 DEF TypeOK
  <2>1. sock.wire = [i \in 1..Len(sock.wire) |-> i]
    BY <1>1, <2>0, Counting DEF Numbered
  <2>2. ~conn.is_closing => sock.wire \o output = [i \in 1..written |-> i]
    <3> SUFFICES ASSUME ~conn.is_closing PROVE sock.wire \o output = [i \in 1..written |-> i]
      OBVIOUS
    <3> DEFINE u == sock.wire v == output
    <3>1. /\ u \in Seq(Nat) /\ v \in Seq(Nat) /\ Len(u) + Len(v) = written
          /\ \A i \in 1..Len(u) : u[i] = i
          /\ \A i \in 1..Len(v) : v[i] = Len(u) + i
      BY <1>1, <2>0 DEF Numbered
    <3> HIDE DEF u, v
    <3>2. u \o v \in Seq(Nat) /\ Len(u \o v) = written
      BY SMT, <3>1
    <3>3. \A i \in 1..Len(u \o v) : (u \o v)[i] = i
      BY SMTT(60), <3>1
    <3>4. u \o v = [i \in 1..written |-> i]
      BY <3>2, <3>3, Counting
    <3> QED
      BY <3>4 DEF u, v
  <2>3. conn.state = "closed" /\ ~failed /\ ~sock.reset => Len(sock.wire) = written
    BY <1>1 DEF Numbered, FlagsAgree
  <2> QED
    BY <2>1, <2>2, <2>3 DEF StreamInOrder
<1> QED
  BY <1>1, Invariant, PTL

\* After do_close()'s callback nothing registers the channel again, whatever calls
\* were on the stack or in the queue.
THEOREM ClosedStaysUnregistered == Spec => []ClosedIsUnregistered
<1>1. IInv => ClosedIsUnregistered
  BY DEF IInv, CleanupInv, ClosedIsUnregistered
<1> QED
  BY <1>1, Invariant, PTL

\* The half of EdgesBringBack about output, which holds whatever the peer sends.
OutputEdges ==
    stack = <<>> /\ output # <<>> /\ ~conn.is_closing =>
        "write" \in chan.armed /\ (sock.edge \/ (Room = 0 /\ ~sock.reset))

\* The loop never goes back to the poller with output that no edge will bring it back
\* to: whatever path queued it, write interest is registered, and the socket is full
\* or its edge is still to be reported.
THEOREM OutputIsBroughtBack == Spec => []OutputEdges
<1>1. ASSUME IInv PROVE OutputEdges
  <2>1. stack = <<>> => \A l : ~Held(stack, l)
    BY DoIsFrame, ShortStacks DEF Labels
  <2> QED
    BY <1>1, <2>1 DEF IInv, WriteEdgeInv, OutputEdges
<1> QED
  BY <1>1, Invariant, PTL

\* The same for input, whatever the peer sends and however large the buffers are:
\* unread bytes and an unseen end of stream still have their edge coming, as long as
\* no read has stopped at a full buffer.  That is the one step of the program that can
\* lose the edge: on_read_event() then returns without having met EAGAIN.
THEOREM EdgesAlwaysBringBack == Spec /\ [][~StopsAtLimit]_vars => []EdgesBringBack
<1>1. Init => IInv /\ ReadEdgeInv
  BY InitHolds
<1>2. IInv /\ ReadEdgeInv /\ [Next]_vars /\ [~StopsAtLimit]_vars => (IInv /\ ReadEdgeInv)'
  <2>1. CASE ~StopsAtLimit
    BY <2>1, NextKeeps
  <2>2. ASSUME IInv, ReadEdgeInv, UNCHANGED vars PROVE (IInv /\ ReadEdgeInv)'
    <3>1. UNCHANGED <<conn, output, input, chan, sock, stack, queue, written, failed>>
      BY ZenonT(60), <2>2 DEF vars, histVars
    <3>2. ReadEdgeInv'
      BY <2>2, <3>1 DEF ReadEdgeInv
    <3> QED
      BY <2>2, <3>2, NextKeeps
  <2> QED
    BY <2>1, <2>2
<1>3. ASSUME IInv, ReadEdgeInv PROVE EdgesBringBack
  <2>1. stack = <<>> => \A l : ~Held(stack, l)
    BY DoIsFrame, ShortStacks DEF Labels
  <2>2. stack = <<>> /\ output # <<>> /\ ~conn.is_closing =>
            "write" \in chan.armed /\ (sock.edge \/ (Room = 0 /\ ~sock.reset))
    BY <1>3, <2>1 DEF IInv, WriteEdgeInv
  <2>3. /\ stack = <<>> /\ conn.state = "connected" /\ ~conn.input_shutdown
        /\ sock.inbox > 0 \/ sock.peer_fin
        => "read" \in chan.armed /\ sock.edge
    BY <1>3, <2>1 DEF IInv, StreamInv, FlagsAgree, WriteEdgeInv, ReadEdgeInv
  <2> QED
    BY <2>2, <2>3 DEF EdgesBringBack
<1> QED
  BY <1>1, <1>2, <1>3, PTL DEF Spec

\* The steps that send no FIN: all but finish_output_drained() and shutdown_write().
LEMMA NoFin ==
    ASSUME IInv, Next, ~Drained, ~ShutdownWrite PROVE sock'.fin = sock.fin
<1>0. \A b : Sent(b).fin = sock.fin /\ Rearmed(Sent(b)).fin = sock.fin
             /\ Rearmed(sock).fin = sock.fin
  BY DEF IInv, TypeOK, Sent, Rearmed
<1>1. CASE Write \/ WriteAndFlush \/ WriteOwnedAndFlush
  BY <1>0, <1>1
     DEF Write, WriteAndFlush, WriteOwnedAndFlush, Enqueue, Drop, Overflow, DirectSend
<1>2. CASE WriteRawAndFlush \/ Flush
  BY <1>0, <1>2 DEF WriteRawAndFlush, Flush, Drop, Overflow, DirectSend
<1>3. CASE Close \/ PeerClosed
  BY <1>0, <1>3 DEF Close, PeerClosed, Drop
<1>4. CASE Cleanup \/ OnEvent
  BY SMTT(60), <1>4 DEF Cleanup, OnEvent, IInv, TypeOK
<1>5. CASE Read
  BY <1>5 DEF Read, Rearmed, IInv, TypeOK
<1>6. CASE Peer
  BY ZenonT(30), <1>6
     DEF Peer, Establish, PeerSend, PeerFin, PeerReset, PeerRead, IInv, TypeOK
<1>7. CASE OnReadEvent \/ OnWriteEvent
  BY <1>7 DEF OnReadEvent, OnWriteEvent, Connecting, Drop
<1>8. CASE \/ Readable \/ AfterShutdown \/ Ready \/ Flushed \/ Notified \/ Written
           \/ UserReturns \/ Closed \/ Abort \/ DoClose
  BY <1>8 DEF Readable, AfterShutdown, Ready, Flushed, Notified, Written, UserReturns,
              Closed, Abort, DoClose
<1>9. CASE UserCalls \/ TakeInput \/ RunQueued \/ Dispatch
  BY <1>9 DEF UserCalls, TakeInput, RunQueued, Dispatch
<1> QED
  BY ZenonT(60), <1>1, <1>2, <1>3, <1>4, <1>5, <1>6, <1>7, <1>8, <1>9 DEF Next, Methods

\* The FIN goes out behind every byte accepted before it, whether shutdown_write()
\* sends it at once or finish_output_drained() after the last flush.
THEOREM FinAlwaysFollowsOutput == Spec => FinFollowsOutput
<1>1. ASSUME IInv, [Next]_vars
      PROVE  [~sock.fin /\ sock'.fin => output = <<>> /\ Len(sock.wire) = written]_vars
  <2> SUFFICES ASSUME Next, ~sock.fin, sock'.fin PROVE output = <<>> /\ Len(sock.wire) = written
    BY <1>1
  <2>1. output = <<>> /\ ~conn.is_closing
    <3>1. CASE Drained
      <4>1. output = <<>>
        BY <1>1, <3>1 DEF Drained, At, Top, IInv, StreamInv, ClosesDrained
      <4>2. ~conn.output_shutdown
        BY ZenonT(60), <1>1, <3>1 DEF Drained, Rearmed, IInv, TypeOK
      <4> QED
        BY <1>1, <4>1, <4>2 DEF IInv, StreamInv, FlagsAgree
    <3>2. CASE ShutdownWrite
      <4>1. output = <<>> /\ ~conn.output_shutdown
        BY ZenonT(60), <1>1, <3>2
           DEF ShutdownWrite, OutputPending, Drop, Rearmed, IInv, TypeOK
      <4> QED
        BY <1>1, <4>1 DEF IInv, StreamInv, FlagsAgree
    <3> QED
      BY <1>1, <3>1, <3>2, NoFin
  <2>2. Len(sock.wire) + Len(output) = written /\ sock.wire \in Seq(Nat)
    BY <1>1, <2>1 DEF IInv, StreamInv, Numbered, TypeOK
  <2>3. Len(output) = 0 /\ Len(sock.wire) \in Nat
    BY <2>1, <2>2, LenProperties
  <2> QED
    BY SMTT(60), <2>1, <2>2, <2>3
<1> QED
  BY <1>1, Invariant, PTL DEF Spec, FinFollowsOutput
=============================================================================
