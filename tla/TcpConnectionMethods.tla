------------------------- MODULE TcpConnectionMethods -------------------------
(***************************************************************************)
(* The inductive invariant of TcpConnection, the steps that every method   *)
(* is made of (calling and returning, doing nothing, failing and queueing  *)
(* bytes), and the methods, from write() to the callback of do_close(),    *)
(* which keep the invariant.  The stack is reasoned about by the labels of *)
(* its frames: what is on top, and what is under it.                       *)
(***************************************************************************)
EXTENDS TcpConnection, SequenceTheorems, TLAPS

USE Zenon

QueuedLabels ==
    {"write", "write_owned_and_flush", "write_raw_and_flush", "close", "flush",
     "shutdown_write", "cleanup"}

Labels ==
    QueuedLabels \cup
    {"write_and_flush", "abort", "user", "do_close", "closed", "drained",
     "on_read_event", "on_write_event", "read", "readable", "peer_closed",
     "after_shutdown", "ready", "flushed", "notified", "written"}

Frames == [at : Labels, arg : Nat]
QueuedFrames == [at : QueuedLabels, arg : Nat]

-----------------------------------------------------------------------------
(* The stack, by the labels of its frames.                                 *)

Top(s, l) == s # <<>> /\ Head(s).at = l
Under(s, l) == \E i \in 2..Len(s) : s[i].at = l
Held(s, l) == Top(s, l) \/ Under(s, l)

Popped(s, t) ==
    \A l : /\ Top(t, l) => Under(s, l)
           /\ Under(t, l) => Under(s, l)
           /\ Under(s, l) => Held(t, l)
Swapped(s, t, a) ==
    \A l : /\ Top(t, l) <=> l = a
           /\ Under(t, l) <=> Under(s, l)
Swapped2(s, t, a, b) ==
    \A l : /\ Top(t, l) <=> l = a
           /\ Under(t, l) <=> (l = b \/ Under(s, l))
Swapped3(s, t, a, b, c) ==
    \A l : /\ Top(t, l) <=> l = a
           /\ Under(t, l) <=> (l \in {b, c} \/ Under(s, l))
Pushed(s, t, a) ==
    \A l : /\ Top(t, l) <=> l = a
           /\ Under(t, l) <=> Held(s, l)

\* A frame returns: what was under it is what the stack holds.
LEMMA Pop ==
    ASSUME NEW s \in Seq(Frames), s # <<>>, NEW t, t = <<>> \o Tail(s)
    PROVE  t \in Seq(Frames) /\ Popped(s, t)
<1>1. /\ t \in Seq(Frames)
      /\ Len(t) = Len(s) - 1
      /\ \A i \in 1..Len(t) : t[i] = s[i + 1]
      /\ t # <<>> => Head(t) = t[1] /\ Len(t) >= 1
  BY SMT
<1>2. \A l : Top(t, l) => Under(s, l)
  BY SMT, <1>1 DEF Top, Under
<1>3. \A l : Under(t, l) => Under(s, l)
  BY SMT, <1>1 DEF Under
<1>4. ASSUME NEW l, Under(s, l) PROVE Held(t, l)
  <2>1. PICK i \in 2..Len(s) : s[i].at = l
    BY <1>4 DEF Under
  <2>2. t[i - 1].at = l /\ i - 1 \in 1..Len(t)
    BY SMT, <2>1, <1>1
  <2>3. CASE i = 2
    <3>1. t # <<>> /\ Head(t).at = l
      BY SMTT(30), <2>2, <2>3, <1>1
    <3> QED
      BY <3>1 DEF Held, Top
  <2>4. CASE i # 2
    <3>1. i - 1 \in 2..Len(t)
      BY SMT, <2>2, <2>4
    <3> QED
      BY <2>2, <3>1 DEF Held, Under
  <2> QED
    BY <2>3, <2>4
<1> QED
  BY <1>1, <1>2, <1>3, <1>4 DEF Popped

\* A frame goes on as another frame, as two, or as three: the frames under it stay.
LEMMA Swap ==
    ASSUME NEW s \in Seq(Frames), s # <<>>, NEW f \in Frames, NEW t, t = <<f>> \o Tail(s)
    PROVE  t \in Seq(Frames) /\ Swapped(s, t, f.at)
<1>1. /\ t \in Seq(Frames) /\ t # <<>>
      /\ Len(t) = Len(s) /\ Head(t) = f
      /\ \A i \in 2..Len(t) : t[i] = s[i]
  BY SMT
<1> QED
  BY <1>1 DEF Swapped, Top, Under

\* The same with two frames.
LEMMA Swap2 ==
    ASSUME NEW s \in Seq(Frames), s # <<>>, NEW f \in Frames, NEW g \in Frames,
           NEW t, t = <<f, g>> \o Tail(s)
    PROVE  t \in Seq(Frames) /\ Swapped2(s, t, f.at, g.at)
<1>1. /\ t \in Seq(Frames) /\ t # <<>>
      /\ Len(t) = Len(s) + 1 /\ Head(t) = f /\ t[2] = g
      /\ \A i \in 3..Len(t) : t[i] = s[i - 1]
      /\ \A i \in 2..Len(s) : t[i + 1] = s[i] /\ i + 1 \in 3..Len(t)
      /\ Len(t) >= 2
  BY SMT
<1>2. \A l : Under(t, l) <=> l = g.at \/ Under(s, l)
  <2>1. ASSUME NEW l, Under(t, l) PROVE l = g.at \/ Under(s, l)
    BY SMT, <1>1, <2>1 DEF Under
  <2>2. ASSUME NEW l, l = g.at PROVE Under(t, l)
    BY SMT, <1>1, <2>2 DEF Under
  <2>3. ASSUME NEW l, Under(s, l) PROVE Under(t, l)
    <3>1. PICK i \in 2..Len(s) : s[i].at = l
      BY <2>3 DEF Under
    <3>2. i + 1 \in 2..Len(t) /\ t[i + 1] = s[i]
      BY SMT, <1>1
    <3> QED
      BY <3>1, <3>2 DEF Under
  <2> QED
    BY <2>1, <2>2, <2>3
<1> QED
  BY <1>1, <1>2 DEF Swapped2, Top

\* The same with three frames.
LEMMA Swap3 ==
    ASSUME NEW s \in Seq(Frames), s # <<>>, NEW f \in Frames, NEW g \in Frames,
           NEW h \in Frames, NEW t, t = <<f, g, h>> \o Tail(s)
    PROVE  t \in Seq(Frames) /\ Swapped3(s, t, f.at, g.at, h.at)
<1>1. /\ t \in Seq(Frames) /\ t # <<>>
      /\ Len(t) = Len(s) + 2 /\ Head(t) = f /\ t[2] = g /\ t[3] = h
      /\ \A i \in 4..Len(t) : t[i] = s[i - 2]
      /\ \A i \in 2..Len(s) : t[i + 2] = s[i] /\ i + 2 \in 4..Len(t)
      /\ Len(t) >= 3
  BY SMT
<1>2. \A l : Under(t, l) <=> l \in {g.at, h.at} \/ Under(s, l)
  <2>1. ASSUME NEW l, Under(t, l) PROVE l \in {g.at, h.at} \/ Under(s, l)
    BY SMT, <1>1, <2>1 DEF Under
  <2>2. ASSUME NEW l, l \in {g.at, h.at} PROVE Under(t, l)
    BY SMT, <1>1, <2>2 DEF Under
  <2>3. ASSUME NEW l, Under(s, l) PROVE Under(t, l)
    <3>1. PICK i \in 2..Len(s) : s[i].at = l
      BY <2>3 DEF Under
    <3>2. i + 2 \in 2..Len(t) /\ t[i + 2] = s[i]
      BY SMT, <1>1
    <3> QED
      BY <3>1, <3>2 DEF Under
  <2> QED
    BY <2>1, <2>2, <2>3
<1> QED
  BY <1>1, <1>2 DEF Swapped3, Top

\* User code calls a method: the whole stack is under the new frame.
LEMMA Push ==
    ASSUME NEW s \in Seq(Frames), NEW f \in Frames, NEW t, t = <<f>> \o s
    PROVE  t \in Seq(Frames) /\ Pushed(s, t, f.at)
<1>1. /\ t \in Seq(Frames) /\ t # <<>>
      /\ Len(t) = Len(s) + 1 /\ Head(t) = f
      /\ \A i \in 2..Len(t) : t[i] = s[i - 1]
      /\ \A i \in 1..Len(s) : t[i + 1] = s[i] /\ i + 1 \in 2..Len(t)
      /\ s # <<>> => Head(s) = s[1] /\ Len(s) >= 1
      /\ s = <<>> => Len(s) = 0
  BY SMT
<1>2. \A l : Under(t, l) <=> Held(s, l)
  <2>1. ASSUME NEW l, Under(t, l) PROVE Held(s, l)
    BY SMT, <1>1, <2>1 DEF Held, Under, Top
  <2>2. ASSUME NEW l, Held(s, l) PROVE Under(t, l)
    BY SMT, <1>1, <2>2 DEF Held, Under, Top
  <2> QED
    BY <2>1, <2>2
<1> QED
  BY <1>1, <1>2 DEF Pushed, Top

-----------------------------------------------------------------------------
(* The inductive invariant.                                                *)

Connections ==
    [state : {"connecting", "connected", "closing", "closed"}, is_closing : BOOLEAN,
     input_shutdown : BOOLEAN, output_shutdown : BOOLEAN, pending_shutdown : BOOLEAN,
     cleanup_done : BOOLEAN]

Channels == [events : SUBSET {"read", "write"}, armed : SUBSET {"read", "write"}]

Sockets ==
    [open : BOOLEAN, established : BOOLEAN, edge : BOOLEAN, wire : Seq(Nat),
     delivered : Nat, fin : BOOLEAN, inbox : Nat, sent : Nat, peer_fin : BOOLEAN,
     reset : BOOLEAN]

TypeOK ==
    /\ conn \in Connections
    /\ chan \in Channels
    /\ sock \in Sockets
    /\ output \in Seq(Nat)
    /\ input \in Nat
    /\ stack \in Seq(Frames)
    /\ queue \in Seq(QueuedFrames)
    /\ written \in Nat
    /\ failed \in BOOLEAN

USE DEF Connections, Channels, Sockets

\* What may have cost bytes that a write method had accepted.
Excused == conn.is_closing \/ failed \/ sock.reset

\* The wire holds the bytes 1, 2, ... and the output buffer those that follow.
Numbered ==
    /\ \A i \in 1..Len(sock.wire) : sock.wire[i] = i
    /\ \A i \in 1..Len(output) : output[i] = Len(sock.wire) + i
    /\ ~conn.is_closing => Len(sock.wire) + Len(output) = written
    /\ conn.is_closing /\ ~failed /\ ~sock.reset => Len(sock.wire) = written

\* The flags of the connection against its state and the output.
FlagsAgree ==
    /\ conn.is_closing <=> conn.state = "closed"
    /\ conn.is_closing => output = <<>> /\ conn.output_shutdown
    /\ conn.state = "connecting" => output = <<>>
    /\ conn.output_shutdown /\ ~conn.is_closing =>
          /\ sock.fin
          /\ output # <<>> => failed \/ Top(stack, "flush")

\* finish_output_drained() and a do_close() without an excuse run at once, with
\* nothing left to send.
ClosesDrained ==
    /\ ~Under(stack, "drained")
    /\ Top(stack, "drained") => output = <<>>
    /\ Under(stack, "do_close") => Excused
    /\ Top(stack, "do_close") => Excused \/ output = <<>>

StreamInv == Numbered /\ FlagsAgree /\ ClosesDrained

\* The callback of do_close() is queued after is_closing_ is set and runs alone;
\* from then on only queued calls run, one at a time.
CleanupInv ==
    /\ Held(stack, "closed") => conn.is_closing
    /\ (\E i \in 1..Len(queue) : queue[i].at = "cleanup") => conn.is_closing
    /\ Held(stack, "cleanup") => conn.is_closing /\ \A l \in Labels : ~Under(stack, l)
    /\ conn.cleanup_done =>
          /\ conn.is_closing
          /\ chan.armed = {}
          /\ \A l \in Labels : ~Under(stack, l)
          /\ \A l \in Labels : Top(stack, l) => l \in QueuedLabels

\* Pending output has an edge coming or a method on the stack that sends it.
WriteEdgeInv ==
    /\ ~conn.is_closing => chan.armed = chan.events
    /\ sock.delivered <= Len(sock.wire)
    /\ Len(sock.wire) <= sock.delivered + SendRoom
    /\ output # <<>> /\ ~conn.is_closing =>
          /\ "write" \in chan.events
          /\ \/ sock.edge
             \/ Room = 0 /\ ~sock.reset
             \/ Held(stack, "on_write_event") \/ Held(stack, "ready")
             \/ Held(stack, "flush") \/ Held(stack, "do_close")

\* The socket is connected before an event is handled and before anything is queued.
EstablishedInv ==
    /\ sock.peer_fin => sock.established
    /\ \/ conn.state = "connected" \/ output # <<>>
       \/ Held(stack, "on_read_event") \/ Held(stack, "on_write_event")
       => sock.established \/ sock.reset

\* Input that has not been read has an edge coming or a method that reads it.
ReadEdgeInv ==
    /\ sock.inbox > 0 => sock.established
    /\ input + sock.inbox <= sock.sent
    /\ sock.sent <= MaxInput
    /\ conn.state \in {"connecting", "connected"} /\ ~conn.input_shutdown =>
          /\ "read" \in chan.events
          /\ sock.inbox > 0 \/ sock.peer_fin =>
                \/ sock.edge
                \/ Held(stack, "on_read_event") \/ Held(stack, "read")
                \/ Held(stack, "peer_closed") \/ Held(stack, "close")
IInv == TypeOK /\ StreamInv /\ CleanupInv /\ WriteEdgeInv /\ EstablishedInv

\* The read at hand ends because the input buffer is full, before the socket is empty:
\* on_read_event() then returns without the EAGAIN upon which read interest is renewed.
StopsAtLimit == At("read") /\ ReadEnds = "full"

StackOnly == UNCHANGED <<conn, output, input, chan, sock, queue, written, failed>>

\* Do() makes frames.
LEMMA DoIsFrame == ASSUME NEW l \in Labels PROVE Do(l) \in Frames /\ Do(l).at = l
BY DEF Do, Frame, Frames

\* A stack has one top.
LEMMA OneTop == ASSUME NEW s, NEW l, NEW m, Top(s, l), Top(s, m) PROVE l = m
BY DEF Top

\* Frames put together one by one are a sequence of frames.
LEMMA PairOf ==
    ASSUME NEW f \in Frames, NEW g \in Frames
    PROVE  <<f>> \o <<g>> = <<f, g>> /\ <<>> \o <<g>> = <<g>>
<1>1. <<f>> \o <<g>> \in Seq(Frames) /\ <<f, g>> \in Seq(Frames)
  BY SMT
<1>2. Len(<<f>> \o <<g>>) = 2 /\ Len(<<f, g>>) = 2
  BY SMT
<1>3. \A i \in 1..2 : (<<f>> \o <<g>>)[i] = <<f, g>>[i]
  BY SMT
<1>4. <<f>> \o <<g>> = <<f, g>>
  BY <1>1, <1>2, <1>3, SeqEqual
<1> QED
  BY SMT, <1>4

\* The same with three frames, of which some may be left out.
LEMMA TripleOf ==
    ASSUME NEW f \in Frames, NEW g \in Frames, NEW h \in Frames
    PROVE  /\ (<<f>> \o <<g>>) \o <<h>> = <<f, g, h>>
           /\ (<<f>> \o <<>>) \o <<h>> = <<f, h>>
           /\ (<<>> \o <<g>>) \o <<h>> = <<g, h>>
           /\ (<<>> \o <<>>) \o <<h>> = <<h>>
           /\ (<<>> \o <<g>>) \o <<>> = <<g>>
<1>1. /\ <<f, g>> \o <<h>> \in Seq(Frames) /\ <<f, g, h>> \in Seq(Frames)
  BY SMT
<1>2. Len(<<f, g>> \o <<h>>) = 3 /\ Len(<<f, g, h>>) = 3
  BY SMT
<1>3. \A i \in 1..3 : (<<f, g>> \o <<h>>)[i] = <<f, g, h>>[i]
  BY SMT
<1>4. <<f, g>> \o <<h>> = <<f, g, h>>
  BY <1>1, <1>2, <1>3, SeqEqual
<1>5. <<f>> \o <<g>> = <<f, g>> /\ <<f>> \o <<h>> = <<f, h>> /\ <<g>> \o <<h>> = <<g, h>>
      /\ <<>> \o <<g>> = <<g>> /\ <<>> \o <<h>> = <<h>>
  BY PairOf
<1>6. <<f>> \o <<>> = <<f>> /\ <<g>> \o <<>> = <<g>> /\ <<>> \o <<>> = <<>>
  BY SMT
<1> QED
  BY <1>4, <1>5, <1>6

\* Continue() with one frame, in the two ways the actions write it.
LEMMA SwapDo ==
    ASSUME NEW s \in Seq(Frames), s # <<>>, NEW a \in Labels,
           NEW t, t = <<Do(a)>> \o Tail(s) \/ t = (<<>> \o <<Do(a)>>) \o Tail(s)
    PROVE  t \in Seq(Frames) /\ Swapped(s, t, a)
<1>1. Do(a) \in Frames /\ Do(a).at = a
  BY DoIsFrame
<1>2. t = <<Do(a)>> \o Tail(s)
  BY <1>1, PairOf
<1> QED
  BY <1>1, <1>2, Swap

\* Continue() with two frames.
LEMMA SwapDo2 ==
    ASSUME NEW s \in Seq(Frames), s # <<>>, NEW a \in Labels, NEW b \in Labels,
           NEW t, t = <<Do(a), Do(b)>> \o Tail(s) \/ t = (<<Do(a)>> \o <<Do(b)>>) \o Tail(s)
    PROVE  t \in Seq(Frames) /\ Swapped2(s, t, a, b)
<1>1. Do(a) \in Frames /\ Do(b) \in Frames /\ Do(a).at = a /\ Do(b).at = b
  BY DoIsFrame
<1>2. t = <<Do(a), Do(b)>> \o Tail(s)
  BY <1>1, PairOf
<1> QED
  BY <1>1, <1>2, Swap2

\* Below, one lemma for each method: it keeps the invariant, and the part on input
\* unless a read stops at the limit.  First the steps that only move the stack.  The notification of input:
LEMMA ReadableKeeps ==
    ASSUME IInv, Readable PROVE IInv' /\ (~StopsAtLimit /\ ReadEdgeInv => ReadEdgeInv')
<1> USE DEF IInv, StreamInv
<1>0. /\ stack \in Seq(Frames) /\ stack # <<>> /\ Top(stack, "readable")
      /\ StackOnly
  BY DEF TypeOK, Readable, At, Top, StackOnly, histVars
<1>1. /\ stack' \in Seq(Frames)
      /\ \/ Swapped(stack, stack', "user") /\ (conn.state = "connected")
         \/ Popped(stack, stack') /\ (conn.state # "connected")
  <2>1. CASE conn.state = "connected"
    BY <1>0, <2>1, SwapDo
       DEF Readable, Continue, Notify, Labels, QueuedLabels
  <2>2. CASE conn.state # "connected"
    BY <1>0, <2>2, Pop DEF Readable, Continue, Notify, Labels, QueuedLabels
  <2> QED
    BY <2>1, <2>2
<1>2. TypeOK'
  BY SMT, <1>0, <1>1 DEF TypeOK, StackOnly
<1>3. Numbered'
  BY <1>0 DEF Numbered, StackOnly
<1>4. FlagsAgree'
  BY <1>0, <1>1, OneTop DEF FlagsAgree, StackOnly, Popped, Swapped
<1>5. ClosesDrained'
  BY <1>0, <1>1, OneTop DEF ClosesDrained, StackOnly, Excused, Popped, Swapped
<1>6. CleanupInv'
  BY <1>0, <1>1, OneTop
     DEF CleanupInv, StackOnly, Held, Labels, QueuedLabels, Popped, Swapped
<1>7. WriteEdgeInv'
  BY <1>0, <1>1, OneTop DEF WriteEdgeInv, StackOnly, Held, Room, Popped, Swapped
<1>8. ReadEdgeInv => ReadEdgeInv'
  BY <1>0, <1>1, OneTop DEF ReadEdgeInv, StackOnly, Held, Popped, Swapped
<1>9. EstablishedInv'
  BY <1>0, <1>1, OneTop DEF EstablishedInv, StackOnly, Held, Popped, Swapped
<1> QED
  BY <1>2, <1>3, <1>4, <1>5, <1>6, <1>7, <1>8, <1>9

\* What the handling of an end of stream does after its notification closes only a
\* connection with nothing left to send.
LEMMA AfterShutdownKeeps ==
    ASSUME IInv, AfterShutdown PROVE IInv' /\ (~StopsAtLimit /\ ReadEdgeInv => ReadEdgeInv')
<1> USE DEF IInv, StreamInv
<1>0. /\ stack \in Seq(Frames) /\ stack # <<>> /\ Top(stack, "after_shutdown")
      /\ StackOnly
  BY DEF TypeOK, AfterShutdown, At, Top, StackOnly, histVars
<1>1. /\ stack' \in Seq(Frames)
      /\ \/ Swapped(stack, stack', "do_close") /\ (ClosesOnEof)
         \/ Popped(stack, stack') /\ (~ClosesOnEof)
  <2>1. CASE ClosesOnEof
    BY <1>0, <2>1, SwapDo
       DEF AfterShutdown, Continue, Notify, Labels, QueuedLabels
  <2>2. CASE ~ClosesOnEof
    BY <1>0, <2>2, Pop
       DEF AfterShutdown, Continue, Notify, Labels, QueuedLabels
  <2> QED
    BY <2>1, <2>2
<1>2. TypeOK'
  BY SMT, <1>0, <1>1 DEF TypeOK, StackOnly
<1>3. Numbered'
  BY <1>0 DEF Numbered, StackOnly
<1>4. FlagsAgree'
  BY <1>0, <1>1, OneTop DEF FlagsAgree, StackOnly, Popped, Swapped
<1>5. ClosesDrained'
  BY <1>0, <1>1, OneTop
     DEF ClosesDrained, StackOnly, Excused, Popped, Swapped, ClosesOnEof, FlagsAgree
<1>6. CleanupInv'
  BY <1>0, <1>1, OneTop
     DEF CleanupInv, StackOnly, Held, Labels, QueuedLabels, Popped, Swapped
<1>7. WriteEdgeInv'
  BY <1>0, <1>1, OneTop DEF WriteEdgeInv, StackOnly, Held, Room, Popped, Swapped
<1>8. ReadEdgeInv => ReadEdgeInv'
  BY <1>0, <1>1, OneTop DEF ReadEdgeInv, StackOnly, Held, Popped, Swapped
<1>9. EstablishedInv'
  BY <1>0, <1>1, OneTop DEF EstablishedInv, StackOnly, Held, Popped, Swapped
<1> QED
  BY <1>2, <1>3, <1>4, <1>5, <1>6, <1>7, <1>8, <1>9

\* on_write_event() hands pending output to flush().
LEMMA ReadyKeeps ==
    ASSUME IInv, Ready PROVE IInv' /\ (~StopsAtLimit /\ ReadEdgeInv => ReadEdgeInv')
<1> USE DEF IInv, StreamInv
<1>0. /\ stack \in Seq(Frames) /\ stack # <<>> /\ Top(stack, "ready")
      /\ StackOnly
  BY DEF TypeOK, Ready, At, Top, StackOnly, histVars
<1>1. /\ stack' \in Seq(Frames)
      /\ \/ Swapped2(stack, stack', "flush", "flushed") /\ (conn.state \in {"connected", "closing"})
         \/ Popped(stack, stack') /\ (conn.state \notin {"connected", "closing"})
  <2>1. CASE conn.state \in {"connected", "closing"}
    BY <1>0, <2>1, SwapDo2 DEF Ready, Continue, Notify, Labels, QueuedLabels
  <2>2. CASE conn.state \notin {"connected", "closing"}
    BY <1>0, <2>2, Pop DEF Ready, Continue, Notify, Labels, QueuedLabels
  <2> QED
    BY <2>1, <2>2
<1>2. TypeOK'
  BY SMT, <1>0, <1>1 DEF TypeOK, StackOnly
<1>3. Numbered'
  BY <1>0 DEF Numbered, StackOnly
<1>4. FlagsAgree'
  BY <1>0, <1>1, OneTop DEF FlagsAgree, StackOnly, Popped, Swapped2
<1>5. ClosesDrained'
  BY <1>0, <1>1, OneTop DEF ClosesDrained, StackOnly, Excused, Popped, Swapped2
<1>6. CleanupInv'
  BY <1>0, <1>1, OneTop
     DEF CleanupInv, StackOnly, Held, Labels, QueuedLabels, Popped, Swapped2
<1>7. WriteEdgeInv'
  BY <1>0, <1>1, OneTop
     DEF WriteEdgeInv, StackOnly, Held, Room, Popped, Swapped2, FlagsAgree, TypeOK
<1>8. ReadEdgeInv => ReadEdgeInv'
  BY <1>0, <1>1, OneTop DEF ReadEdgeInv, StackOnly, Held, Popped, Swapped2
<1>9. EstablishedInv'
  BY <1>0, <1>1, OneTop DEF EstablishedInv, StackOnly, Held, Popped, Swapped2
<1> QED
  BY <1>2, <1>3, <1>4, <1>5, <1>6, <1>7, <1>8, <1>9

\* on_write_event() notifies only when the flush left nothing.
LEMMA FlushedKeeps ==
    ASSUME IInv, Flushed PROVE IInv' /\ (~StopsAtLimit /\ ReadEdgeInv => ReadEdgeInv')
<1> USE DEF IInv, StreamInv
<1>0. /\ stack \in Seq(Frames) /\ stack # <<>> /\ Top(stack, "flushed")
      /\ StackOnly
  BY DEF TypeOK, Flushed, At, Top, StackOnly, histVars
<1>1. /\ stack' \in Seq(Frames)
      /\ \/ Swapped2(stack, stack', "user", "notified") /\ (output = <<>>)
         \/ Popped(stack, stack') /\ (output # <<>>)
  <2>1. CASE output = <<>>
    BY <1>0, <2>1, SwapDo2
       DEF Flushed, Continue, Notify, Labels, QueuedLabels
  <2>2. CASE output # <<>>
    BY <1>0, <2>2, Pop DEF Flushed, Continue, Notify, Labels, QueuedLabels
  <2> QED
    BY <2>1, <2>2
<1>2. TypeOK'
  BY SMTT(60), <1>0, <1>1 DEF TypeOK, StackOnly
<1>3. Numbered'
  BY <1>0 DEF Numbered, StackOnly
<1>4. FlagsAgree'
  BY <1>0, <1>1, OneTop DEF FlagsAgree, StackOnly, Popped, Swapped2
<1>5. ClosesDrained'
  BY <1>0, <1>1, OneTop
     DEF ClosesDrained, StackOnly, Excused, Popped, Swapped2
<1>6. CleanupInv'
  BY <1>0, <1>1, OneTop
     DEF CleanupInv, StackOnly, Held, Labels, QueuedLabels, Popped, Swapped2
<1>7. WriteEdgeInv'
  BY <1>0, <1>1, OneTop DEF WriteEdgeInv, StackOnly, Held, Room, Popped, Swapped2
<1>8. ReadEdgeInv => ReadEdgeInv'
  BY <1>0, <1>1, OneTop DEF ReadEdgeInv, StackOnly, Held, Popped, Swapped2
<1>9. EstablishedInv'
  BY <1>0, <1>1, OneTop DEF EstablishedInv, StackOnly, Held, Popped, Swapped2
<1> QED
  BY <1>2, <1>3, <1>4, <1>5, <1>6, <1>7, <1>8, <1>9

\* on_write_event() flushes what the notified code wrote.
LEMMA NotifiedKeeps ==
    ASSUME IInv, Notified PROVE IInv' /\ (~StopsAtLimit /\ ReadEdgeInv => ReadEdgeInv')
<1> USE DEF IInv, StreamInv
<1>0. /\ stack \in Seq(Frames) /\ stack # <<>> /\ Top(stack, "notified")
      /\ StackOnly
  BY DEF TypeOK, Notified, At, Top, StackOnly, histVars
<1>1. /\ stack' \in Seq(Frames)
      /\ \/ Swapped2(stack, stack', "flush", "written") /\ (output # <<>>)
         \/ Swapped(stack, stack', "written") /\ (output = <<>>)
  <2>1. CASE output # <<>>
    BY <1>0, <2>1, SwapDo2
       DEF Notified, Continue, Notify, Labels, QueuedLabels
  <2>2. CASE output = <<>>
    BY <1>0, <2>2, SwapDo
       DEF Notified, Continue, Notify, Labels, QueuedLabels
  <2> QED
    BY <2>1, <2>2
<1>2. TypeOK'
  BY SMT, <1>0, <1>1 DEF TypeOK, StackOnly
<1>3. Numbered'
  BY <1>0 DEF Numbered, StackOnly
<1>4. FlagsAgree'
  BY <1>0, <1>1, OneTop DEF FlagsAgree, StackOnly, Swapped, Swapped2
<1>5. ClosesDrained'
  BY <1>0, <1>1, OneTop DEF ClosesDrained, StackOnly, Excused, Swapped, Swapped2
<1>6. CleanupInv'
  BY <1>0, <1>1, OneTop
     DEF CleanupInv, StackOnly, Held, Labels, QueuedLabels, Swapped, Swapped2
<1>7. WriteEdgeInv'
  BY <1>0, <1>1, OneTop DEF WriteEdgeInv, StackOnly, Held, Room, Swapped, Swapped2
<1>8. ReadEdgeInv => ReadEdgeInv'
  BY <1>0, <1>1, OneTop DEF ReadEdgeInv, StackOnly, Held, Swapped, Swapped2
<1>9. EstablishedInv'
  BY <1>0, <1>1, OneTop DEF EstablishedInv, StackOnly, Held, Swapped, Swapped2
<1> QED
  BY <1>2, <1>3, <1>4, <1>5, <1>6, <1>7, <1>8, <1>9

\* on_write_event() closes a lingering connection only when its output is gone.
LEMMA WrittenKeeps ==
    ASSUME IInv, Written PROVE IInv' /\ (~StopsAtLimit /\ ReadEdgeInv => ReadEdgeInv')
<1> USE DEF IInv, StreamInv
<1>0. /\ stack \in Seq(Frames) /\ stack # <<>> /\ Top(stack, "written")
      /\ StackOnly
  BY DEF TypeOK, Written, At, Top, StackOnly, histVars
<1>1. /\ stack' \in Seq(Frames)
      /\ \/ Swapped(stack, stack', "do_close") /\ (conn.state = "closing" /\ output = <<>>)
         \/ Popped(stack, stack') /\ (~(conn.state = "closing" /\ output = <<>>))
  <2>1. CASE conn.state = "closing" /\ output = <<>>
    BY <1>0, <2>1, SwapDo
       DEF Written, Continue, Notify, Labels, QueuedLabels
  <2>2. CASE ~(conn.state = "closing" /\ output = <<>>)
    BY <1>0, <2>2, Pop DEF Written, Continue, Notify, Labels, QueuedLabels
  <2> QED
    BY <2>1, <2>2
<1>2. TypeOK'
  BY SMTT(60), <1>0, <1>1 DEF TypeOK, StackOnly
<1>3. Numbered'
  BY <1>0 DEF Numbered, StackOnly
<1>4. FlagsAgree'
  BY <1>0, <1>1, OneTop DEF FlagsAgree, StackOnly, Popped, Swapped
<1>5. ClosesDrained'
  BY <1>0, <1>1, OneTop DEF ClosesDrained, StackOnly, Excused, Popped, Swapped
<1>6. CleanupInv'
  BY <1>0, <1>1, OneTop
     DEF CleanupInv, StackOnly, Held, Labels, QueuedLabels, Popped, Swapped
<1>7. WriteEdgeInv'
  BY <1>0, <1>1, OneTop DEF WriteEdgeInv, StackOnly, Held, Room, Popped, Swapped
<1>8. ReadEdgeInv => ReadEdgeInv'
  BY <1>0, <1>1, OneTop DEF ReadEdgeInv, StackOnly, Held, Popped, Swapped
<1>9. EstablishedInv'
  BY <1>0, <1>1, OneTop DEF EstablishedInv, StackOnly, Held, Popped, Swapped
<1> QED
  BY <1>2, <1>3, <1>4, <1>5, <1>6, <1>7, <1>8, <1>9

\* User code returns into the method that notified it.
LEMMA UserReturnsKeeps ==
    ASSUME IInv, UserReturns PROVE IInv' /\ (~StopsAtLimit /\ ReadEdgeInv => ReadEdgeInv')
<1> USE DEF IInv, StreamInv
<1>0. /\ stack \in Seq(Frames) /\ stack # <<>> /\ Top(stack, "user")
      /\ StackOnly
  BY DEF TypeOK, UserReturns, At, Top, StackOnly, histVars
<1>1. /\ stack' \in Seq(Frames)
      /\ Popped(stack, stack')
  BY <1>0, Pop DEF UserReturns, Continue, Notify, Labels, QueuedLabels
<1>2. TypeOK'
  BY SMT, <1>0, <1>1 DEF TypeOK, StackOnly
<1>3. Numbered'
  BY <1>0 DEF Numbered, StackOnly
<1>4. FlagsAgree'
  BY <1>0, <1>1, OneTop DEF FlagsAgree, StackOnly, Popped
<1>5. ClosesDrained'
  BY <1>0, <1>1, OneTop DEF ClosesDrained, StackOnly, Excused, Popped
<1>6. CleanupInv'
  BY <1>0, <1>1, OneTop
     DEF CleanupInv, StackOnly, Held, Labels, QueuedLabels, Popped
<1>7. WriteEdgeInv'
  BY <1>0, <1>1, OneTop DEF WriteEdgeInv, StackOnly, Held, Room, Popped
<1>8. ReadEdgeInv => ReadEdgeInv'
  BY <1>0, <1>1, OneTop DEF ReadEdgeInv, StackOnly, Held, Popped
<1>9. EstablishedInv'
  BY <1>0, <1>1, OneTop DEF EstablishedInv, StackOnly, Held, Popped
<1> QED
  BY <1>2, <1>3, <1>4, <1>5, <1>6, <1>7, <1>8, <1>9

-----------------------------------------------------------------------------
(* What the write methods do, by their outcome.                            *)

\* A call that does nothing.
LEMMA DropKeeps ==
    ASSUME IInv, Drop, NEW l, Top(stack, l),
           \/ conn.is_closing
           \/ l \notin {"on_write_event", "ready", "flush", "do_close",
                        "on_read_event", "read", "peer_closed", "close"}
           \/ l = "on_write_event" /\ "write" \notin chan.events
    PROVE  IInv' /\ (~StopsAtLimit /\ ReadEdgeInv => ReadEdgeInv')
<1> USE DEF IInv, StreamInv
<1>0. stack \in Seq(Frames) /\ stack # <<>> /\ StackOnly
  BY DEF TypeOK, Top, Drop, StackOnly, histVars
<1>1. stack' \in Seq(Frames) /\ Popped(stack, stack')
  BY <1>0, Pop DEF Drop, Continue
<1>2. TypeOK'
  BY SMT, <1>0, <1>1 DEF TypeOK, StackOnly
<1>3. Numbered'
  BY <1>0 DEF Numbered, StackOnly
<1>4. FlagsAgree'
  BY <1>0, <1>1, OneTop DEF FlagsAgree, StackOnly, Popped
<1>5. ClosesDrained'
  BY <1>0, <1>1, OneTop DEF ClosesDrained, StackOnly, Popped, Excused
<1>6. CleanupInv'
  BY <1>0, <1>1, OneTop DEF CleanupInv, Held, StackOnly, Popped, Labels, QueuedLabels
<1>7. WriteEdgeInv'
  BY <1>0, <1>1, OneTop DEF WriteEdgeInv, Held, StackOnly, Popped, Room
<1>8. ~StopsAtLimit /\ ReadEdgeInv => ReadEdgeInv'
  BY <1>0, <1>1, OneTop DEF ReadEdgeInv, Held, StackOnly, Popped, FlagsAgree
<1>9. EstablishedInv'
  BY <1>0, <1>1, OneTop DEF EstablishedInv, Held, StackOnly, Popped
<1> QED
  BY <1>2, <1>3, <1>4, <1>5, <1>6, <1>7, <1>8, <1>9

WriteLabels ==
    {"write", "write_and_flush", "write_owned_and_flush", "write_raw_and_flush"}

\* A call that fails: over the limit, a send that failed, or abort().
LEMMA FailureKeeps ==
    ASSUME IInv, ~conn.cleanup_done,
           NEW l \in WriteLabels \cup {"abort", "flush"}, Top(stack, l),
           failed' = TRUE,
           UNCHANGED <<conn, output, input, chan, sock, queue, written>>,
           stack' = <<Do("do_close")>> \o Tail(stack) \/ stack' = SendFailed \o Tail(stack)
    PROVE  IInv' /\ (~StopsAtLimit /\ ReadEdgeInv => ReadEdgeInv')
<1> USE DEF IInv, StreamInv
<1>0. stack \in Seq(Frames) /\ stack # <<>>
  BY DEF TypeOK, Top
<1>1. /\ stack' \in Seq(Frames)
      /\ \/ Swapped(stack, stack', "do_close")
         \/ Swapped2(stack, stack', "user", "do_close")
  BY <1>0, SwapDo, SwapDo2 DEF SendFailed, Notify, Labels
<1>2. TypeOK'
  BY SMTT(60), <1>0, <1>1 DEF TypeOK
<1>3. Numbered'
  BY <1>0, <1>1 DEF Numbered
<1>4. FlagsAgree'
  BY <1>0, <1>1, OneTop DEF FlagsAgree, Swapped, Swapped2
<1>5. ClosesDrained'
  BY <1>0, <1>1, OneTop DEF ClosesDrained, Swapped, Swapped2, Excused
<1>6. CleanupInv'
  BY <1>0, <1>1, OneTop
     DEF CleanupInv, Held, Swapped, Swapped2, Labels, QueuedLabels, WriteLabels
<1>7. WriteEdgeInv'
  BY <1>0, <1>1, OneTop DEF WriteEdgeInv, Held, Swapped, Swapped2, Room
<1>8. ~StopsAtLimit /\ ReadEdgeInv => ReadEdgeInv'
  BY <1>0, <1>1, OneTop DEF ReadEdgeInv, Held, Swapped, Swapped2, WriteLabels
<1>9. EstablishedInv'
  BY <1>0, <1>1, OneTop DEF EstablishedInv, Held, Swapped, Swapped2
<1> QED
  BY <1>2, <1>3, <1>4, <1>5, <1>6, <1>7, <1>8, <1>9

\* Addition of lengths.
LEMMA PlusAssociates ==
    ASSUME NEW a \in Nat, NEW b \in Nat, NEW c \in Nat PROVE a + (b + c) = (a + b) + c
BY SMT

\* Consecutive bytes stay consecutive when more are queued ...
LEMMA QueueNumbers ==
    ASSUME NEW k \in Nat, NEW o \in Seq(Nat), NEW f \in Seq(Nat),
           \A i \in 1..Len(o) : o[i] = k + i,
           \A i \in 1..Len(f) : f[i] = k + Len(o) + i
    PROVE  /\ o \o f \in Seq(Nat)
           /\ Len(o \o f) = Len(o) + Len(f)
           /\ \A i \in 1..Len(o \o f) : (o \o f)[i] = k + i
<1>1. Len(o) \in Nat /\ Len(f) \in Nat
  BY LenProperties
<1>2. /\ o \o f \in Seq(Nat)
      /\ Len(o \o f) = Len(o) + Len(f)
      /\ \A i \in 1..Len(o) + Len(f) :
            (o \o f)[i] = IF i <= Len(o) THEN o[i] ELSE f[i - Len(o)]
  BY ConcatProperties
<1>3. ASSUME NEW i \in 1..Len(o) + Len(f) PROVE (o \o f)[i] = k + i
  <2>1. CASE i <= Len(o)
    BY SMT, <1>1, <1>2, <2>1
  <2>2. CASE ~(i <= Len(o))
    <3>1. i - Len(o) \in 1..Len(f)
      BY SMT, <1>1, <2>2
    <3>2. f[i - Len(o)] = k + Len(o) + (i - Len(o))
      BY <3>1
    <3> QED
      BY SMT, <1>1, <1>2, <2>2, <3>2
  <2> QED
    BY <2>1, <2>2
<1> QED
  BY <1>2, <1>3

SentAsNumbered(v, b, a, u, r) ==
    /\ u \in Seq(Nat) /\ r \in Seq(Nat)
    /\ Len(u) = Len(v) + a
    /\ \A i \in 1..Len(u) : u[i] = i
    /\ Len(r) = Len(b) - a
    /\ \A i \in 1..Len(r) : r[i] = Len(u) + i

\* ... and when the first of them are sent.
LEMMA SendNumbers ==
    ASSUME NEW v \in Seq(Nat), NEW b \in Seq(Nat), NEW a \in 0..Len(b),
           \A i \in 1..Len(v) : v[i] = i,
           \A i \in 1..Len(b) : b[i] = Len(v) + i,
           NEW u, u = v \o SubSeq(b, 1, a), NEW r, r = SubSeq(b, a + 1, Len(b))
    PROVE  SentAsNumbered(v, b, a, u, r)
<1>1. Len(v) \in Nat /\ Len(b) \in Nat /\ a \in Nat
  BY SMT, LenProperties
<1>2. /\ SubSeq(b, 1, a) \in Seq(Nat)
      /\ Len(SubSeq(b, 1, a)) = a
      /\ \A i \in 1..a : SubSeq(b, 1, a)[i] = b[i]
  BY SMTT(60), <1>1
<1>3. /\ u \in Seq(Nat)
      /\ Len(u) = Len(v) + a
      /\ \A i \in 1..Len(v) + a : u[i] = IF i <= Len(v) THEN v[i] ELSE SubSeq(b, 1, a)[i - Len(v)]
  BY SMTT(60), <1>2, ConcatProperties
<1>4. ASSUME NEW i \in 1..Len(v) + a PROVE u[i] = i
  <2>1. CASE i <= Len(v)
    BY SMT, <1>1, <1>3, <2>1
  <2>2. CASE ~(i <= Len(v))
    <3>1. i - Len(v) \in 1..a /\ i - Len(v) \in 1..Len(b)
      BY SMT, <1>1, <2>2
    <3>2. u[i] = b[i - Len(v)]
      BY <1>2, <1>3, <2>2, <3>1
    <3> QED
      BY SMTT(30), <1>1, <3>1, <3>2
  <2> QED
    BY <2>1, <2>2
<1>5. /\ r \in Seq(Nat)
      /\ Len(r) = Len(b) - a
      /\ \A i \in 1..Len(r) : r[i] = b[a + i]
  <2>1. /\ a + 1 \in Int /\ Len(b) \in Int
        /\ \A i \in (a + 1)..Len(b) : b[i] \in Nat
    <3>1. \A i \in 1..Len(b) : b[i] \in Nat
      BY ElementOfSeq
    <3>2. \A i \in (a + 1)..Len(b) : i \in 1..Len(b)
      BY SMTT(60), <1>1
    <3> QED
      BY SMT, <1>1, <3>1, <3>2
  <2>2. /\ r \in Seq(Nat)
        /\ Len(r) = IF a + 1 <= Len(b) THEN Len(b) - (a + 1) + 1 ELSE 0
        /\ \A i \in 1..Len(b) - (a + 1) + 1 : r[i] = b[a + 1 + i - 1]
    BY SMTT(120), <2>1, SubSeqProperties
  <2>3. Len(r) = Len(b) - a /\ Len(b) - (a + 1) + 1 = Len(b) - a
    BY SMT, <1>1, <2>2
  <2>4. \A i \in 1..Len(b) - a : a + 1 + i - 1 = a + i
    BY SMT, <1>1
  <2> QED
    BY ZenonT(60), <2>2, <2>3, <2>4
<1>6. ASSUME NEW i \in 1..Len(r) PROVE r[i] = Len(u) + i
  <2>1. a + i \in 1..Len(b)
    BY SMT, <1>1, <1>5
  <2>2. b[a + i] = Len(v) + (a + i)
    BY <2>1
  <2>3. r[i] = Len(v) + (a + i)
    BY <1>5, <2>2
  <2>4. Len(v) + (a + i) = (Len(v) + a) + i
    BY SMT, <1>1, <1>5
  <2> QED
    BY <1>3, <2>3, <2>4
<1> QED
  BY <1>3, <1>4, <1>5, <1>6 DEF SentAsNumbered

\* The bytes of a write are numbered after those accepted before it.
LEMMA FreshBytes ==
    ASSUME TypeOK, stack # <<>>
    PROVE  /\ Fresh \in Seq(Nat)
           /\ \A i \in 1..Len(Fresh) : Fresh[i] = written + i
<1> DEFINE n == Head(stack).arg
<1>1. Head(stack) \in Frames
  BY SMT DEF TypeOK
<1>2. n \in Nat
  BY <1>1 DEF Frames
<1>3. Fresh = [i \in 1..n |-> written + i] /\ written \in Nat
  BY DEF TypeOK, Fresh
<1> HIDE DEF n
<1>4. Fresh \in [1..n -> Nat] /\ \A i \in 1..n : Fresh[i] = written + i
  BY SMT, <1>2, <1>3
<1>5. Fresh \in Seq(Nat) /\ Len(Fresh) = n
  BY SMT, <1>2, <1>4
<1> QED
  BY <1>2, <1>4, <1>5

\* What a write method that queues its bytes does: it asks for write events,
\* or leaves them asked for and flushes next.
Appends ==
    /\ output' = output \o Fresh
    /\ written' = written + Len(Fresh)
    /\ UNCHANGED <<conn, input, queue, failed>>
    /\ \/ stack' = <<>> \o Tail(stack) /\ ~conn.output_shutdown
       \/ stack' = <<Do("flush")>> \o Tail(stack)
    /\ \/ chan' = Updated(WriteInterest) /\ sock' = Rearmed(sock)
       \/ /\ output # <<>> /\ UNCHANGED <<chan, sock>>
          /\ stack' = <<Do("flush")>> \o Tail(stack)

\* Queueing bytes behind the others keeps the invariant, whether write interest is
\* renewed or a flush follows.
LEMMA AppendKeeps ==
    ASSUME IInv, OpenForWrites, NEW l \in WriteLabels, Top(stack, l), Appends
    PROVE  IInv' /\ (~StopsAtLimit /\ ReadEdgeInv => ReadEdgeInv')
<1> USE DEF IInv, StreamInv
<1>0. /\ stack \in Seq(Frames) /\ stack # <<>>
      /\ conn.state = "connected" /\ ~conn.is_closing /\ ~conn.cleanup_done
      /\ UNCHANGED <<conn, input, queue, failed>>
      /\ written \in Nat /\ output \in Seq(Nat) /\ sock.wire \in Seq(Nat)
  BY DEF TypeOK, Top, OpenForWrites, CleanupInv, Appends
<1>1. /\ stack' \in Seq(Frames)
      /\ \/ Popped(stack, stack') /\ ~conn.output_shutdown
         \/ Swapped(stack, stack', "flush")
  BY <1>0, Pop, SwapDo DEF Labels, QueuedLabels, Appends
<1>a. /\ output' \in Seq(Nat)
      /\ Len(sock.wire) + Len(output') = written' /\ written' \in Nat
      /\ \A i \in 1..Len(output') : output'[i] = Len(sock.wire) + i
  <2>1. /\ Fresh \in Seq(Nat)
        /\ \A i \in 1..Len(Fresh) : Fresh[i] = written + i
    BY <1>0, FreshBytes
  <2>2. /\ Len(sock.wire) + Len(output) = written
        /\ \A i \in 1..Len(output) : output[i] = Len(sock.wire) + i
    BY <1>0 DEF Numbered
  <2>3. Len(Fresh) \in Nat /\ Len(output) \in Nat /\ Len(sock.wire) \in Nat
    BY <1>0, <2>1, LenProperties
  <2>4. output' = output \o Fresh /\ written' = written + Len(Fresh)
    BY DEF Appends
  <2>5. /\ output' \in Seq(Nat)
        /\ Len(output') = Len(output) + Len(Fresh)
        /\ \A i \in 1..Len(output') : output'[i] = Len(sock.wire) + i
    <3>1. \A i \in 1..Len(Fresh) : Fresh[i] = Len(sock.wire) + Len(output) + i
      BY <2>1, <2>2
    <3>2. /\ output \o Fresh \in Seq(Nat)
          /\ Len(output \o Fresh) = Len(output) + Len(Fresh)
          /\ \A i \in 1..Len(output \o Fresh) : (output \o Fresh)[i] = Len(sock.wire) + i
      BY ZenonT(60), <1>0, <2>1, <2>2, <2>3, <3>1, QueueNumbers
    <3> QED
      BY <2>4, <3>2
  <2>6. Len(sock.wire) + (Len(output) + Len(Fresh)) = (Len(sock.wire) + Len(output)) + Len(Fresh)
    BY ZenonT(30), <2>3, PlusAssociates
  <2>7. written' \in Nat
    BY SMT, <1>0, <2>3, <2>4
  <2> QED
    BY <2>2, <2>4, <2>5, <2>6, <2>7
<1>b. /\ sock' \in Sockets
      /\ chan' \in Channels
  <2>1. CASE chan' = Updated(WriteInterest) /\ sock' = Rearmed(sock)
    BY <2>1 DEF TypeOK, Rearmed, Updated, WriteInterest
  <2>2. CASE UNCHANGED <<chan, sock>>
    BY <2>2 DEF TypeOK
  <2> QED
    BY <2>1, <2>2 DEF Appends
<1>c. /\ sock'.wire = sock.wire /\ sock'.fin = sock.fin /\ sock'.reset = sock.reset
      /\ sock'.delivered = sock.delivered /\ sock'.inbox = sock.inbox
      /\ sock'.sent = sock.sent /\ sock'.established = sock.established
      /\ sock'.peer_fin = sock.peer_fin /\ (sock.edge => sock'.edge)
  BY ZenonT(30) DEF TypeOK, Rearmed, Appends
<1>d. sock'.edge \/ Swapped(stack, stack', "flush")
  BY <1>0, SwapDo DEF TypeOK, Rearmed, Appends, Labels, QueuedLabels
<1>e. /\ chan'.armed = chan'.events /\ "write" \in chan'.events
      /\ "read" \in chan.events => "read" \in chan'.events
  <2>1. CASE chan' = Updated(WriteInterest)
    BY <2>1 DEF TypeOK, Updated, WriteInterest
  <2>2. CASE chan' = chan /\ output # <<>>
    BY <1>0, <2>2 DEF TypeOK, WriteEdgeInv
  <2> QED
    BY <2>1, <2>2 DEF Appends
<1>2. TypeOK'
  BY <1>0, <1>1, <1>a, <1>b DEF TypeOK
<1>3. Numbered'
  BY <1>0, <1>a, <1>c DEF Numbered
<1>4. FlagsAgree'
  BY <1>0, <1>1, <1>c, OneTop DEF FlagsAgree, Popped, Swapped
<1>5. ClosesDrained'
  BY <1>0, <1>1, <1>c, OneTop DEF ClosesDrained, Popped, Swapped, Excused
<1>6. CleanupInv'
  BY <1>0, <1>1, <1>c, OneTop
     DEF CleanupInv, Held, Popped, Swapped, Labels, QueuedLabels, WriteLabels
<1>7. WriteEdgeInv'
  BY <1>0, <1>c, <1>d, <1>e DEF WriteEdgeInv, Held, Swapped, Room
<1>8. ~StopsAtLimit /\ ReadEdgeInv => ReadEdgeInv'
  BY <1>0, <1>1, <1>c, <1>e, OneTop
     DEF ReadEdgeInv, Held, Popped, Swapped, WriteLabels
<1>9. EstablishedInv'
  BY <1>0, <1>1, <1>c, OneTop DEF EstablishedInv, Held, Popped, Swapped, WriteLabels
<1> QED
  BY <1>2, <1>3, <1>4, <1>5, <1>6, <1>7, <1>8, <1>9

-----------------------------------------------------------------------------
(* Sending.                                                                *)

\* What a send accepts fits the socket's buffer.
LEMMA SendAccepts ==
    ASSUME IInv, NEW bytes \in Seq(Nat)
    PROVE  /\ Accepted(bytes) \in 0..Len(bytes)
           /\ sock.delivered <= Len(sock.wire) + Accepted(bytes)
           /\ Len(sock.wire) + Accepted(bytes) <= sock.delivered + SendRoom
<1> DEFINE n == Len(sock.wire) d == sock.delivered m == Len(bytes)
<1>1. n \in Nat /\ m \in Nat /\ d \in Nat /\ SendRoom \in Nat /\ d <= n /\ n <= d + SendRoom
  BY LenProperties, TcpConnectionAssumption DEF IInv, TypeOK, WriteEdgeInv
<1>2. Accepted(bytes) = IF SendRoom - (n - d) < m THEN SendRoom - (n - d) ELSE m
  BY DEF Accepted, Lesser, Room
<1> HIDE DEF n, d, m
<1>3. /\ Accepted(bytes) \in 0..m
      /\ d <= n + Accepted(bytes)
      /\ n + Accepted(bytes) <= d + SendRoom
  BY SMT, <1>1, <1>2
<1> QED
  BY <1>3 DEF n, d, m

\* What flush() and the direct sends do with the bytes that are next in line.
Sends(bytes) ==
    /\ output' = Rest(bytes)
    /\ \/ /\ Rest(bytes) = <<>>
          /\ sock' = Sent(bytes)
          /\ UNCHANGED chan
          /\ stack' = <<Do("drained")>> \o Tail(stack)
       \/ /\ Rest(bytes) # <<>>
          /\ sock' = Rearmed(Sent(bytes))
          /\ chan' = Updated(WriteInterest)
          /\ \/ stack' = <<>> \o Tail(stack)
             \/ stack' = <<Do("flush")>> \o Tail(stack)
    /\ UNCHANGED <<conn, input, queue, failed>>

\* A send that takes all the bytes, a part of them or none keeps the invariant.
LEMMA SendKeeps ==
    ASSUME IInv, ~conn.is_closing, conn.state # "connecting", ~Broken,
           conn.state = "connected" \/ output # <<>>,
           NEW l \in WriteLabels \cup {"flush"}, Top(stack, l),
           NEW bytes \in Seq(Nat),
           \A i \in 1..Len(bytes) : bytes[i] = Len(sock.wire) + i,
           written' \in Nat, Len(sock.wire) + Len(bytes) = written',
           Sends(bytes)
    PROVE  IInv' /\ (~StopsAtLimit /\ ReadEdgeInv => ReadEdgeInv')
<1> USE DEF IInv, StreamInv
<1>0. /\ stack \in Seq(Frames) /\ stack # <<>>
      /\ ~conn.cleanup_done /\ ~conn.output_shutdown
      /\ UNCHANGED <<conn, input, queue, failed>>
      /\ sock.wire \in Seq(Nat)
  BY DEF TypeOK, Top, CleanupInv, FlagsAgree, Sends, Broken
<1>1. /\ stack' \in Seq(Frames)
      /\ \/ Swapped(stack, stack', "drained") /\ output' = <<>>
         \/ Swapped(stack, stack', "flush")
         \/ Popped(stack, stack')
  BY <1>0, Pop, SwapDo DEF Labels, QueuedLabels, Sends
<1>a. /\ sock'.wire = sock.wire \o SubSeq(bytes, 1, Accepted(bytes))
      /\ output' = SubSeq(bytes, Accepted(bytes) + 1, Len(bytes))
  BY DEF TypeOK, Sent, Rearmed, Rest, Sends
<1>b. /\ sock'.wire \in Seq(Nat) /\ output' \in Seq(Nat)
      /\ Len(sock'.wire) = Len(sock.wire) + Accepted(bytes)
      /\ \A i \in 1..Len(sock'.wire) : sock'.wire[i] = i
      /\ Len(output') = Len(bytes) - Accepted(bytes)
      /\ \A i \in 1..Len(output') : output'[i] = Len(sock'.wire) + i
  <2>1. \A i \in 1..Len(sock.wire) : sock.wire[i] = i
    BY DEF Numbered
  <2>2. Accepted(bytes) \in 0..Len(bytes)
    BY SendAccepts
  <2> QED
    <3> DEFINE u == sock'.wire r == output' v == sock.wire a == Accepted(bytes)
    <3>1. /\ v \in Seq(Nat) /\ a \in 0..Len(bytes)
          /\ \A i \in 1..Len(v) : v[i] = i
          /\ \A i \in 1..Len(bytes) : bytes[i] = Len(v) + i
          /\ u = v \o SubSeq(bytes, 1, a)
          /\ r = SubSeq(bytes, a + 1, Len(bytes))
      BY <1>0, <1>a, <2>1, <2>2
    <3> HIDE DEF u, r, v, a
    <3>2. SentAsNumbered(v, bytes, a, u, r)
      BY <3>1, SendNumbers
    <3> QED
      BY <3>2 DEF u, r, v, a, SentAsNumbered
<1>c. Len(sock'.wire) + Len(output') = written'
  <2>1. Accepted(bytes) \in 0..Len(bytes)
    BY SendAccepts
  <2>2. Len(bytes) \in Nat /\ Len(sock.wire) \in Nat
    BY <1>0, LenProperties
  <2>3. (Len(sock.wire) + Accepted(bytes)) + (Len(bytes) - Accepted(bytes))
            = Len(sock.wire) + Len(bytes)
    BY SMT, <2>1, <2>2
  <2> QED
    BY <1>b, <2>3
<1>d. /\ sock'.fin = sock.fin /\ sock'.reset = sock.reset
      /\ sock'.delivered = sock.delivered /\ sock'.inbox = sock.inbox
      /\ sock'.sent = sock.sent /\ sock'.established = sock.established
      /\ sock'.peer_fin = sock.peer_fin /\ (sock.edge => sock'.edge)
      /\ output' # <<>> => sock'.edge
  BY ZenonT(30) DEF TypeOK, Sent, Rearmed, Sends
<1>e. /\ sock' \in Sockets
  <2>1. sock.wire \o SubSeq(bytes, 1, Accepted(bytes)) \in Seq(Nat)
    BY <1>a, <1>b
  <2>2. CASE sock' = Sent(bytes)
    BY <2>1, <2>2 DEF TypeOK, Sent
  <2>3. CASE sock' = Rearmed(Sent(bytes))
    BY <2>1, <2>3 DEF TypeOK, Sent, Rearmed
  <2> QED
    BY <2>2, <2>3 DEF Sends
<1>f. /\ chan' \in Channels
      /\ chan'.armed = chan'.events
      /\ output' # <<>> => "write" \in chan'.events
      /\ "read" \in chan.events => "read" \in chan'.events
  <2>1. CASE chan' = Updated(WriteInterest)
    BY <2>1 DEF TypeOK, Updated, WriteInterest
  <2>2. CASE chan' = chan /\ output' = <<>>
    BY <1>0, <2>2 DEF TypeOK, WriteEdgeInv
  <2> QED
    BY <2>1, <2>2 DEF Sends
<1>2. TypeOK'
  BY <1>0, <1>1, <1>b, <1>e, <1>f DEF TypeOK
<1>3. Numbered'
  BY <1>0, <1>b, <1>c DEF Numbered
<1>4. FlagsAgree'
  BY <1>0, <1>1, <1>d, OneTop DEF FlagsAgree, Popped, Swapped
<1>5. ClosesDrained'
  BY <1>0, <1>1, <1>d, OneTop DEF ClosesDrained, Popped, Swapped, Excused
<1>6. CleanupInv'
  BY ZenonT(60), <1>0, <1>1, <1>d, OneTop
     DEF CleanupInv, Held, Popped, Swapped, Labels, QueuedLabels, WriteLabels
<1>7. WriteEdgeInv'
  BY SMTT(60), <1>0, <1>b, <1>d, <1>f, SendAccepts DEF WriteEdgeInv
<1>8. ~StopsAtLimit /\ ReadEdgeInv => ReadEdgeInv'
  BY ZenonT(60), <1>0, <1>1, <1>d, <1>f, OneTop
  DEF ReadEdgeInv, Held, Popped, Swapped, WriteLabels
<1>9. EstablishedInv'
  BY <1>0, <1>1, <1>d, OneTop DEF EstablishedInv, Held, Popped, Swapped
<1> QED
  BY <1>2, <1>3, <1>4, <1>5, <1>6, <1>7, <1>8, <1>9

-----------------------------------------------------------------------------
(* The methods.                                                            *)

\* The write methods: queueing, or failing over the limit.
LEMMA EnqueueKeeps ==
    ASSUME IInv, OpenForWrites, NEW l \in WriteLabels, Top(stack, l),
           \/ Enqueue(Fresh, <<Do("flush")>>)
           \/ Enqueue(Fresh, <<>>) /\ ~conn.output_shutdown
    PROVE  IInv' /\ (~StopsAtLimit /\ ReadEdgeInv => ReadEdgeInv')
<1>1. CASE Fits(Fresh)
  <2>1. Appends
    BY <1>1 DEF Enqueue, Appends, Continue
  <2> QED
    BY <2>1, AppendKeeps
<1>2. CASE ~Fits(Fresh)
  <2>1. ~conn.cleanup_done
    BY DEF OpenForWrites, IInv, CleanupInv
  <2> QED
    BY <1>2, <2>1, FailureKeeps DEF Enqueue, Overflow, Continue, WriteLabels
<1> QED
  BY <1>1, <1>2

\* write() and write_owned().
LEMMA WriteKeeps ==
    ASSUME IInv, Write PROVE IInv' /\ (~StopsAtLimit /\ ReadEdgeInv => ReadEdgeInv')
<1>1. Top(stack, "write") /\ "write" \in WriteLabels
  BY DEF Write, At, Top, WriteLabels
<1>2. CASE OpenForWrites /\ ~conn.output_shutdown
  BY <1>1, <1>2, EnqueueKeeps DEF Write
<1>3. CASE ~(OpenForWrites /\ ~conn.output_shutdown)
  BY <1>1, <1>3, DropKeeps DEF Write
<1> QED
  BY <1>2, <1>3

\* write_and_flush().
LEMMA WriteAndFlushKeeps ==
    ASSUME IInv, WriteAndFlush PROVE IInv' /\ (~StopsAtLimit /\ ReadEdgeInv => ReadEdgeInv')
<1>1. Top(stack, "write_and_flush") /\ "write_and_flush" \in WriteLabels
  BY DEF WriteAndFlush, At, Top, WriteLabels
<1>2. CASE OpenForWrites
  <2>1. Enqueue(Fresh, <<Do("flush")>>)
    BY <1>2 DEF WriteAndFlush
  <2> QED
    BY <1>1, <1>2, <2>1, EnqueueKeeps
<1>3. CASE ~OpenForWrites
  BY <1>1, <1>3, DropKeeps DEF WriteAndFlush
<1> QED
  BY <1>2, <1>3

\* A send past the empty output buffer.
LEMMA DirectSendKeeps ==
    ASSUME IInv, OpenForWrites, output = <<>>, NEW l \in WriteLabels, Top(stack, l),
           NEW rest, rest = <<Do("flush")>> \/ rest = <<>>, DirectSend(rest)
    PROVE  IInv' /\ (~StopsAtLimit /\ ReadEdgeInv => ReadEdgeInv')
<1>1. /\ ~conn.cleanup_done /\ ~conn.is_closing /\ conn.state # "connecting"
      /\ TypeOK /\ stack # <<>>
  BY DEF OpenForWrites, IInv, CleanupInv, Top
<1>2. CASE Broken
  BY <1>1, <1>2, FailureKeeps DEF DirectSend, Continue
<1>3. CASE ~Broken
  <2>1. /\ Fresh \in Seq(Nat)
        /\ \A i \in 1..Len(Fresh) : Fresh[i] = written + i
    BY <1>1, FreshBytes
  <2>2. written = Len(sock.wire) /\ Len(sock.wire) \in Nat /\ Len(Fresh) \in Nat
    BY SMTT(60), <1>1, <2>1, LenProperties DEF IInv, StreamInv, Numbered, TypeOK
  <2>3. Rest(Fresh) \in Seq(Nat)
    <3>1. Accepted(Fresh) \in 0..Len(Fresh)
      BY <2>1, SendAccepts
    <3> QED
      BY SMTT(60), <2>1, <2>2, <3>1 DEF Rest
  <2>4. Rest(Fresh) \o output = Rest(Fresh)
    BY <2>3, ConcatEmptySeq
  <2>5. Sends(Fresh)
    BY <1>3, <2>4 DEF DirectSend, Sends, Continue
  <2>6. written' = Len(sock.wire) + Len(Fresh) /\ written' \in Nat
    BY SMT, <1>3, <2>2 DEF DirectSend
  <2>7. \A i \in 1..Len(Fresh) : Fresh[i] = Len(sock.wire) + i
    BY <2>1, <2>2
  <2> QED
    BY <1>1, <1>3, <2>1, <2>5, <2>6, <2>7, SendKeeps DEF OpenForWrites
<1> QED
  BY <1>2, <1>3

\* write_owned_and_flush().
LEMMA WriteOwnedAndFlushKeeps ==
    ASSUME IInv, WriteOwnedAndFlush PROVE IInv' /\ (~StopsAtLimit /\ ReadEdgeInv => ReadEdgeInv')
<1> DEFINE l == "write_owned_and_flush"
<1>1. Top(stack, l) /\ l \in WriteLabels
  BY DEF WriteOwnedAndFlush, At, Top, WriteLabels
<1>2. CASE ~OpenForWrites
  BY <1>1, <1>2, DropKeeps DEF WriteOwnedAndFlush
<1>3. CASE OpenForWrites /\ ~MaySendDirectly
  <2>1. Enqueue(Fresh, <<Do("flush")>>)
    BY <1>3 DEF WriteOwnedAndFlush
  <2> QED
    BY <1>1, <1>3, <2>1, EnqueueKeeps
<1>4. CASE OpenForWrites /\ MaySendDirectly /\ ~Fits(Fresh)
  <2>1. ~conn.cleanup_done
    BY <1>4 DEF OpenForWrites, IInv, CleanupInv
  <2> QED
    BY <1>1, <1>4, <2>1, FailureKeeps DEF WriteOwnedAndFlush, Overflow, Continue
<1>5. CASE OpenForWrites /\ MaySendDirectly /\ Fits(Fresh)
  BY <1>1, <1>5, DirectSendKeeps DEF WriteOwnedAndFlush, MaySendDirectly
<1> QED
  BY <1>2, <1>3, <1>4, <1>5

\* A raw write of which a part is sent before the rest turns out to be too long.
LEMMA RawOverflowKeeps ==
    ASSUME IInv, OpenForWrites, output = <<>>, Top(stack, "write_raw_and_flush"),
           sock' = Sent(Fresh), written' = written + Accepted(Fresh), failed' = TRUE,
           stack' = <<Do("do_close")>> \o Tail(stack),
           UNCHANGED <<conn, output, input, chan, queue>>
    PROVE  IInv' /\ (~StopsAtLimit /\ ReadEdgeInv => ReadEdgeInv')
<1> USE DEF IInv, StreamInv
<1>0. /\ stack \in Seq(Frames) /\ stack # <<>> /\ ~conn.is_closing /\ ~conn.cleanup_done
      /\ conn.state = "connected" /\ sock.wire \in Seq(Nat) /\ written \in Nat
  BY DEF TypeOK, Top, OpenForWrites, CleanupInv
<1>1. stack' \in Seq(Frames) /\ Swapped(stack, stack', "do_close")
  BY <1>0, SwapDo DEF Labels
<1>a. /\ Fresh \in Seq(Nat)
      /\ \A i \in 1..Len(Fresh) : Fresh[i] = written + i
      /\ written = Len(sock.wire) /\ Len(sock.wire) \in Nat /\ Len(Fresh) \in Nat
  BY SMTT(60), <1>0, FreshBytes, LenProperties DEF Numbered, TypeOK
<1>b. Accepted(Fresh) \in 0..Len(Fresh)
  BY <1>a, SendAccepts
<1>c. SentAsNumbered(sock.wire, Fresh, Accepted(Fresh),
                     sock.wire \o SubSeq(Fresh, 1, Accepted(Fresh)), Rest(Fresh))
  BY <1>0, <1>a, <1>b, SendNumbers DEF Rest, Numbered
<1>d. /\ sock'.wire = sock.wire \o SubSeq(Fresh, 1, Accepted(Fresh))
      /\ sock'.fin = sock.fin /\ sock'.reset = sock.reset /\ sock'.edge = sock.edge
      /\ sock'.delivered = sock.delivered /\ sock'.inbox = sock.inbox
      /\ sock'.sent = sock.sent /\ sock'.established = sock.established
      /\ sock'.peer_fin = sock.peer_fin
  BY DEF TypeOK, Sent
<1>e. sock' \in Sockets
  BY <1>c, <1>d DEF TypeOK, Sent, SentAsNumbered
<1>f. /\ Len(sock'.wire) = written' /\ written' \in Nat
      /\ \A i \in 1..Len(sock'.wire) : sock'.wire[i] = i
  <2>1. /\ Len(sock'.wire) = Len(sock.wire) + Accepted(Fresh)
        /\ \A i \in 1..Len(sock'.wire) : sock'.wire[i] = i
    BY <1>c, <1>d DEF SentAsNumbered
  <2>2. written' = written + Accepted(Fresh) /\ Accepted(Fresh) \in Nat
    BY SMT, <1>b
  <2> QED
    BY SMTT(60), <1>0, <1>a, <2>1, <2>2
<1>2. TypeOK'
  BY ZenonT(60), <1>0, <1>1, <1>e, <1>f DEF TypeOK
<1>3. Numbered'
  BY SMTT(60), <1>0, <1>a, <1>f DEF Numbered
<1>4. FlagsAgree'
  BY <1>0, <1>1, <1>d, OneTop DEF FlagsAgree, Swapped
<1>5. ClosesDrained'
  BY <1>0, <1>1, <1>d, OneTop DEF ClosesDrained, Swapped, Excused
<1>6. CleanupInv'
  BY <1>0, <1>1, <1>d, OneTop
     DEF CleanupInv, Held, Swapped, Labels, QueuedLabels
<1>7. WriteEdgeInv'
  BY <1>0, <1>a, <1>b, <1>c, <1>d, SendAccepts DEF WriteEdgeInv, SentAsNumbered
<1>8. ~StopsAtLimit /\ ReadEdgeInv => ReadEdgeInv'
  BY <1>0, <1>1, <1>d, OneTop DEF ReadEdgeInv, Held, Swapped
<1>9. EstablishedInv'
  BY <1>0, <1>1, <1>d, OneTop DEF EstablishedInv, Held, Swapped
<1> QED
  BY <1>2, <1>3, <1>4, <1>5, <1>6, <1>7, <1>8, <1>9

\* write_raw_and_flush().
LEMMA WriteRawAndFlushKeeps ==
    ASSUME IInv, WriteRawAndFlush
    PROVE  IInv' /\ (~StopsAtLimit /\ ReadEdgeInv => ReadEdgeInv')
<1> DEFINE l == "write_raw_and_flush"
           long == ~Broken /\ Rest(Fresh) # <<>> /\ ~Fits(Rest(Fresh))
<1>1. Top(stack, l) /\ l \in WriteLabels
  BY DEF WriteRawAndFlush, At, Top, WriteLabels
<1>2. CASE ~OpenForWrites \/ conn.output_shutdown
  BY <1>1, <1>2, DropKeeps DEF WriteRawAndFlush
<1>3. CASE OpenForWrites /\ ~conn.output_shutdown /\ output # <<>> /\ Fits(Fresh)
  <2>1. Appends
    BY <1>3 DEF WriteRawAndFlush, Appends, Continue
  <2> QED
    BY <1>1, <1>3, <2>1, AppendKeeps
<1>4. CASE OpenForWrites /\ ~conn.output_shutdown /\ output # <<>> /\ ~Fits(Fresh)
  <2>1. ~conn.cleanup_done
    BY <1>4 DEF OpenForWrites, IInv, CleanupInv
  <2> QED
    BY <1>1, <1>4, <2>1, FailureKeeps
       DEF WriteRawAndFlush, Overflow, Continue
<1>5. CASE OpenForWrites /\ ~conn.output_shutdown /\ output = <<>> /\ long
  BY <1>1, <1>5, RawOverflowKeeps DEF WriteRawAndFlush, Continue
<1>6. CASE OpenForWrites /\ ~conn.output_shutdown /\ output = <<>> /\ ~long
  BY <1>1, <1>6, DirectSendKeeps DEF WriteRawAndFlush
<1> QED
  BY <1>2, <1>3, <1>4, <1>5, <1>6

\* flush().
LEMMA FlushKeeps ==
    ASSUME IInv, Flush PROVE IInv' /\ (~StopsAtLimit /\ ReadEdgeInv => ReadEdgeInv')
<1>1. Top(stack, "flush") /\ stack # <<>> /\ stack \in Seq(Frames)
  BY DEF Flush, At, Top, IInv, TypeOK
<1>2. CASE conn.state = "closed" \/ conn.is_closing
  <2>1. conn.is_closing
    BY <1>2 DEF IInv, StreamInv, FlagsAgree
  <2> QED
    BY <1>1, <1>2, <2>1, DropKeeps DEF Flush
<1>3. CASE ~(conn.state = "closed" \/ conn.is_closing) /\ output = <<>>
  <2>0. StackOnly /\ ~conn.cleanup_done /\ ~conn.is_closing
    BY <1>3 DEF Flush, StackOnly, histVars, IInv, CleanupInv
  <2>1. stack' \in Seq(Frames) /\ Swapped(stack, stack', "drained")
    BY <1>1, <1>3, SwapDo DEF Flush, Continue, Labels
  <2>2. TypeOK' /\ Numbered'
    BY SMTT(30), <2>0, <2>1 DEF IInv, StreamInv, TypeOK, Numbered, StackOnly
  <2>3. FlagsAgree' /\ ClosesDrained'
    BY <1>3, <2>0, <2>1
       DEF IInv, StreamInv, FlagsAgree, ClosesDrained, Excused,
                            StackOnly, Swapped
  <2>4. CleanupInv'
    BY <2>0, <2>1 DEF IInv, CleanupInv, StackOnly, Swapped, Held, Labels, QueuedLabels
  <2>5. WriteEdgeInv'
    BY <1>3, <2>0 DEF IInv, WriteEdgeInv, StackOnly
  <2>6. ReadEdgeInv => ReadEdgeInv'
    BY <1>1, <2>0, <2>1, OneTop DEF ReadEdgeInv, StackOnly, Swapped, Held
  <2>7. EstablishedInv'
    BY <2>0, <2>1 DEF IInv, EstablishedInv, StackOnly, Swapped, Held
  <2> QED
    BY ZenonT(60), <2>2, <2>3, <2>4, <2>5, <2>6, <2>7 DEF IInv, StreamInv
<1>4. CASE ~(conn.state = "closed" \/ conn.is_closing) /\ output # <<>> /\ Broken
  <2>1. ~conn.cleanup_done
    BY <1>4 DEF IInv, CleanupInv
  <2> QED
    BY <1>1, <1>4, <2>1, FailureKeeps DEF Flush, Continue
<1>5. CASE ~(conn.state = "closed" \/ conn.is_closing) /\ output # <<>> /\ ~Broken
  <2>1. /\ output \in Seq(Nat) /\ conn.state # "connecting" /\ written \in Nat
        /\ \A i \in 1..Len(output) : output[i] = Len(sock.wire) + i
        /\ Len(sock.wire) + Len(output) = written
    BY <1>5 DEF IInv, StreamInv, TypeOK, Numbered, FlagsAgree
  <2>2. Sends(output) /\ written' = written
    BY <1>5 DEF Flush, Sends, Continue, histVars
  <2> QED
    BY <1>1, <1>5, <2>1, <2>2, SendKeeps
<1> QED
  BY <1>2, <1>3, <1>4, <1>5

\* abort().
LEMMA AbortKeeps ==
    ASSUME IInv, Abort PROVE IInv' /\ (~StopsAtLimit /\ ReadEdgeInv => ReadEdgeInv')
<1>1. Top(stack, "abort") /\ ~conn.cleanup_done
  BY DEF Abort, At, Top, IInv, CleanupInv, Labels, QueuedLabels
<1> QED
  BY <1>1, FailureKeeps DEF Abort, Continue

\* finish_output_drained(), with or without a FIN to send.
LEMMA DrainedKeeps ==
    ASSUME IInv, Drained PROVE IInv' /\ (~StopsAtLimit /\ ReadEdgeInv => ReadEdgeInv')
<1> USE DEF IInv, StreamInv
<1>0. /\ stack \in Seq(Frames) /\ stack # <<>> /\ Top(stack, "drained") /\ output = <<>>
      /\ UNCHANGED <<output, input, queue, written, failed>> /\ ~conn.cleanup_done
  BY 
     DEF Drained, At, Top, TypeOK, ClosesDrained, CleanupInv, Labels, QueuedLabels,
         histVars
<1>1. /\ stack' \in Seq(Frames)
      /\ Swapped(stack, stack', "do_close") \/ Popped(stack, stack')
  BY <1>0, Pop, SwapDo DEF Drained, Continue, Labels
<1>a. /\ conn' \in Connections
      /\ conn'.state = conn.state /\ conn'.is_closing = conn.is_closing
      /\ conn'.input_shutdown = conn.input_shutdown
      /\ conn'.cleanup_done = conn.cleanup_done
      /\ conn.output_shutdown => conn'.output_shutdown
  BY ZenonT(60) DEF Drained, TypeOK
<1>b. /\ sock' \in Sockets
      /\ sock'.wire = sock.wire /\ sock'.reset = sock.reset
      /\ sock'.delivered = sock.delivered /\ sock'.inbox = sock.inbox
      /\ sock'.sent = sock.sent /\ sock'.established = sock.established
      /\ sock'.peer_fin = sock.peer_fin /\ (sock.edge => sock'.edge)
      /\ sock.fin => sock'.fin
  <2> DEFINE f == sock.fin \/ (conn.pending_shutdown /\ ~conn.output_shutdown /\ ShutdownDone)
  <2>1. f \in BOOLEAN /\ (sock.fin => f)
    OBVIOUS
  <2>2. \/ sock' = [sock EXCEPT !.fin = f]
        \/ sock' = [Rearmed(sock) EXCEPT !.fin = f]
    BY DEF Drained, Rearmed, TypeOK
  <2> HIDE DEF f
  <2>3. CASE sock' = [sock EXCEPT !.fin = f]
    BY <2>1, <2>3 DEF TypeOK
  <2>4. CASE sock' = [Rearmed(sock) EXCEPT !.fin = f]
    BY <2>1, <2>4 DEF TypeOK, Rearmed
  <2> QED
    BY <2>2, <2>3, <2>4
<1>c. conn'.output_shutdown => conn.output_shutdown \/ sock'.fin
  BY ZenonT(30) DEF Drained, TypeOK, Rearmed
<1>d. /\ chan' \in Channels
      /\ chan.armed = chan.events => chan'.armed = chan'.events
      /\ "read" \in chan.events => "read" \in chan'.events
  <2>1. CASE chan' = chan
    BY <2>1 DEF TypeOK
  <2>2. CASE chan' = Updated(chan.events \ {"write"})
    BY <2>2 DEF TypeOK, Updated
  <2> QED
    BY <2>1, <2>2 DEF Drained
<1>2. TypeOK'
  BY ZenonT(60), <1>0, <1>1, <1>a, <1>b, <1>d DEF TypeOK
<1>3. Numbered'
  BY SMTT(30), <1>0, <1>a, <1>b DEF Numbered
<1>4. FlagsAgree'
  BY <1>0, <1>a, <1>b, <1>c DEF FlagsAgree
<1>5. ClosesDrained'
  BY <1>0, <1>1, <1>a, <1>b, OneTop
     DEF ClosesDrained, Popped, Swapped, Excused
<1>6. CleanupInv'
  BY <1>0, <1>1, <1>a, <1>b, OneTop
     DEF CleanupInv, Held, Popped, Swapped, Labels, QueuedLabels
<1>7. WriteEdgeInv'
  BY <1>0, <1>a, <1>b, <1>d DEF WriteEdgeInv
<1>8. ~StopsAtLimit /\ ReadEdgeInv => ReadEdgeInv'
  BY ZenonT(60), <1>0, <1>1, <1>a, <1>b, <1>d, OneTop
     DEF ReadEdgeInv, Held, Popped, Swapped
<1>9. EstablishedInv'
  BY <1>0, <1>1, <1>a, <1>b, OneTop DEF EstablishedInv, Held, Popped, Swapped
<1> QED
  BY ZenonT(60), <1>2, <1>3, <1>4, <1>5, <1>6, <1>7, <1>8, <1>9

\* shutdown_write(), at once or after the output.
LEMMA ShutdownWriteKeeps ==
    ASSUME IInv, ShutdownWrite PROVE IInv' /\ (~StopsAtLimit /\ ReadEdgeInv => ReadEdgeInv')
<1> USE DEF IInv, StreamInv
<1>0. stack \in Seq(Frames) /\ stack # <<>> /\ Top(stack, "shutdown_write")
  BY DEF ShutdownWrite, At, Top, TypeOK
<1>1. CASE conn.output_shutdown
  BY ZenonT(60), <1>0, <1>1, DropKeeps DEF ShutdownWrite
<1>2. CASE ~conn.output_shutdown
  <2>0. /\ ~conn.is_closing /\ ~conn.cleanup_done
        /\ UNCHANGED <<output, input, queue, written, failed>>
    BY <1>2 DEF FlagsAgree, CleanupInv, ShutdownWrite, histVars
  <2>1. /\ stack' \in Seq(Frames)
        /\ \/ Swapped(stack, stack', "do_close") /\ output = <<>>
           \/ Popped(stack, stack')
    BY <1>0, <1>2, Pop, SwapDo
       DEF ShutdownWrite, OutputPending, Continue, Labels
  <2>2. /\ conn'.state = conn.state /\ conn'.is_closing = conn.is_closing
        /\ conn'.input_shutdown = conn.input_shutdown
        /\ conn'.cleanup_done = conn.cleanup_done
        /\ conn'.output_shutdown => output = <<>> /\ sock'.fin
        /\ conn' \in Connections
    <3> DEFINE d == ShutdownDone
    <3>1. d \in BOOLEAN
      BY DEF TypeOK, ShutdownDone
    <3>2. CASE OutputPending
      <4>1. conn' = [conn EXCEPT !.pending_shutdown = TRUE]
        BY <1>2, <3>2 DEF ShutdownWrite
      <4> QED
        BY <1>2, <4>1 DEF TypeOK
    <3>3. CASE ~OutputPending
      <4>1. /\ conn' = [conn EXCEPT !.output_shutdown = d, !.pending_shutdown = FALSE]
            /\ sock' = [sock EXCEPT !.fin = sock.fin \/ d]
            /\ output = <<>>
        BY <1>2, <3>3 DEF ShutdownWrite, OutputPending
      <4> HIDE DEF d
      <4> QED
        BY <3>1, <4>1 DEF TypeOK
    <3> QED
      BY <3>2, <3>3
  <2>3. /\ sock' \in Sockets
        /\ sock'.wire = sock.wire /\ sock'.reset = sock.reset
        /\ sock'.delivered = sock.delivered /\ sock'.inbox = sock.inbox
        /\ sock'.sent = sock.sent /\ sock'.established = sock.established
        /\ sock'.peer_fin = sock.peer_fin
        /\ sock.edge => sock'.edge
    <3> DEFINE f == sock.fin \/ ShutdownDone
    <3>1. f \in BOOLEAN
      OBVIOUS
    <3>2. sock' = Rearmed(sock) \/ sock' = [sock EXCEPT !.fin = f]
      BY <1>2 DEF ShutdownWrite
    <3> HIDE DEF f
    <3>3. CASE sock' = Rearmed(sock)
      BY <3>3 DEF Rearmed, TypeOK
    <3>4. CASE sock' = [sock EXCEPT !.fin = f]
      BY <3>1, <3>4 DEF TypeOK
    <3> QED
      BY <3>2, <3>3, <3>4
  <2>4. /\ chan' \in Channels
        /\ chan'.armed = chan'.events
        /\ "read" \in chan.events => "read" \in chan'.events
        /\ "write" \in chan.events => "write" \in chan'.events
    <3>1. CASE chan' = chan
      BY <2>0, <3>1 DEF TypeOK, WriteEdgeInv
    <3>2. CASE chan' = Updated(WriteInterest)
      BY <3>2 DEF TypeOK, Updated, WriteInterest
    <3> QED
      BY <1>2, <3>1, <3>2 DEF ShutdownWrite
  <2>5. TypeOK'
    BY ZenonT(60), <2>0, <2>1, <2>2, <2>3, <2>4 DEF TypeOK
  <2>6. Numbered'
    BY SMTT(60), <2>0, <2>2, <2>3 DEF Numbered
  <2>7. FlagsAgree'
    BY <2>0, <2>2 DEF FlagsAgree
  <2>8. ClosesDrained'
    BY <2>0, <2>1, <2>2, <2>3 DEF ClosesDrained, Excused, Popped, Swapped
  <2>9. CleanupInv'
    BY <2>0, <2>1, <2>2
       DEF CleanupInv, Held, Popped, Swapped, Labels, QueuedLabels
  <2>10. WriteEdgeInv'
    BY ZenonT(60), <1>0, <2>0, <2>1, <2>2, <2>3, <2>4, OneTop
       DEF WriteEdgeInv, Room, Held, Popped, Swapped
  <2>11. ReadEdgeInv => ReadEdgeInv'
    BY SMTT(30), <1>0, <2>0, <2>1, <2>2, <2>3, <2>4, OneTop
       DEF ReadEdgeInv, Held, Popped, Swapped
  <2>12. EstablishedInv'
    BY <2>0, <2>1, <2>2, <2>3 DEF EstablishedInv, Held, Popped, Swapped
  <2> QED
    BY <2>5, <2>6, <2>7, <2>8, <2>9, <2>10, <2>11, <2>12
<1> QED
  BY <1>1, <1>2

\* close(): it lingers while output is pending, and closes only without any.
LEMMA CloseKeeps ==
    ASSUME IInv, Close PROVE IInv' /\ (~StopsAtLimit /\ ReadEdgeInv => ReadEdgeInv')
<1> USE DEF IInv, StreamInv
<1>0. stack \in Seq(Frames) /\ stack # <<>> /\ Top(stack, "close")
  BY DEF Close, At, Top, TypeOK
<1>1. CASE conn.state = "closed" \/ conn.is_closing
  <2>1. conn.is_closing
    BY <1>1 DEF FlagsAgree
  <2> QED
    BY SMTT(30), <1>0, <1>1, <2>1, DropKeeps DEF Close
<1>2. CASE ~(conn.state = "closed" \/ conn.is_closing)
  <2>0. /\ ~conn.is_closing /\ ~conn.cleanup_done
        /\ UNCHANGED <<output, input, queue, written, failed>>
    BY <1>2 DEF CleanupInv, Close, histVars
  <2>1. /\ stack' \in Seq(Frames)
        /\ \/ Swapped(stack, stack', "do_close") /\ output = <<>>
           \/ Popped(stack, stack')
    BY <1>0, <1>2, Pop, SwapDo
       DEF Close, Lingers, FlagsAgree, Continue, Labels
  <2>2. /\ conn'.state = "closing" /\ conn'.is_closing = conn.is_closing
        /\ conn'.output_shutdown = conn.output_shutdown
        /\ conn'.cleanup_done = conn.cleanup_done
        /\ conn' \in Connections
    <3>1. conn' = [conn EXCEPT !.state = "closing"]
      BY <1>2 DEF Close
    <3> QED
      BY <3>1 DEF TypeOK
  <2>3. /\ sock' \in Sockets
        /\ sock'.wire = sock.wire /\ sock'.reset = sock.reset
        /\ sock'.delivered = sock.delivered /\ sock'.inbox = sock.inbox
        /\ sock'.sent = sock.sent /\ sock'.established = sock.established
        /\ sock'.peer_fin = sock.peer_fin /\ sock'.fin = sock.fin
        /\ sock.edge => sock'.edge
    <3>1. sock' = Rearmed(sock) \/ sock' = sock
      BY <1>2 DEF Close
    <3> QED
      BY ZenonT(60), <3>1 DEF TypeOK, Rearmed
  <2>4. /\ chan' \in Channels
        /\ chan'.armed = chan'.events
        /\ "write" \in chan.events => "write" \in chan'.events
    <3>1. CASE chan' = chan
      BY <2>0, <3>1 DEF TypeOK, WriteEdgeInv
    <3>2. CASE chan' = Updated(WriteInterest \ {"read"})
      BY <3>2 DEF TypeOK, Updated, WriteInterest
    <3> QED
      BY <1>2, <3>1, <3>2 DEF Close
  <2>5. TypeOK'
    BY <2>0, <2>1, <2>2, <2>3, <2>4 DEF TypeOK
  <2>6. Numbered'
    BY SMTT(30), <2>0, <2>2, <2>3 DEF Numbered
  <2>7. FlagsAgree'
    BY <1>0, <2>0, <2>2, <2>3, OneTop DEF FlagsAgree
  <2>8. ClosesDrained'
    BY <2>0, <2>1, <2>2, <2>3 DEF ClosesDrained, Excused, Popped, Swapped
  <2>9. CleanupInv'
    BY <2>0, <2>1, <2>2
       DEF CleanupInv, Held, Popped, Swapped, Labels, QueuedLabels
  <2>10. WriteEdgeInv'
    BY ZenonT(60), <1>0, <2>0, <2>1, <2>2, <2>3, <2>4, OneTop
       DEF WriteEdgeInv, Room, Held, Popped, Swapped
  <2>11. ReadEdgeInv => ReadEdgeInv'
    BY <2>0, <2>2, <2>3 DEF ReadEdgeInv
  <2>12. EstablishedInv'
    BY SMTT(30), <2>0, <2>1, <2>2, <2>3 DEF EstablishedInv, Held, Popped, Swapped
  <2> QED
    BY <2>5, <2>6, <2>7, <2>8, <2>9, <2>10, <2>11, <2>12
<1> QED
  BY <1>1, <1>2

\* do_close() up to its notification.
LEMMA DoCloseKeeps ==
    ASSUME IInv, DoClose PROVE IInv' /\ (~StopsAtLimit /\ ReadEdgeInv => ReadEdgeInv')
<1> USE DEF IInv, StreamInv
<1>0. /\ stack \in Seq(Frames) /\ stack # <<>> /\ Top(stack, "do_close")
      /\ output' = <<>> /\ UNCHANGED <<input, sock, queue, written, failed>>
      /\ ~conn.cleanup_done
  BY DEF DoClose, At, Top, TypeOK, histVars, CleanupInv, Labels, QueuedLabels
<1>1. /\ stack' \in Seq(Frames)
      /\ Swapped2(stack, stack', "user", "closed") \/ Popped(stack, stack')
  BY <1>0, Pop, SwapDo2 DEF DoClose, Continue, Notify, Labels
<1>a. /\ conn' \in Connections
      /\ conn'.state = "closed" /\ conn'.is_closing /\ conn'.output_shutdown
      /\ conn'.cleanup_done = conn.cleanup_done
  <2>1. CASE conn.is_closing
    <3>1. conn' = [conn EXCEPT !.state = "closed"]
      BY <2>1 DEF DoClose
    <3> QED
      BY <2>1, <3>1 DEF TypeOK, FlagsAgree
  <2>2. CASE ~conn.is_closing
    <3>1. conn' = [conn EXCEPT !.state = "closed", !.is_closing = TRUE,
                               !.input_shutdown = TRUE, !.output_shutdown = TRUE,
                               !.pending_shutdown = FALSE]
      BY <2>2 DEF DoClose
    <3> QED
      BY <3>1 DEF TypeOK
  <2> QED
    BY <2>1, <2>2
<1>b. /\ chan' \in Channels
      /\ chan'.armed = chan.armed
  BY DEF DoClose, TypeOK
<1>c. ~failed /\ ~sock.reset => Len(sock.wire) = written
  <2>1. CASE conn.is_closing
    BY <2>1 DEF Numbered
  <2>2. CASE ~conn.is_closing /\ ~failed /\ ~sock.reset
    <3>1. output = <<>> /\ Len(sock.wire) + Len(output) = written /\ sock.wire \in Seq(Nat)
      BY <1>0, <2>2 DEF ClosesDrained, Excused, Numbered, TypeOK
    <3> QED
      BY SMTT(30), <3>1, LenProperties
  <2> QED
    BY <2>1, <2>2
<1>2. TypeOK'
  BY SMTT(30), <1>0, <1>1, <1>a, <1>b DEF TypeOK
<1>3. Numbered'
  BY SMTT(60), <1>0, <1>a, <1>c DEF Numbered
<1>4. FlagsAgree'
  BY <1>0, <1>a DEF FlagsAgree
<1>5. ClosesDrained'
  BY <1>0, <1>1, <1>a, OneTop DEF ClosesDrained, Popped, Swapped2, Excused
<1>6. CleanupInv'
  BY <1>0, <1>1, <1>a, <1>b, OneTop
     DEF CleanupInv, Held, Popped, Swapped2, Labels, QueuedLabels
<1>7. WriteEdgeInv'
  BY <1>0, <1>a DEF WriteEdgeInv
<1>8. ~StopsAtLimit /\ ReadEdgeInv => ReadEdgeInv'
  BY <1>0, <1>a DEF ReadEdgeInv
<1>9. EstablishedInv'
  BY SMTT(30), <1>0, <1>1, <1>a, OneTop DEF EstablishedInv, Held, Popped, Swapped2
<1> QED
  BY ZenonT(60), <1>2, <1>3, <1>4, <1>5, <1>6, <1>7, <1>8, <1>9

\* do_close() after its notification: the callback is queued behind is_closing_.
LEMMA ClosedKeeps ==
    ASSUME IInv, Closed PROVE IInv' /\ (~StopsAtLimit /\ ReadEdgeInv => ReadEdgeInv')
<1> USE DEF IInv, StreamInv
<1>0. /\ stack \in Seq(Frames) /\ stack # <<>> /\ Top(stack, "closed")
      /\ UNCHANGED <<conn, output, input, chan, sock, written, failed>>
      /\ ~conn.cleanup_done /\ conn.is_closing
  BY DEF Closed, At, Top, TypeOK, histVars, CleanupInv, Labels, QueuedLabels, Held
<1>1. stack' \in Seq(Frames) /\ Popped(stack, stack')
  BY <1>0, Pop DEF Closed, Continue
<1>a. queue' \in Seq(QueuedFrames)
  <2>1. Do("cleanup") \in QueuedFrames
    BY DEF Do, Frame, QueuedFrames, QueuedLabels
  <2> QED
    BY SMT, <2>1 DEF Closed, QueuedByClose, TypeOK
<1>2. TypeOK'
  BY SMTT(60), <1>0, <1>1, <1>a DEF TypeOK
<1>3. Numbered'
  BY <1>0, <1>1 DEF Numbered
<1>4. FlagsAgree'
  BY <1>0, <1>1, OneTop DEF FlagsAgree, Popped
<1>5. ClosesDrained'
  BY <1>0, <1>1, OneTop DEF ClosesDrained, Popped, Excused
<1>6. CleanupInv'
  BY <1>0, <1>1, OneTop DEF CleanupInv, Held, Popped, Labels, QueuedLabels
<1>7. WriteEdgeInv'
  BY <1>0, <1>1, OneTop DEF WriteEdgeInv, Held, Popped, Room
<1>8. ~StopsAtLimit /\ ReadEdgeInv => ReadEdgeInv'
  BY <1>0, <1>1, OneTop DEF ReadEdgeInv, Held, Popped
<1>9. EstablishedInv'
  BY SMTT(30), <1>0, <1>1, OneTop DEF EstablishedInv, Held, Popped
<1> QED
  BY ZenonT(60), <1>2, <1>3, <1>4, <1>5, <1>6, <1>7, <1>8, <1>9

\* The callback of do_close(): nothing is under it that could register again.
LEMMA CleanupKeeps ==
    ASSUME IInv, Cleanup PROVE IInv' /\ (~StopsAtLimit /\ ReadEdgeInv => ReadEdgeInv')
<1> USE DEF IInv, StreamInv
<1>0. /\ stack \in Seq(Frames) /\ stack # <<>> /\ Top(stack, "cleanup")
      /\ UNCHANGED <<output, input, queue, written, failed>>
      /\ conn.is_closing
  BY DEF Cleanup, At, Top, TypeOK, histVars, CleanupInv, Held
<1>1. stack' \in Seq(Frames) /\ Popped(stack, stack') /\ \A l \in Labels : ~Held(stack', l)
  <2>1. stack' \in Seq(Frames) /\ Popped(stack, stack')
    BY <1>0, Pop DEF Cleanup, Continue
  <2> QED
    BY <1>0, <2>1 DEF CleanupInv, Popped, Held
<1>a. /\ conn' \in Connections
      /\ conn'.state = conn.state /\ conn'.is_closing = conn.is_closing
      /\ conn'.output_shutdown = conn.output_shutdown
  BY DEF Cleanup, TypeOK
<1>b. /\ chan' \in Channels
      /\ chan'.armed = {}
  BY DEF Cleanup, TypeOK, Forgets, CleanupInv
<1>c. /\ sock' \in Sockets
      /\ sock'.wire = sock.wire /\ sock'.reset = sock.reset
      /\ sock'.delivered = sock.delivered /\ sock'.inbox = sock.inbox
      /\ sock'.sent = sock.sent /\ sock'.established = sock.established
      /\ sock'.peer_fin = sock.peer_fin /\ sock'.fin = sock.fin
  BY ZenonT(60) DEF Cleanup, TypeOK
<1>2. TypeOK'
  BY <1>0, <1>1, <1>a, <1>b, <1>c DEF TypeOK
<1>3. Numbered'
  BY SMTT(30), <1>0, <1>1, <1>a, <1>c DEF Numbered
<1>4. FlagsAgree'
  BY <1>0, <1>1, <1>a, <1>c, OneTop DEF FlagsAgree, Popped
<1>5. ClosesDrained'
  BY <1>0, <1>1, <1>a, <1>c, OneTop DEF ClosesDrained, Popped, Excused
<1>6. CleanupInv'
  BY <1>0, <1>1, <1>a, <1>b DEF CleanupInv, Held, Labels, QueuedLabels
<1>7. WriteEdgeInv'
  BY <1>0, <1>a, <1>c DEF WriteEdgeInv
<1>8. ~StopsAtLimit /\ ReadEdgeInv => ReadEdgeInv'
  BY <1>0, <1>a, <1>c DEF ReadEdgeInv, FlagsAgree
<1>9. EstablishedInv'
  BY <1>0, <1>1, <1>a, <1>c, OneTop DEF EstablishedInv, Held, Popped
<1> QED
  BY ZenonT(60), <1>2, <1>3, <1>4, <1>5, <1>6, <1>7, <1>8, <1>9
=============================================================================
