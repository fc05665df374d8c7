---------------------------- MODULE TcpConnection ----------------------------
(***************************************************************************)
(* yuan::net::TcpConnection without TLS, on its loop thread, with the      *)
(* Connection base class, Channel::on_event() and the socket behind it.    *)
(*                                                                         *)
(* Every notification runs user code that may call the connection again,   *)
(* in the middle of the method that notifies.  The loop thread is          *)
(* therefore a stack of frames, the innermost first: a frame is the rest   *)
(* of a method, or user code.  Other threads only queue calls              *)
(* (dispatch_in_owner_loop); the peer and the kernel move at any moment.   *)
(* Bytes are numbered in the order in which they are written.              *)
(***************************************************************************)
EXTENDS Naturals, Sequences

CONSTANTS
    Sizes,          \* sizes of a write, in bytes
    OutputLimit,    \* max_output_buffer_size_, 0 for no limit
    SendRoom,       \* room of the socket's send buffer
    DrainMax,       \* ET_DRAIN_MAX_BUFFER_SIZE
    PacketMax,      \* max_packet_size_
    MaxCalls,       \* bound: calls made by user code
    MaxInput        \* bound: bytes sent by the peer

ASSUME TcpConnectionAssumption ==
    /\ Sizes \subseteq Nat \ {0}
    /\ OutputLimit \in Nat
    /\ SendRoom \in Nat \ {0}
    /\ DrainMax \in Nat \ {0}
    /\ PacketMax \in Nat
    /\ DrainMax < PacketMax
    /\ MaxCalls \in Nat
    /\ MaxInput \in Nat

VARIABLES
    conn,       \* the flags of the TcpConnection
    output,     \* output_buffer_
    input,      \* readable bytes of input_buffer_
    chan,       \* the Channel, and what the loop and epoll hold of it
    sock,       \* the socket
    stack,      \* the loop thread, innermost frame first
    queue,      \* callbacks queued in the loop
    calls,      \* calls made so far
    written,    \* history: bytes accepted by the write methods
    failed      \* history: aborted, over the limit, or a send failed

histVars == <<calls, written, failed>>
vars == <<conn, output, input, chan, sock, stack, queue, histVars>>

Frame(at, arg) == [at |-> at, arg |-> arg]
Do(at) == Frame(at, 0)

\* Accepted by an acceptor, or made by a connector.
Init ==
    /\ \E state \in {"connecting", "connected"} :
        /\ conn = [state |-> state, is_closing |-> FALSE, input_shutdown |-> FALSE,
                   output_shutdown |-> FALSE, pending_shutdown |-> FALSE,
                   cleanup_done |-> FALSE]
        /\ LET events == IF state = "connected" THEN {"read"} ELSE {"read", "write"}
           IN  chan = [events |-> events, armed |-> events]
        /\ sock = [open |-> TRUE, established |-> state = "connected", edge |-> TRUE,
                   wire |-> <<>>, delivered |-> 0, fin |-> FALSE,
                   inbox |-> 0, sent |-> 0, peer_fin |-> FALSE, reset |-> FALSE]
    /\ output = <<>>
    /\ input = 0
    /\ stack = <<>>
    /\ queue = <<>>
    /\ calls = 0
    /\ written = 0
    /\ failed = FALSE

-----------------------------------------------------------------------------
(* The socket, the peer and epoll.                                         *)

Lesser(a, b) == IF a < b THEN a ELSE b

Room == SendRoom - (Len(sock.wire) - sock.delivered)

\* A send after the peer's reset or after our own FIN fails for good.
Broken == sock.reset \/ sock.fin

\* What one send of the bytes accepts, and the socket after it.
Accepted(bytes) == Lesser(Room, Len(bytes))
Sent(bytes) == [sock EXCEPT !.wire = @ \o SubSeq(bytes, 1, Accepted(bytes))]
Rest(bytes) == SubSeq(bytes, Accepted(bytes) + 1, Len(bytes))

\* Mutant: enable_write() is forgotten.
WriteInterestNone == chan.events
WriteInterest == chan.events \cup {"write"}

\* update_channel() with new interest: epoll looks at the socket again.  A
\* channel without interest leaves channels_ and epoll, not connections_.
Updated(events) == [chan EXCEPT !.events = events, !.armed = events]
Rearmed(s) == [s EXCEPT !.edge = TRUE]

PeerVars == <<conn, output, input, chan, stack, queue, histVars>>

Establish ==
    /\ sock.open /\ ~sock.established /\ ~sock.reset
    /\ sock' = [sock EXCEPT !.established = TRUE, !.edge = TRUE]
    /\ UNCHANGED PeerVars

PeerSend ==
    /\ sock.open /\ sock.established /\ ~sock.peer_fin /\ ~sock.reset
    /\ sock.sent < MaxInput
    /\ sock' = [sock EXCEPT !.inbox = @ + 1, !.sent = @ + 1, !.edge = TRUE]
    /\ UNCHANGED PeerVars

PeerFin ==
    /\ sock.open /\ sock.established /\ ~sock.peer_fin /\ ~sock.reset
    /\ sock' = [sock EXCEPT !.peer_fin = TRUE, !.edge = TRUE]
    /\ UNCHANGED PeerVars

\* The peer refuses the connection or resets it.
PeerReset ==
    /\ sock.open /\ ~sock.reset
    /\ sock' = [sock EXCEPT !.reset = TRUE, !.edge = TRUE]
    /\ UNCHANGED PeerVars

PeerRead ==
    /\ sock.delivered < Len(sock.wire) /\ ~sock.reset
    /\ sock' = [sock EXCEPT !.delivered = @ + 1, !.edge = @ \/ Room = 0]
    /\ UNCHANGED PeerVars

\* What epoll_wait reports; a hang-up counts as every event asked for.
Reported ==
    IF sock.peer_fin \/ sock.reset THEN chan.events
    ELSE {e \in chan.armed :
            /\ sock.established
            /\ IF e = "read" THEN sock.inbox > 0 ELSE Room > 0}

-----------------------------------------------------------------------------
(* Frames.                                                                 *)

At(label) == stack # <<>> /\ Head(stack).at = label

\* The innermost frame is replaced by these.
Continue(frames) == stack' = frames \o Tail(stack)

\* A notify_*_event(): the event waiters and then the handler, which is looked
\* up first and kept alive whatever the waiters do, run as one piece of user code.
Notify == <<Do("user")>>

SendFailed == Notify \o <<Do("do_close")>>

-----------------------------------------------------------------------------
(* Writing.                                                                *)

\* The bytes of the write that is called.
Fresh == [i \in 1..Head(stack).arg |-> written + i]

OpenForWrites == conn.state = "connected" /\ ~conn.is_closing

\* can_append_output_locked() and its copies.
Fits(bytes) ==
    OutputLimit # 0 => Len(output) + Len(bytes) <= OutputLimit

Drop ==
    /\ Continue(<<>>)
    /\ UNCHANGED <<conn, output, input, chan, sock, queue, histVars>>

Overflow ==
    /\ failed' = TRUE
    /\ Continue(<<Do("do_close")>>)
    /\ UNCHANGED <<conn, output, input, chan, sock, queue, calls, written>>

\* Queues bytes behind the others, asks for write events and goes on with rest.
Enqueue(bytes, rest) ==
    IF Fits(bytes)
    THEN /\ output' = output \o bytes
         /\ written' = written + Len(bytes)
         /\ chan' = Updated(WriteInterest)
         /\ sock' = Rearmed(sock)
         /\ Continue(rest)
         /\ UNCHANGED <<conn, input, queue, calls, failed>>
    ELSE Overflow

\* write() and write_owned().
Write ==
    /\ At("write")
    /\ IF OpenForWrites /\ ~conn.output_shutdown THEN Enqueue(Fresh, <<>>) ELSE Drop

WriteAndFlush ==
    /\ At("write_and_flush")
    /\ IF OpenForWrites THEN Enqueue(Fresh, <<Do("flush")>>) ELSE Drop

\* A send past the empty output buffer: all of it, none for good, or a part of
\* it, with the rest queued and write events asked for.
DirectSend(rest) ==
    IF Broken
    THEN /\ failed' = TRUE
         /\ Continue(SendFailed)
         /\ UNCHANGED <<conn, output, input, chan, sock, queue, calls, written>>
    ELSE /\ written' = written + Len(Fresh)
         /\ output' = Rest(Fresh) \o output
         /\ IF Rest(Fresh) = <<>>
            THEN /\ sock' = Sent(Fresh)
                 /\ Continue(<<Do("drained")>>)
                 /\ UNCHANGED chan
            ELSE /\ sock' = Rearmed(Sent(Fresh))
                 /\ chan' = Updated(WriteInterest)
                 /\ Continue(rest)
         /\ UNCHANGED <<conn, input, queue, calls, failed>>

\* Mutant: the direct path does not look at the output buffer.
MaySendDirectlyAlways == TRUE
MaySendDirectly == output = <<>>

WriteOwnedAndFlush ==
    /\ At("write_owned_and_flush")
    /\ IF ~OpenForWrites THEN Drop
       ELSE IF ~MaySendDirectly THEN Enqueue(Fresh, <<Do("flush")>>)
       ELSE IF ~Fits(Fresh) THEN Overflow
       ELSE DirectSend(<<Do("flush")>>)

WriteRawAndFlush ==
    /\ At("write_raw_and_flush")
    /\ IF ~OpenForWrites \/ conn.output_shutdown THEN Drop
       ELSE IF output # <<>> THEN
            IF Fits(Fresh)
            THEN /\ output' = output \o Fresh
                 /\ written' = written + Len(Fresh)
                 /\ Continue(<<Do("flush")>>)
                 /\ UNCHANGED <<conn, input, chan, sock, queue, calls, failed>>
            ELSE Overflow
       ELSE IF ~Broken /\ Rest(Fresh) # <<>> /\ ~Fits(Rest(Fresh)) THEN
            \* A part is sent before the rest turns out to be too long.
            /\ sock' = Sent(Fresh)
            /\ written' = written + Accepted(Fresh)
            /\ failed' = TRUE
            /\ Continue(<<Do("do_close")>>)
            /\ UNCHANGED <<conn, output, input, chan, queue, calls>>
       ELSE DirectSend(<<>>)

Flush ==
    /\ At("flush")
    /\ IF conn.state = "closed" \/ conn.is_closing THEN Drop
       ELSE IF output = <<>> THEN
            /\ Continue(<<Do("drained")>>)
            /\ UNCHANGED <<conn, output, input, chan, sock, queue, histVars>>
       ELSE IF Broken THEN
            /\ failed' = TRUE
            /\ Continue(SendFailed)
            /\ UNCHANGED <<conn, output, input, chan, sock, queue, calls, written>>
       ELSE /\ output' = Rest(output)
            /\ IF Rest(output) = <<>>
               THEN /\ sock' = Sent(output)
                    /\ Continue(<<Do("drained")>>)
                    /\ UNCHANGED chan
               ELSE /\ sock' = Rearmed(Sent(output))
                    /\ chan' = Updated(WriteInterest)
                    /\ Continue(<<>>)
            /\ UNCHANGED <<conn, input, queue, histVars>>

-----------------------------------------------------------------------------
(* Shutting down and closing.                                              *)

\* Socket::shutdown_write() fails on a socket that is no longer connected.
ShutdownDone == sock.established /\ ~sock.reset

\* finish_output_drained() with nothing left to send.
Drained ==
    /\ At("drained")
    /\ LET shut == conn.pending_shutdown /\ ~conn.output_shutdown
           done == shut /\ ShutdownDone
       IN  /\ conn' = [conn EXCEPT !.output_shutdown = @ \/ done,
                                   !.pending_shutdown = IF shut THEN FALSE ELSE @]
           /\ IF (done /\ conn.input_shutdown) \/ conn.state = "closing"
              THEN /\ Continue(<<Do("do_close")>>)
                   /\ sock' = [sock EXCEPT !.fin = @ \/ done]
                   /\ UNCHANGED chan
              ELSE /\ Continue(<<>>)
                   /\ IF "write" \in chan.events
                      THEN /\ chan' = Updated(chan.events \ {"write"})
                           /\ sock' = [Rearmed(sock) EXCEPT !.fin = @ \/ done]
                      ELSE /\ sock' = [sock EXCEPT !.fin = @ \/ done]
                           /\ UNCHANGED chan
    /\ UNCHANGED <<output, input, queue, histVars>>

\* Mutant: the FIN does not wait for the output.
OutputPendingIgnored == FALSE
OutputPending == output # <<>>

ShutdownWrite ==
    /\ At("shutdown_write")
    /\ IF conn.output_shutdown THEN Drop
       ELSE IF OutputPending THEN
            /\ conn' = [conn EXCEPT !.pending_shutdown = TRUE]
            /\ chan' = Updated(WriteInterest)
            /\ sock' = Rearmed(sock)
            /\ Continue(<<>>)
            /\ UNCHANGED <<output, input, queue, histVars>>
       ELSE /\ conn' = [conn EXCEPT !.output_shutdown = ShutdownDone,
                                    !.pending_shutdown = FALSE]
            /\ sock' = [sock EXCEPT !.fin = @ \/ ShutdownDone]
            /\ Continue(IF ShutdownDone /\ conn.input_shutdown
                        THEN <<Do("do_close")>> ELSE <<>>)
            /\ UNCHANGED <<output, input, chan, queue, histVars>>

Lingers == conn.state # "connecting" /\ output # <<>>

Close ==
    /\ At("close")
    /\ IF conn.state = "closed" \/ conn.is_closing THEN Drop
       ELSE /\ conn' = [conn EXCEPT !.state = "closing"]
            /\ IF Lingers
               THEN /\ chan' = Updated(WriteInterest \ {"read"})
                    /\ sock' = Rearmed(sock)
                    /\ Continue(<<>>)
               ELSE /\ Continue(<<Do("do_close")>>)
                    /\ UNCHANGED <<chan, sock>>
            /\ UNCHANGED <<output, input, queue, histVars>>

Abort ==
    /\ At("abort")
    /\ failed' = TRUE
    /\ Continue(<<Do("do_close")>>)
    /\ UNCHANGED <<conn, output, input, chan, sock, queue, calls, written>>

\* is_closing_ and close_notified_ are set together and never reset.
DoClose ==
    /\ At("do_close")
    /\ output' = <<>>
    /\ chan' = [chan EXCEPT !.events = {}]
    /\ IF conn.is_closing
       THEN /\ conn' = [conn EXCEPT !.state = "closed"]
            /\ Continue(<<>>)
       ELSE /\ conn' = [conn EXCEPT !.state = "closed", !.is_closing = TRUE,
                          !.input_shutdown = TRUE, !.output_shutdown = TRUE,
                          !.pending_shutdown = FALSE]
            /\ Continue(Notify \o <<Do("closed")>>)
    /\ UNCHANGED <<input, sock, queue, histVars>>

\* Mutant: do_close() leaves the socket and the channel to the destructor.
QueuedByCloseNone == <<>>
QueuedByClose == <<Do("cleanup")>>

\* do_close() after notify_closed_event().
Closed ==
    /\ At("closed")
    /\ queue' = queue \o QueuedByClose
    /\ Continue(<<>>)
    /\ UNCHANGED <<conn, output, input, chan, sock, histVars>>

\* Mutant: close_channel() looks at the interest, not at the registration.
ForgetsByInterest == chan.events # {}
\* close_channel() finds the channel in channels_.
Forgets == chan.armed # {}

\* The callback that do_close() queues.
Cleanup ==
    /\ At("cleanup")
    /\ conn' = [conn EXCEPT !.cleanup_done = TRUE]
    /\ chan' = IF ~conn.cleanup_done /\ Forgets THEN [chan EXCEPT !.armed = {}] ELSE chan
    /\ sock' = [sock EXCEPT !.open = FALSE]
    /\ Continue(<<>>)
    /\ UNCHANGED <<output, input, queue, histVars>>

-----------------------------------------------------------------------------
(* Events.                                                                 *)

\* loop() dispatches what epoll reports to Channel::on_event().
OnEvent ==
    /\ stack = <<>>
    /\ sock.open /\ sock.edge
    /\ chan.armed # {}
    /\ Reported # {} \/ sock.peer_fin \/ sock.reset
    /\ sock' = [sock EXCEPT !.edge = FALSE]
    /\ stack' = (IF "read" \in Reported \cap chan.events
                 THEN <<Do("on_read_event")>> ELSE <<>>)
                    \o (IF "write" \in Reported THEN <<Do("on_write_event")>> ELSE <<>>)
    /\ UNCHANGED <<conn, output, input, chan, queue, histVars>>

\* Both handlers begin by finishing a connect.
Connecting(next) ==
    /\ IF conn.state # "connecting"
       THEN Continue(<<Do(next)>>) /\ UNCHANGED conn
       ELSE IF sock.reset
       THEN Continue(Notify \o <<Do("close")>>) /\ UNCHANGED conn
       ELSE /\ conn' = [conn EXCEPT !.state = "connected"]
            /\ Continue(Notify \o <<Do(next)>>)
    /\ UNCHANGED <<output, input, chan, sock, queue, histVars>>

OnReadEvent == At("on_read_event") /\ Connecting("read")

\* The second half of Channel::on_event() looks at the interest again.
OnWriteEvent ==
    /\ At("on_write_event")
    /\ IF "write" \in chan.events THEN Connecting("ready") ELSE Drop

\* How far the input buffer may fill in one event: drain_grow_input_buffer()
\* stops at DrainMax, grow_input_buffer() makes room once more in the next.
FillTo == IF input < DrainMax THEN DrainMax ELSE PacketMax

ReadsUpTo == Lesser(FillTo, input + sock.inbox)

RoomLeft == ReadsUpTo < FillTo

\* What ends the loop of reads: no room, an error, the end of the stream or
\* EAGAIN, upon which the interest in read events is renewed.
ReadEnds ==
    IF input >= PacketMax THEN "overfull"
    ELSE IF ~RoomLeft THEN "full"
    ELSE IF sock.reset THEN "error"
    ELSE IF sock.peer_fin THEN "eof"
    ELSE "again"

Read ==
    /\ At("read")
    /\ LET to == IF ReadEnds = "overfull" THEN input ELSE ReadsUpTo
           read == [sock EXCEPT !.inbox = @ - (to - input)]
           bad == ReadEnds \in {"overfull", "error"}
       IN  /\ input' = to
           /\ IF ReadEnds = "again"
              THEN /\ chan' = Updated(chan.events \cup {"read"})
                   /\ sock' = Rearmed(read)
              ELSE /\ sock' = read
                   /\ UNCHANGED chan
           /\ Continue((IF bad THEN Notify ELSE <<>>)
                        \o (IF to > input THEN <<Do("readable")>> ELSE <<>>)
                        \o (IF bad \/ ReadEnds = "eof" THEN <<Do("peer_closed")>> ELSE <<>>))
    /\ UNCHANGED <<conn, output, queue, histVars>>

Readable ==
    /\ At("readable")
    /\ Continue(IF conn.state = "connected" THEN Notify ELSE <<>>)
    /\ UNCHANGED <<conn, output, input, chan, sock, queue, histVars>>

PeerClosed ==
    /\ At("peer_closed")
    /\ IF conn.state = "closed" \/ conn.is_closing THEN Drop
       ELSE /\ conn' = [conn EXCEPT !.input_shutdown = TRUE]
            /\ chan' = Updated(chan.events \ {"read"})
            /\ sock' = Rearmed(sock)
            /\ Continue(Notify \o <<Do("after_shutdown")>>)
            /\ UNCHANGED <<output, input, queue, histVars>>

ClosesOnEof ==
    conn.output_shutdown \/ (conn.state = "closing" /\ output = <<>>)

AfterShutdown ==
    /\ At("after_shutdown")
    /\ Continue(IF ClosesOnEof THEN <<Do("do_close")>> ELSE <<>>)
    /\ UNCHANGED <<conn, output, input, chan, sock, queue, histVars>>

\* on_write_event() from the flush on, in four parts.
Ready ==
    /\ At("ready")
    /\ Continue(IF conn.state \in {"connected", "closing"}
                THEN <<Do("flush"), Do("flushed")>> ELSE <<>>)
    /\ UNCHANGED <<conn, output, input, chan, sock, queue, histVars>>

Flushed ==
    /\ At("flushed")
    /\ Continue(IF output = <<>> THEN Notify \o <<Do("notified")>> ELSE <<>>)
    /\ UNCHANGED <<conn, output, input, chan, sock, queue, histVars>>

Notified ==
    /\ At("notified")
    /\ Continue((IF output # <<>> THEN <<Do("flush")>> ELSE <<>>) \o <<Do("written")>>)
    /\ UNCHANGED <<conn, output, input, chan, sock, queue, histVars>>

Written ==
    /\ At("written")
    /\ Continue(IF conn.state = "closing" /\ output = <<>> THEN <<Do("do_close")>> ELSE <<>>)
    /\ UNCHANGED <<conn, output, input, chan, sock, queue, histVars>>

-----------------------------------------------------------------------------
(* Callers.                                                                *)

\* Calls other threads may make; write() and write_and_flush() from another
\* thread run as write_owned() and write_owned_and_flush().
ForeignCalls ==
    {Frame(op, n) : op \in {"write", "write_owned_and_flush", "write_raw_and_flush"},
                    n \in Sizes}
        \cup {Do("close")}
        \cup IF conn.state = "connecting" THEN {} ELSE {Do("flush"), Do("shutdown_write")}

LoopCalls ==
    ForeignCalls \cup {Frame("write_and_flush", n) : n \in Sizes} \cup {Do("abort")}

\* User code on the loop thread calls the connection, ...
UserCalls ==
    /\ At("user")
    /\ calls < MaxCalls
    /\ calls' = calls + 1
    /\ \E call \in LoopCalls : stack' = <<call>> \o stack
    /\ UNCHANGED <<conn, output, input, chan, sock, queue, written, failed>>

\* ... takes the input, ...
TakeInput ==
    /\ At("user")
    /\ input > 0
    /\ input' = 0
    /\ UNCHANGED <<conn, output, chan, sock, stack, queue, histVars>>

\* ... and returns.
UserReturns ==
    /\ At("user")
    /\ Continue(<<>>)
    /\ UNCHANGED <<conn, output, input, chan, sock, queue, histVars>>

\* dispatch_in_owner_loop() on another thread.
Dispatch ==
    /\ calls < MaxCalls
    /\ calls' = calls + 1
    /\ \E call \in ForeignCalls : queue' = Append(queue, call)
    /\ UNCHANGED <<conn, output, input, chan, sock, stack, written, failed>>

RunQueued ==
    /\ stack = <<>>
    /\ queue # <<>>
    /\ stack' = <<Head(queue)>>
    /\ queue' = Tail(queue)
    /\ UNCHANGED <<conn, output, input, chan, sock, histVars>>

-----------------------------------------------------------------------------
Methods ==
    \/ Write \/ WriteAndFlush \/ WriteOwnedAndFlush \/ WriteRawAndFlush \/ Flush
    \/ Drained \/ ShutdownWrite \/ Close \/ Abort \/ DoClose \/ Closed \/ Cleanup
    \/ OnReadEvent \/ OnWriteEvent \/ Read \/ Readable \/ PeerClosed
    \/ AfterShutdown \/ Ready \/ Flushed \/ Notified \/ Written \/ UserReturns

Peer == Establish \/ PeerSend \/ PeerFin \/ PeerReset \/ PeerRead

Next ==
    \/ Methods \/ UserCalls \/ TakeInput
    \/ OnEvent \/ RunQueued
    \/ Dispatch
    \/ Peer

Spec == Init /\ [][Next]_vars

\* The methods and the user code return, every iteration of loop() dispatches
\* events and runs callbacks, and the peer goes on reading.
FairSpec ==
    /\ Spec
    /\ WF_vars(Methods)
    /\ WF_vars(OnEvent)
    /\ WF_vars(RunQueued)
    /\ WF_vars(PeerRead)

-----------------------------------------------------------------------------
(* Properties.                                                             *)

\* Bytes leave in the order in which the write methods accepted them, whichever
\* of the queued, direct and raw paths each took, and none is lost or sent
\* twice: not while the connection is open, and not by a close() right after
\* write() that met no error, no overflow and no abort().
StreamInOrder ==
    /\ sock.wire = [i \in 1..Len(sock.wire) |-> i]
    /\ ~conn.is_closing => sock.wire \o output = [i \in 1..written |-> i]
    /\ conn.state = "closed" /\ ~failed /\ ~sock.reset => Len(sock.wire) = written

\* The loop thread never goes back to the poller with work that no edge of the
\* socket will bring it back to: pending output will be reported writable, at
\* once or as soon as the peer makes room, and data or an end of stream that
\* on_read_event() has not seen will be reported readable.
EdgesBringBack ==
    stack = <<>> =>
        /\ output # <<>> /\ ~conn.is_closing =>
              /\ "write" \in chan.armed
              /\ sock.edge \/ (Room = 0 /\ ~sock.reset)
        /\ /\ conn.state = "connected" /\ ~conn.input_shutdown
           /\ sock.inbox > 0 \/ sock.peer_fin
           => "read" \in chan.armed /\ sock.edge

\* Once the callback of do_close() has run, the loop and epoll hold no pointer
\* to the channel, even if a method below it on the stack registered it again.
ClosedIsUnregistered ==
    conn.cleanup_done => chan.armed = {}

\* shutdown_write() and finish_output_drained() send the FIN behind every byte
\* accepted before it.
FinFollowsOutput ==
    [][~sock.fin /\ sock'.fin => output = <<>> /\ Len(sock.wire) = written]_vars

\* A connection on which close() has been called, with output pending or not, and
\* one that an error or abort() closes, gives up its socket in the end: the peer
\* goes on reading, and do_close() leaves a callback behind.
ClosingEnds == conn.state \in {"closing", "closed"} ~> ~sock.open
=============================================================================
