--------------------------- MODULE StreamAwaiters ---------------------------
(***************************************************************************)
(* The coroutine awaiters of stream_io_awaitable.h over one TcpConnection  *)
(* that is attached to its loop: async_read, async_write, async_flush and  *)
(* async_close, their timeouts (awaiter_timeout_state.h), the event        *)
(* waiters and the pending read of Connection, and the loop that runs      *)
(* timers, callbacks, posted coroutines and socket events in turn.         *)
(*                                                                         *)
(* A reader is always posted to the loop.  The other awaiters resume their *)
(* coroutine inside the notification (resume_on_loop), so the loop thread  *)
(* is a stack of frames, innermost first.  <<c, k>> is the k-th await of   *)
(* coroutine c.  Code that touches an awaiter already destroyed is         *)
(* undefined: dangling is set and the model stops there.                   *)
(***************************************************************************)
EXTENDS Naturals, Sequences, SequencesExt

CONSTANTS
    Coroutines,
    Envs,        \* what is tried: [uses : Coroutines -> SUBSET Kinds,
                 \*   others_close, sync_errors, timeouts : BOOLEAN]
    MaxAwaits,   \* bound: awaits of a coroutine
    MaxInput     \* bound: pieces of data the peer sends

VARIABLES
    env,            \* the environment, chosen once
    conn,           \* the TcpConnection; output: bytes are queued
    input,          \* pieces in input_buffer_
    sent,           \* bound: pieces sent by the peer
    pending_read,   \* the await registered as pending read, or NoAwait
    waiters,        \* waiters_ of the connection, in order
    await,          \* the current await of each coroutine
    coroutines,     \* pending_coroutines_ of the loop
    batch,          \* the coroutines being drained
    phase,          \* the part of the loop's turn
    stack,          \* the loop thread
    dangling        \* a destroyed awaiter was touched

connVars == <<conn, input, sent>>
turnVars == <<coroutines, batch, phase>>
stream_vars == <<env, connVars, pending_read, waiters, await, turnVars, stack, dangling>>

Kinds == {"read", "write", "flush", "close"}
NoAwait == <<>>

Frame(at, who, event) == [at |-> at, who |-> who, event |-> event]
Do(at) == Frame(at, NoAwait, "none")

\* Every coroutine has been posted to the loop once, to start.
StreamInit ==
    /\ env \in Envs
    /\ conn = [state |-> "connected", input_shutdown |-> FALSE,
               output |-> FALSE, want |-> FALSE]
    /\ input = 0
    /\ sent = 0
    /\ pending_read = NoAwait
    /\ waiters = <<>>
    /\ await = [c \in Coroutines |->
                 [k |-> 0, kind |-> "start", at |-> "suspended", completed |-> TRUE,
                  suspending |-> FALSE, timer |-> "none", result |-> "success"]]
    /\ coroutines \in SetToSeqs({<<c, 0>> : c \in Coroutines})
    /\ batch = <<>>
    /\ phase = "timers"
    /\ stack = <<>>
    /\ dangling = FALSE

-----------------------------------------------------------------------------
(* Awaiters.                                                               *)

Alive(a) == await[a[1]].k = a[2] /\ await[a[1]].at = "suspended"

\* add_event_waiters()
Registered(a, events) ==
    waiters \o [i \in 1..Len(events) |-> [who |-> a, event |-> events[i]]]

Without(a) == SelectSeq(waiters, LAMBDA w : w.who # a)

\* await[c] when it has returned to the body of the coroutine.
Returned(c, status) ==
    [await EXCEPT ![c].at = "body", ![c].timer = "none", ![c].result = status]

\* The status that await_resume() finds.
Outcome(c) ==
    IF await[c].timer = "fired" /\ ~await[c].completed THEN "timed_out" ELSE await[c].result

\* AsyncReadAwaiter::await_resume() with that status.
ReadReturns(c, status) ==
    /\ pending_read' = NoAwait
    /\ IF status = "success"
       THEN /\ input' = 0
            /\ await' = Returned(c, IF /\ input = 0
                                       /\ conn.input_shutdown \/ conn.state = "closed"
                                    THEN "closed" ELSE "success")
       ELSE /\ await' = Returned(c, status)
            /\ UNCHANGED input
    /\ UNCHANGED <<conn, sent, waiters, coroutines>>

\* await_resume() of the other awaiters.
OtherReturns(c, status) ==
    /\ waiters' = Without(<<c, await[c].k>>)
    /\ await' = Returned(c, status)
    /\ UNCHANGED <<connVars, pending_read, coroutines>>

-----------------------------------------------------------------------------
(* The loop thread.                                                        *)

At(label) == stack # <<>> /\ Head(stack).at = label
Who == Head(stack).who
Continue(frames) == stack' = frames \o Tail(stack)
Steady == UNCHANGED <<env, batch, phase, dangling>>
Same == UNCHANGED <<connVars, pending_read, waiters, await, coroutines>>

\* What a pending read is completed with on an event.
ReadStatus(event) ==
    CASE event = "readable" -> "success"
      [] event = "input_shutdown" /\ input > 0 -> "success"
      [] event = "error" -> "error"
      [] OTHER -> "closed"

\* Mutant: a read is not posted once its timeout is armed.
PostsReaderUntimed(c) == await[c].timer # "armed"
\* complete_shared() posts the coroutine whatever the timeout does.
PostsReader(c) == await[c].at = "suspended"

\* A notify_*_event() without a handler: completes the pending read and takes
\* the callbacks of the waiters for the event; then goes on with rest.
Notify(event, rest) ==
    LET mine == SelectSeq(waiters, LAMBDA w : w.event = event)
        call(w) == Frame("callback", w.who, event)
    IN  /\ waiters' = SelectSeq(waiters, LAMBDA w : w.event # event)
        /\ Continue([i \in 1..Len(mine) |-> call(mine[i])] \o rest)
        /\ IF /\ event # "writable" /\ pending_read # NoAwait
              /\ Alive(pending_read) /\ ~await[pending_read[1]].completed
           THEN LET c == pending_read[1]
                IN  /\ await' = [await EXCEPT ![c].completed = TRUE,
                                              ![c].result = ReadStatus(event),
                                              ![c].timer = IF @ = "armed" THEN "none" ELSE @]
                    /\ coroutines' = IF PostsReader(c) THEN Append(coroutines, pending_read)
                                     ELSE coroutines
           ELSE UNCHANGED <<await, coroutines>>
        /\ pending_read' = IF event = "writable" THEN pending_read ELSE NoAwait

\* Mutant: async_close() resumes its coroutine inside its own await_suspend().
ResumesInlineAlways(c) == TRUE
ResumesInline(c) == ~await[c].suspending

\* The code that runs belongs to an awaiter that is gone.
Dangle ==
    /\ dangling' = TRUE
    /\ stack' = <<>>
    /\ Same
    /\ UNCHANGED <<env, batch, phase>>

\* The callback of a waiter of a write, flush or close.
Callback ==
    /\ At("callback")
    /\ LET c == Who[1]
           event == Head(stack).event
           status == CASE event = "error" -> "error"
                       [] event = "input_shutdown" -> "closed"
                       [] event = "closed" /\ await[c].kind # "close" -> "closed"
                       [] OTHER -> "success"
       IN  IF ~Alive(Who)
           THEN Dangle
           ELSE /\ IF await[c].completed \/ (event = "writable" /\ conn.output)
                   THEN Continue(<<>>) /\ Same
                   ELSE /\ await' = [await EXCEPT ![c].completed = TRUE, ![c].result = status,
                                                  ![c].timer = IF @ = "armed" THEN "none" ELSE @]
                        /\ waiters' = Without(Who)
                        /\ Continue(IF ResumesInline(c) THEN <<Frame("resume", Who, "none")>>
                                    ELSE <<>>)
                        /\ UNCHANGED <<connVars, pending_read, coroutines>>
                /\ Steady

\* handle.resume(): whatever the coroutine awaits now returns.
Resume ==
    /\ At("resume")
    /\ LET c == Who[1]
       IN  IF await[c].at = "done"
           THEN Continue(<<>>) /\ Same
           ELSE /\ IF await[c].kind = "read" THEN ReadReturns(c, Outcome(c))
                   ELSE OtherReturns(c, Outcome(c))
                /\ Continue(<<Frame("body", Who, "none")>>)
    /\ Steady

-----------------------------------------------------------------------------
(* The coroutines.                                                         *)

\* The next await of the coroutine that runs.
Fresh(c, kind, timer) ==
    [await EXCEPT ![c] = [k |-> @.k + 1, kind |-> kind, at |-> "suspended",
                          completed |-> FALSE, suspending |-> kind = "close",
                          timer |-> timer, result |-> "success"]]

\* co_await async_read(): await_ready(), await_suspend() and, when it does not
\* suspend, await_resume().
StartRead(c, timed) ==
    LET a == <<c, await[c].k + 1>>
        now == Fresh(c, "read", IF timed THEN "armed" ELSE "none")
        back(status) == [now EXCEPT ![c].at = "body", ![c].timer = "none",
                                    ![c].result = status]
    IN  /\ IF conn.state = "closed" \/ conn.input_shutdown \/ input > 0
           THEN /\ await' = back(IF input > 0 THEN "success" ELSE "closed")
                /\ input' = 0
                /\ pending_read' = NoAwait
                /\ UNCHANGED stack
           ELSE IF pending_read # NoAwait \/ conn.state # "connected"
           THEN /\ await' = back(IF pending_read # NoAwait THEN "invalid_state" ELSE "closed")
                /\ pending_read' = NoAwait
                /\ UNCHANGED <<input, stack>>
           ELSE /\ await' = now
                /\ pending_read' = a
                /\ Continue(<<>>)
                /\ UNCHANGED input
        /\ UNCHANGED <<conn, sent, waiters, coroutines>>

\* A write or flush registers its waiters and starts to send; then Wrote.
Submit(c, kind, timed, accepted, sends) ==
    LET a == <<c, await[c].k + 1>>
        now == Fresh(c, kind, IF timed THEN "wanted" ELSE "none")
    IN  /\ IF conn.state = "closed"
           THEN /\ await' = [now EXCEPT ![c].at = "body", ![c].timer = "none",
                                        ![c].result = "closed"]
                /\ UNCHANGED <<conn, waiters, stack>>
           ELSE /\ await' = now
                /\ waiters' = Registered(a, <<"writable", "error", "closed">>)
                /\ conn' = IF accepted THEN [conn EXCEPT !.output = TRUE, !.want = TRUE] ELSE conn
                /\ Continue(sends \o <<Frame("wrote", a, "none")>>)
        /\ UNCHANGED <<input, sent, pending_read, coroutines>>

\* co_await async_write(): write_and_flush() drops what comes after close().
StartWrite(c, timed) ==
    LET accepted == conn.state = "connected"
    IN  Submit(c, "write", timed, accepted, IF accepted THEN <<Do("flush")>> ELSE <<>>)

\* co_await async_flush()
StartFlush(c, timed) == Submit(c, "flush", timed, FALSE, <<Do("flush")>>)

\* The rest of await_suspend() of a write or a flush.
Wrote ==
    /\ At("wrote")
    /\ LET c == Who[1]
       IN  IF ~Alive(Who)
           THEN Dangle
           ELSE /\ IF conn.output
                   THEN /\ await' = [await EXCEPT ![c].timer = IF @ = "wanted" THEN "armed" ELSE @]
                        /\ Continue(<<>>)
                        /\ UNCHANGED <<connVars, pending_read, waiters, coroutines>>
                   ELSE /\ OtherReturns(c, "success")
                        /\ Continue(<<Frame("body", Who, "none")>>)
                /\ Steady

\* co_await async_close(), up to the close.
StartClose(c) ==
    LET a == <<c, await[c].k + 1>>
    IN  /\ IF conn.state = "closed"
           THEN /\ await' = [Fresh(c, "close", "none") EXCEPT
                               ![c].at = "body", ![c].suspending = FALSE]
                /\ UNCHANGED <<waiters, stack>>
           ELSE /\ await' = Fresh(c, "close", "none")
                /\ waiters' = Registered(a, <<"closed", "error", "input_shutdown">>)
                /\ Continue(<<Do("close"), Frame("closing", a, "none")>>)
        /\ UNCHANGED <<connVars, pending_read, coroutines>>

\* The rest of its await_suspend().
Closing ==
    /\ At("closing")
    /\ LET c == Who[1]
       IN  IF ~Alive(Who)
           THEN Dangle
           ELSE /\ IF await[c].completed \/ conn.state = "closed"
                   THEN /\ waiters' = Without(Who)
                        /\ await' = [Returned(c, await[c].result) EXCEPT ![c].suspending = FALSE]
                        /\ Continue(<<Frame("body", Who, "none")>>)
                   ELSE /\ await' = [await EXCEPT ![c].suspending = FALSE]
                        /\ Continue(<<>>)
                        /\ UNCHANGED waiters
                /\ UNCHANGED <<connVars, pending_read, coroutines>>
                /\ Steady

\* The body of a coroutine: another await, or its end, which follows a close.
Body ==
    /\ At("body")
    /\ LET c == Who[1]
       IN  \/ /\ await[c].k < MaxAwaits /\ await[c].kind # "close"
              /\ \E timed \in {FALSE, env.timeouts} :
                   \/ "read" \in env.uses[c] /\ StartRead(c, timed)
                   \/ "write" \in env.uses[c] /\ StartWrite(c, timed)
                   \/ "flush" \in env.uses[c] /\ StartFlush(c, timed)
                   \/ "close" \in env.uses[c] /\ ~timed /\ StartClose(c)
           \/ /\ await' = [await EXCEPT ![c].at = "done"]
              /\ Continue(<<>>)
              /\ UNCHANGED <<connVars, pending_read, waiters, coroutines>>
    /\ Steady

-----------------------------------------------------------------------------
(* The connection.                                                         *)

\* An await_suspend() is waiting for the flush that runs.
Suspending == \E i \in 1..Len(stack) : stack[i].at = "wrote"

\* The send takes everything, not all of it, or fails.
Flush ==
    /\ At("flush")
    /\ \/ /\ conn.state = "closed"
          /\ Continue(<<>>)
          /\ Same
       \/ /\ conn.state # "closed"
          /\ conn' = [conn EXCEPT !.output = FALSE]
          /\ Continue(<<Do("drained")>>)
          /\ UNCHANGED <<input, sent, pending_read, waiters, await, coroutines>>
       \/ /\ conn.state # "closed" /\ conn.output
          /\ conn' = [conn EXCEPT !.want = TRUE]
          /\ Continue(<<>>)
          /\ UNCHANGED <<input, sent, pending_read, waiters, await, coroutines>>
       \/ /\ conn.state # "closed" /\ conn.output
          /\ Suspending => env.sync_errors
          /\ Notify("error", <<Do("do_close")>>)
          /\ UNCHANGED connVars
    /\ Steady

\* finish_output_drained()
Drained ==
    /\ At("drained")
    /\ IF conn.state = "closing"
       THEN Continue(<<Do("do_close")>>) /\ Same
       ELSE /\ conn' = [conn EXCEPT !.want = FALSE]
            /\ Continue(<<>>)
            /\ UNCHANGED <<input, sent, pending_read, waiters, await, coroutines>>
    /\ Steady

CloseConn ==
    /\ At("close")
    /\ IF conn.state = "closed"
       THEN Continue(<<>>) /\ Same
       ELSE /\ conn' = [conn EXCEPT !.state = "closing", !.want = @ \/ conn.output]
            /\ Continue(IF conn.output THEN <<>> ELSE <<Do("do_close")>>)
            /\ UNCHANGED <<input, sent, pending_read, waiters, await, coroutines>>
    /\ Steady

\* do_close(): is_closing_ and the state are set together.
DoClose ==
    /\ At("do_close")
    /\ conn' = [state |-> "closed", input_shutdown |-> TRUE, output |-> FALSE, want |-> FALSE]
    /\ IF conn.state = "closed"
       THEN Continue(<<>>) /\ UNCHANGED <<pending_read, waiters, await, coroutines>>
       ELSE Notify("closed", <<Do("clear_event_waiters")>>)
    /\ UNCHANGED <<input, sent>>
    /\ Steady

ClearEventWaiters ==
    /\ At("clear_event_waiters")
    /\ waiters' = <<>>
    /\ Continue(<<>>)
    /\ UNCHANGED <<connVars, pending_read, await, coroutines>>
    /\ Steady

\* on_read_event() notifies a failure, and data while it is connected.
NotifyRead ==
    /\ At("notify")
    /\ IF Head(stack).event = "readable" /\ conn.state # "connected"
       THEN Continue(<<>>) /\ Same
       ELSE Notify(Head(stack).event, <<>>) /\ UNCHANGED connVars
    /\ Steady

\* on_read_event() after it has read the end of the stream, or failed to read.
EndOfInput ==
    /\ At("end_of_input")
    /\ IF conn.state = "closed"
       THEN Continue(<<>>) /\ Same
       ELSE /\ conn' = [conn EXCEPT !.input_shutdown = TRUE]
            /\ Notify("input_shutdown", <<Do("finish_closing")>>)
            /\ UNCHANGED <<input, sent>>
    /\ Steady

\* on_read_event() and on_write_event() end a close that waited for the output.
FinishClosing ==
    /\ At("finish_closing")
    /\ Continue(IF conn.state = "closing" /\ ~conn.output THEN <<Do("do_close")>> ELSE <<>>)
    /\ Same
    /\ Steady

\* on_write_event() after its flush, and after the notification.
Written ==
    /\ At("written")
    /\ IF conn.output THEN Continue(<<>>) /\ Same
       ELSE /\ Notify("writable", <<Do("after_writable")>>)
            /\ UNCHANGED connVars
    /\ Steady

AfterWritable ==
    /\ At("after_writable")
    /\ Continue((IF conn.output THEN <<Do("flush")>> ELSE <<>>) \o <<Do("finish_closing")>>)
    /\ Same
    /\ Steady

-----------------------------------------------------------------------------
(* The turn of the loop.                                                   *)

Idle == stack = <<>> /\ ~dangling

\* run_due_timers(), drain_callbacks(), drain_coroutines(), the event of the
\* channel (Channel::on_event() reads, then writes), and the two drains again.
Turn == <<"timers", "callbacks", "coroutines", "read event", "write event",
          "late callbacks", "late coroutines">>

\* Mutant: the timer only marks the timeout.
TimeoutPostsNothing(c) == coroutines
TimeoutPosts(c) == Append(coroutines, <<c, await[c].k>>)

\* The timer of an await comes due.
Timeout(c) ==
    /\ Idle /\ phase = "timers"
    /\ await[c].timer = "armed"
    /\ await' = [await EXCEPT ![c].timer = "fired"]
    /\ coroutines' = TimeoutPosts(c)
    /\ UNCHANGED <<env, connVars, pending_read, waiters, batch, phase, stack, dangling>>

\* A callback queued by another thread closes the connection.
OthersClose ==
    /\ Idle /\ phase \in {"callbacks", "late callbacks"}
    /\ env.others_close /\ conn.state = "connected"
    /\ stack' = <<Do("close")>>
    /\ UNCHANGED <<env, connVars, pending_read, waiters, await, turnVars, dangling>>

ReadEvent ==
    /\ Idle /\ phase = "read event"
    /\ conn.state = "connected" /\ ~conn.input_shutdown
    /\ phase' = "write event"
    /\ \E data, fin, fails \in BOOLEAN :
        /\ data \/ fin \/ fails
        /\ data => sent < MaxInput
        /\ input' = IF data THEN input + 1 ELSE input
        /\ sent' = IF data THEN sent + 1 ELSE sent
        /\ stack' = (IF fails THEN <<Frame("notify", NoAwait, "error")>> ELSE <<>>)
                    \o (IF data THEN <<Frame("notify", NoAwait, "readable")>> ELSE <<>>)
                    \o (IF fin \/ fails THEN <<Do("end_of_input")>> ELSE <<>>)
    /\ UNCHANGED <<env, conn, pending_read, waiters, await, coroutines, batch, dangling>>

WriteEvent ==
    /\ Idle /\ phase = "write event"
    /\ conn.want
    /\ phase' = "late callbacks"
    /\ stack' = <<Do("flush"), Do("written")>>
    /\ UNCHANGED <<env, connVars, pending_read, waiters, await, coroutines, batch, dangling>>

\* drain_coroutines() resumes the next one.
DrainCoroutine ==
    /\ Idle /\ batch # <<>>
    /\ stack' = <<Frame("resume", Head(batch), "none")>>
    /\ batch' = Tail(batch)
    /\ UNCHANGED <<env, connVars, pending_read, waiters, await, coroutines, phase, dangling>>

NextPhase ==
    /\ Idle /\ batch = <<>>
    /\ \E i \in 1..7 : phase = Turn[i] /\ phase' = Turn[(i % 7) + 1]
    /\ IF phase \in {"callbacks", "late callbacks"}
       THEN batch' = coroutines /\ coroutines' = <<>>
       ELSE UNCHANGED <<coroutines, batch>>
    /\ UNCHANGED <<env, connVars, pending_read, waiters, await, stack, dangling>>

Step ==
    \/ Callback \/ Resume \/ Body \/ Wrote \/ Closing
    \/ Flush \/ Drained \/ CloseConn \/ DoClose \/ ClearEventWaiters
    \/ NotifyRead \/ EndOfInput \/ FinishClosing \/ Written \/ AfterWritable

StreamNext ==
    \/ Step
    \/ \E c \in Coroutines : Timeout(c)
    \/ OthersClose \/ ReadEvent \/ WriteEvent
    \/ DrainCoroutine \/ NextPhase

\* The loop runs until it is told to quit, and every deadline passes.
StreamFairness ==
    /\ WF_stream_vars(Step) /\ WF_stream_vars(DrainCoroutine) /\ WF_stream_vars(NextPhase)
    /\ \A c \in Coroutines : SF_stream_vars(Timeout(c))

StreamSpec == StreamInit /\ [][StreamNext]_stream_vars /\ StreamFairness

-----------------------------------------------------------------------------
(* Properties.                                                             *)

Posted(a) == a \in Range(coroutines) \cup Range(batch)
Waits(a, event) == [who |-> a, event |-> event] \in Range(waiters)

\* Between two steps of the loop, a coroutine that is suspended and has not
\* been posted is still registered on an open connection for what resumes it:
\* a reader is the pending read and has missed no data and no end of the
\* stream; a writer or a close has its waiters, and a close waits on output
\* that write events will drain.  Of two coroutines that read the connection it
\* does not hold (FirstReadCompletes).
NoneForgotten ==
    Idle => \A c \in Coroutines :
        LET a == <<c, await[c].k>>
        IN  (await[c].at = "suspended" /\ ~Posted(a)) =>
              /\ conn.state # "closed"
              /\ CASE await[c].kind = "read" -> pending_read = a /\ input = 0 /\ ~conn.input_shutdown
                   [] await[c].kind = "close" -> Waits(a, "closed") /\ conn.output /\ conn.want
                   [] OTHER -> \A e \in {"writable", "error", "closed"} : Waits(a, e)

\* "The second read is refused and the first waiter still completes normally"
\* (CORE_BASELINE_RESULTS.md:573): between two steps of the loop no read is left
\* suspended, and unposted, next to data or behind the end of the stream.  The code
\* does not keep it: await_resume() of the refused read clears the first one's
\* registration.
FirstReadCompletes ==
    Idle => \A c \in Coroutines :
        (await[c].at = "suspended" /\ await[c].kind = "read" /\ ~Posted(<<c, await[c].k>>)) =>
            input = 0 /\ ~conn.input_shutdown /\ conn.state # "closed"

\* Callbacks of waiters and the rest of await_suspend() only ever touch an
\* awaiter whose coroutine is still suspended in it.
AwaitersOutliveCallbacks == ~dangling

\* A handle in the loop's queue was posted for the await its coroutine is
\* suspended in, and is there once: a timeout and an event that come together
\* resume the coroutine once.
ResumedOnce ==
    LET queued == batch \o coroutines
    IN  /\ \A i \in 1..Len(queued) : Alive(queued[i])
        /\ \A i, j \in 1..Len(queued) : queued[i] = queued[j] => i = j

\* An await returns when its timeout has passed, whatever the peer does, and
\* when its operation has completed: no coroutine stays suspended in one, and
\* between two awaits a coroutine is not suspended.
AwaitsReturn ==
    \A c \in Coroutines :
        []<>~(/\ await[c].k > 0 /\ await[c].at = "suspended"
              /\ await[c].timer # "none" \/ await[c].completed)
====
