----------------------------- MODULE RpcSession -----------------------------
(* A client RpcSession of libs/rpc, the server session at the other end of  *)
(* its transport, the PendingCallRegistry that matches responses to calls,  *)
(* and the RpcCoroutineRegistry through which a response resumes the        *)
(* coroutine that awaits it.  Every call is awaited by a coroutine on a     *)
(* thread of its own; "io" is the thread that delivers received bytes and   *)
(* "poller" the one that calls poll_timeouts().  A step is what a thread    *)
(* does under one lock, or one callback outside of the locks.               *)
(*                                                                          *)
(* A frame is two units of bytes, its header and its body.  A request       *)
(* carries the call it came from, so that an answer can be traced to it.    *)
EXTENDS Naturals, Sequences, Functions

CONSTANTS
    Calls,      \* the calls, each awaited by its own coroutine
    RpcEnvs     \* [timed: SUBSET Calls, co: [Calls -> Nat], failures,
                \*  slow_sends, bad_frames: BOOLEAN]: which calls have a
                \* timeout, their coroutine ids, whether sends fail and the
                \* transport closes, whether a deadline may pass while the
                \* send is under way, whether responses arrive damaged

ASSUME RpcAssumption ==
    /\ RpcEnvs \subseteq [timed : SUBSET Calls, co : [Calls -> Nat], failures : BOOLEAN,
                          slow_sends : BOOLEAN, bad_frames : BOOLEAN]
    /\ "io" \notin Calls /\ "poller" \notin Calls

VARIABLES
    rpc_env,
    open,       \* transport_->is_open()
    next_id,    \* PendingCallRegistry::next_id_
    calls_,     \* PendingCallRegistry::calls_, request id -> the call
    entries_,   \* RpcCoroutineRegistry::entries_, coroutine id -> entry
    todo,       \* what each thread still has to do, first step first
    wire,       \* units on their way to each side
    decoder,    \* FrameStreamDecoder::buffer_ of each side
    decoding,   \* the side is in the loop of receive_bytes
    resumed,    \* how often each coroutine was resumed
    got         \* the answer await_resume took, or None

rpc_vars == <<rpc_env, open, next_id, calls_, entries_, todo, wire,
              decoder, decoding, resumed, got>>
-----------------------------------------------------------------------------
Threads == Calls \cup {"io", "poller"}
Sides == {"client", "server"}
None == [status |-> "none"]

\* A map with one more key, and without one, as after emplace() and erase().
Emplaced(f, k, v) == [x \in DOMAIN f \cup {k} |-> IF x \in DOMAIN f THEN f[x] ELSE v]
Erased(f, k) == Restrict(f, DOMAIN f \ {k})

Response(id, c, status) ==
    [kind |-> "response", id |-> id, co |-> rpc_env.co[c], of |-> c,
     status |-> status]

\* encode_frame: a header that says what it is, and the body behind it.
Units(frame, damaged) ==
    <<[part |-> "header", bad |-> damaged, frame |-> frame],
      [part |-> "body", bad |-> damaged, frame |-> frame]>>

RpcInit ==
    /\ rpc_env \in RpcEnvs
    /\ open = TRUE
    /\ next_id = 1
    /\ calls_ = <<>>
    /\ entries_ = <<>>
    /\ todo = [t \in Threads |-> IF t \in Calls THEN <<[op |-> "suspend"]>>
                                                ELSE <<>>]
    /\ wire = [s \in Sides |-> <<>>]
    /\ decoder = [s \in Sides |-> <<>>]
    /\ decoding = [s \in Sides |-> FALSE]
    /\ resumed = [c \in Calls |-> 0]
    /\ got = [c \in Calls |-> None]

Doing(t, op) == todo[t] # <<>> /\ Head(todo[t]).op = op
Then(t, ops) == todo' = [todo EXCEPT ![t] = ops \o Tail(@)]

Complete(response) == [op |-> "complete", response |-> response]
-----------------------------------------------------------------------------
(* RpcCoroutineRegistry.                                                    *)

\* suspend(): the id must be free; otherwise await_suspend returns false and
\* the coroutine goes on with "duplicate rpc coroutine id".
Suspend(c) ==
    /\ Doing(c, "suspend")
    /\ IF rpc_env.co[c] \in DOMAIN entries_
       THEN /\ got' = [got EXCEPT ![c] = Response(0, c, "duplicate")]
            /\ resumed' = [resumed EXCEPT ![c] = @ + 1]
            /\ Then(c, <<>>)
            /\ UNCHANGED entries_
       ELSE /\ entries_' = Emplaced(entries_, rpc_env.co[c], [call |-> c, result |-> None])
            /\ Then(c, <<[op |-> "create"]>>)
            /\ UNCHANGED <<resumed, got>>
    /\ UNCHANGED <<rpc_env, open, next_id, calls_, wire, decoder,
                   decoding>>

\* complete(): the result is stored under the lock, the handle is resumed
\* after it is released.
CompleteEntry(t) ==
    /\ Doing(t, "complete")
    /\ LET response == Head(todo[t]).response
           co == response.co
       IN  IF co \in DOMAIN entries_
           THEN /\ entries_' = [entries_ EXCEPT ![co].result = response]
                /\ Then(t, <<[op |-> "resume", call |-> entries_[co].call]>>)
           ELSE Then(t, <<>>) /\ UNCHANGED entries_
    /\ UNCHANGED <<rpc_env, open, next_id, calls_, wire, decoder,
                   decoding, resumed, got>>

\* take(): the entry leaves the map with its result.
Take(co) ==
    IF co \in DOMAIN entries_ /\ entries_[co].result # None
    THEN Erased(entries_, co) ELSE entries_

\* handle.resume() and the await_resume it leads to.
ResumeCoroutine(t) ==
    /\ Doing(t, "resume")
    /\ LET c == Head(todo[t]).call
           co == rpc_env.co[c]
       IN  /\ resumed' = [resumed EXCEPT ![c] = @ + 1]
           /\ got' = [got EXCEPT ![c] = IF co \in DOMAIN entries_
                                        THEN entries_[co].result ELSE None]
           /\ entries_' = Take(co)
    /\ Then(t, <<>>)
    /\ UNCHANGED <<rpc_env, open, next_id, calls_, wire, decoder,
                   decoding>>
-----------------------------------------------------------------------------
(* RpcSession::send, called by RpcCallAwaiter::await_suspend.               *)

\* Mutant: await_suspend ignores that nothing was sent.
NotSentIgnored(c) ==
    <<>>
\* What await_suspend does when send() returns FALSE.
NotSent(c) ==
    <<Complete(Response(0, c, "canceled"))>>

\* A closed transport fails the send before a pending call exists.
Create(c) ==
    /\ Doing(c, "create")
    /\ IF open
       THEN /\ calls_' = Emplaced(calls_, next_id, c)
            /\ next_id' = next_id + 1
            /\ Then(c, <<[op |-> "send", id |-> next_id]>>)
       ELSE /\ Then(c, NotSent(c))
            /\ UNCHANGED <<calls_, next_id>>
    /\ UNCHANGED <<rpc_env, open, entries_, wire, decoder, decoding,
                   resumed, got>>

SendFrame(c) ==
    /\ Doing(c, "send") /\ open
    /\ wire' = [wire EXCEPT !["server"] = @ \o
           Units([kind |-> "request", id |-> Head(todo[c]).id,
                  co |-> rpc_env.co[c], of |-> c], FALSE)]
    /\ Then(c, <<>>)
    /\ UNCHANGED <<rpc_env, open, next_id, calls_, entries_, decoder,
                   decoding, resumed, got>>

\* pending_.cancel(id): whoever takes the call out of the map runs its
\* handler.
CancelPending(id, c) ==
    IF id \in DOMAIN calls_ THEN <<Complete(Response(id, c, "canceled"))>>
                            ELSE <<>>

\* encode_message or send_frame fails: the pending call is cancelled, and
\* await_suspend, told FALSE, cancels the registry's entry too.
SendFails(c) ==
    /\ Doing(c, "send") /\ rpc_env.failures
    /\ LET id == Head(todo[c]).id IN
       /\ calls_' = Erased(calls_, id)
       /\ Then(c, CancelPending(id, c) \o NotSent(c))
    /\ UNCHANGED <<rpc_env, open, next_id, entries_, wire, decoder,
                   decoding, resumed, got>>

\* push(): a frame no one waits for.
Push ==
    /\ open /\ wire["server"] = <<>>
    /\ wire' = [wire EXCEPT !["server"] = Units([kind |-> "push"], FALSE)]
    /\ UNCHANGED <<rpc_env, open, next_id, calls_, entries_, todo,
                   decoder, decoding, resumed, got>>
-----------------------------------------------------------------------------
(* receive_bytes: the bytes are appended, then decoded frame by frame.      *)

\* The transport hands over the next n units.
Receive(s, n) ==
    /\ open /\ ~decoding[s] /\ n <= Len(wire[s])
    /\ s = "client" => todo["io"] = <<>>
    /\ decoder' = [decoder EXCEPT ![s] = @ \o SubSeq(wire[s], 1, n)]
    /\ wire' = [wire EXCEPT ![s] = SubSeq(@, n + 1, Len(@))]
    /\ decoding' = [decoding EXCEPT ![s] = TRUE]
    /\ UNCHANGED <<rpc_env, open, next_id, calls_, entries_, todo,
                   resumed, got>>

\* decode_frame's verdict on the buffer: a body where a header should be has
\* no magic; a damaged header is rejected before the body is there.
Verdict(b) ==
    CASE b = <<>>                    -> "need_more"
      [] b[1].part # "header"        -> "error"
      [] b[1].bad                    -> "error"
      [] Len(b) < 2                  -> "need_more"
      [] OTHER                       -> "ok"

\* The loop ends: nothing complete is left, or the buffer is given up.
DecodeEnds(s) ==
    /\ decoding[s] /\ Verdict(decoder[s]) # "ok"
    /\ s = "client" => todo["io"] = <<>>
    /\ decoding' = [decoding EXCEPT ![s] = FALSE]
    /\ decoder' = [decoder EXCEPT ![s] =
                       IF Verdict(@) = "error" THEN <<>> ELSE @]
    /\ UNCHANGED <<rpc_env, open, next_id, calls_, entries_, todo,
                   wire, resumed, got>>

\* PendingCallRegistry::take: the call leaves the map.
TakePending(id) ==
    Erased(calls_, id)

\* Mutant: a response goes to its coroutine, whether its call is pending or not.
AnswerAlways(frame) ==
    <<Complete(frame)>>
\* complete(): only a call that is still pending is answered.
Answer(frame) ==
    IF frame.id \in DOMAIN calls_ THEN <<Complete(frame)>> ELSE <<>>

\* handle_frame of a response.
HandleResponse ==
    /\ decoding["client"] /\ Verdict(decoder["client"]) = "ok"
    /\ todo["io"] = <<>>
    /\ LET frame == decoder["client"][1].frame IN
       /\ calls_' = TakePending(frame.id)
       /\ todo' = [todo EXCEPT !["io"] = Answer(frame)]
    /\ decoder' = [decoder EXCEPT !["client"] = SubSeq(@, 3, Len(@))]
    /\ UNCHANGED <<rpc_env, open, next_id, entries_, wire, decoding,
                   resumed, got>>

\* LocalBus::dispatch: what the handler says, that it threw, or that there is
\* none, is a response in each case.
Dispatch(frame) ==
    Response(frame.id, frame.of, "answered")

\* handle_frame of a request or a push; the response echoes both ids, and is
\* lost when the transport has closed.
HandleRequest ==
    /\ decoding["server"] /\ Verdict(decoder["server"]) = "ok"
    /\ LET frame == decoder["server"][1].frame IN
       IF frame.kind = "push" \/ ~open
       THEN UNCHANGED wire
       ELSE \E damaged \in {FALSE, rpc_env.bad_frames} :
                wire' = [wire EXCEPT !["client"] =
                             @ \o Units(Dispatch(frame), damaged)]
    /\ decoder' = [decoder EXCEPT !["server"] = SubSeq(@, 3, Len(@))]
    /\ UNCHANGED <<rpc_env, open, next_id, calls_, entries_, todo,
                   decoding, resumed, got>>

\* The transport closes; cancel_pending() leaves the pending calls alone.
TransportCloses ==
    /\ open /\ rpc_env.failures
    /\ open' = FALSE
    /\ wire' = [s \in Sides |-> <<>>]
    /\ UNCHANGED <<rpc_env, next_id, calls_, entries_, todo, decoder,
                   decoding, resumed, got>>
-----------------------------------------------------------------------------
\* The calls whose deadline may have passed.
Timed == {id \in DOMAIN calls_ :
             /\ calls_[id] \in rpc_env.timed
             /\ rpc_env.slow_sends \/ todo[calls_[id]] = <<>>}

\* The handlers of the expired calls, in the order the map gave them.
Expiry(order) ==
    [i \in DOMAIN order |->
        Complete(Response(order[i], calls_[order[i]], "timeout"))]

\* expire(): the calls that are due leave the map under the lock ...
Erase(ids) ==
    Restrict(calls_, DOMAIN calls_ \ ids)

\* ... and their handlers run one after the other outside of it.
Expire(ids) ==
    /\ todo["poller"] = <<>>
    /\ ids # {}
    /\ calls_' = Erase(ids)
    /\ \E n \in 1..next_id : \E order \in Bijection(1..n, ids) :
           todo' = [todo EXCEPT !["poller"] = Expiry(order)]
    /\ UNCHANGED <<rpc_env, open, next_id, entries_, wire, decoder,
                   decoding, resumed, got>>

PollTimeouts == \E ids \in SUBSET Timed : Expire(ids)
-----------------------------------------------------------------------------
Await(c) == Suspend(c) \/ Create(c) \/ SendFrame(c) \/ SendFails(c)
Handlers(t) == CompleteEntry(t) \/ ResumeCoroutine(t)

RpcNext ==
    \/ \E c \in Calls : Await(c)
    \/ \E t \in Threads : Handlers(t)
    \/ \E s \in Sides : DecodeEnds(s) \/ \E n \in 1..4 : Receive(s, n)
    \/ HandleResponse
    \/ HandleRequest
    \/ Push
    \/ TransportCloses
    \/ PollTimeouts

RpcSpec == RpcInit /\ [][RpcNext]_rpc_vars

(* The threads run, and the application keeps calling poll_timeouts() after *)
(* every deadline.  The transport and the peer owe nothing.                 *)
RpcFairness ==
    /\ \A c \in Calls : WF_rpc_vars(Await(c))
    /\ \A t \in Threads : WF_rpc_vars(Handlers(t))
    /\ WF_rpc_vars(Expire(Timed))

RpcFairSpec == RpcSpec /\ RpcFairness
-----------------------------------------------------------------------------
(* A coroutine that awaits a call is resumed once, with an answer to that   *)
(* very call: a response, a timeout and a cancellation that race each other *)
(* never resume it twice, and an id that is used again never hands one      *)
(* call the answer of another (take() and complete()).                      *)
ResumedOnceWithOwnAnswer ==
    \A c \in Calls : /\ resumed[c] <= 1
                     /\ resumed[c] = 1 => got[c] # None /\ got[c].of = c

(* A call with a timeout returns, whatever becomes of the transport, of the *)
(* peer and of the frames: poll_timeouts() is what cancel_pending() leaves  *)
(* the cleanup to.                                                          *)
TimedCallsReturn ==
    <>(\A c \in rpc_env.timed : resumed[c] > 0)
=============================================================================
