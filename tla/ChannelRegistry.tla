--------------------------- MODULE ChannelRegistry ---------------------------
(***************************************************************************)
(* The channels of an EventLoop on the loop thread: on_new_connection(),   *)
(* update_channel(), close_channel(), EpollPoller with the kernel's epoll  *)
(* set behind it, and the part of loop() that polls, filters, dispatches   *)
(* and defers events.  File descriptors are reused as soon as a socket is  *)
(* closed; the generation of a channel tells the registrations apart.      *)
(*                                                                         *)
(* Readable data is a flag per descriptor; on_read_event() reads until     *)
(* EAGAIN, as the handlers must with edge-triggered epoll.  Sockets are    *)
(* writable.  Error and hang-up events are left out.                       *)
(***************************************************************************)
EXTENDS Naturals, Sequences, Functions, FiniteSets

CONSTANTS
    Channels,       \* the Channel objects
    Fds,            \* file descriptors
    TokenBits,      \* bits of a generation in an epoll token, 32 in the code
    MaxGeneration,  \* bound: generations handed out by the loop
    NoChannel,
    NoFd

ASSUME ChannelRegistryAssumption ==
    /\ TokenBits \in Nat /\ 2 ^ TokenBits \in Nat \ {0}
    /\ MaxGeneration \in Nat
    /\ IsFiniteSet(Fds)
    /\ NoChannel \notin Channels
    /\ NoFd \notin Fds

VARIABLES
    chan,           \* the Channel objects
    channels,       \* channels_
    connections,    \* connections_: the channel of the connection held
    tombstoned,     \* tombstoned_fds_
    nextGeneration, \* next_generation_
    channelCount,   \* channel_count_
    fds,            \* EpollPoller: fds_
    epoll,          \* the kernel's interest list
    readable,       \* is there unread data on the descriptor?
    active,         \* active_events
    deferred,       \* deferred_events_
    pc,             \* where the loop thread is
    dispatched      \* dispatched_events > 0

registryVars == <<chan, channels, connections, tombstoned, nextGeneration,
                  channelCount>>
pollerVars == <<fds, epoll>>
eventVars == <<active, deferred, pc, dispatched>>
vars == <<registryVars, pollerVars, readable, eventVars>>

Interest == SUBSET {"read", "write"}

\* A Channel object without a descriptor: not made yet, or its socket closed.
Fresh == [phase |-> "fresh", fd |-> NoFd, events |-> {}, generation |-> 1]
Gone == [Fresh EXCEPT !.phase = "gone"]

\* An entry of the kernel's list; owner is history.
NoEntry == [owner |-> NoChannel, token |-> 0, events |-> {}, edge |-> FALSE]

Init ==
    /\ chan = [c \in Channels |-> Fresh]
    /\ channels = [f \in Fds |-> NoChannel]
    /\ connections = [f \in Fds |-> NoChannel]
    /\ tombstoned = {}
    /\ nextGeneration = 1
    /\ channelCount = 0
    /\ fds = {}
    /\ epoll = [f \in Fds |-> NoEntry]
    /\ readable = [f \in Fds |-> FALSE]
    /\ active = <<>>
    /\ deferred = <<>>
    /\ pc = "idle"
    /\ dispatched = FALSE

-----------------------------------------------------------------------------
(* EpollPoller and the kernel.                                             *)

\* encode_token and decode_generation.
Token(generation) == generation % 2 ^ TokenBits

ReadyOf(f, events) == {e \in events : e = "read" => readable[f]}

\* The kernel looks at the descriptor when an entry is added or modified.
EntryOf(c, events, generation) ==
    [owner |-> c, token |-> Token(generation), events |-> events,
     edge |-> ReadyOf(chan[c].fd, events) # {}]

\* EpollPoller::update_channel(c): MOD if fds_ knows the descriptor, else
\* ADD.  The kernel refuses a MOD without an entry and an ADD with one; the
\* poller ignores its answer.
PollerUpdate(c, events, generation) ==
    LET f == chan[c].fd
        known == f \in fds
        exists == epoll[f] # NoEntry
    IN  IF known /\ events = {}
        THEN /\ fds' = fds \ {f}
             /\ epoll' = [epoll EXCEPT ![f] = NoEntry]
        ELSE /\ fds' = fds \cup {f}
             /\ epoll' = IF known = exists
                         THEN [epoll EXCEPT ![f] = EntryOf(c, events, generation)]
                         ELSE epoll

\* Mutant: the descriptor stays in fds_.
ForgottenNot(f) == fds
Forgotten(f) == fds \ {f}

\* EpollPoller::remove_channel(c)
PollerRemove(c) ==
    /\ fds' = Forgotten(chan[c].fd)
    /\ epoll' = [epoll EXCEPT ![chan[c].fd] = NoEntry]

-----------------------------------------------------------------------------
(* Operations on the loop thread: from queued callbacks and from handlers. *)

InUserCode == pc \in {"idle", "callback"}

GenerationFor(c) ==
    IF channels[chan[c].fd] # c THEN nextGeneration ELSE chan[c].generation

\* register_channel_locked, for a channel whose events_ are now events.
Register(c, events) ==
    LET f == chan[c].fd
        new == channels[f] # c
    IN  /\ new => nextGeneration <= MaxGeneration
        /\ nextGeneration' = IF new THEN nextGeneration + 1 ELSE nextGeneration
        /\ chan' = [chan EXCEPT ![c].events = events,
                                ![c].generation = GenerationFor(c)]
        /\ channelCount' = IF channels[f] = NoChannel THEN channelCount + 1
                                                      ELSE channelCount
        /\ PollerUpdate(c, events, GenerationFor(c))
        /\ channels' = [channels EXCEPT ![f] = c]
        /\ tombstoned' = tombstoned \ {f}

\* The descriptor is registered for c: take it out of the poller and of
\* channels_, leave a tombstone, bump the generation.
Unregister(c, phase, events) ==
    LET f == chan[c].fd IN
    /\ PollerRemove(c)
    /\ channels' = [channels EXCEPT ![f] = NoChannel]
    /\ channelCount' = channelCount - 1
    /\ tombstoned' = tombstoned \cup {f}
    /\ chan' = [chan EXCEPT ![c].generation = @ + 1, ![c].events = events,
                            ![c].phase = phase]

\* socket() or accept() returns a free descriptor; a Channel is made for it.
Create(c, f) ==
    /\ InUserCode
    /\ chan[c].phase = "fresh"
    /\ \A d \in Channels : chan[d].fd # f
    /\ chan' = [chan EXCEPT ![c].phase = "open", ![c].fd = f,
                            ![c].events = {"read"}]
    /\ UNCHANGED <<channels, connections, tombstoned, nextGeneration,
                   channelCount, pollerVars, readable, eventVars>>

\* Once per connection.
OnNewConnection(c) ==
    /\ InUserCode
    /\ chan[c].phase = "open"
    /\ connections[chan[c].fd] # c
    /\ connections' = [connections EXCEPT ![chan[c].fd] = c]
    /\ Register(c, chan[c].events)
    /\ UNCHANGED <<readable, eventVars>>

\* A handler changes the interest of its channel and calls update_channel().
UpdateChannel(c, events) ==
    /\ InUserCode
    /\ chan[c].phase = "open"
    /\ events = {} => chan[c].generation <= MaxGeneration
    /\ IF events # {}
       THEN Register(c, events)
       ELSE /\ IF channels[chan[c].fd] = c
               THEN Unregister(c, "open", {})
               ELSE /\ chan' = [chan EXCEPT ![c].events = {},
                            ![c].generation =
                                IF chan[c].fd \in tombstoned THEN @ + 1 ELSE @]
                    /\ UNCHANGED <<channels, channelCount, tombstoned, pollerVars>>
            /\ UNCHANGED nextGeneration
    /\ UNCHANGED <<connections, readable, eventVars>>

\* disable_all(), the first step of closing a connection.
DisableAll(c) ==
    /\ InUserCode
    /\ chan[c].phase = "open"
    /\ chan[c].events # {}
    /\ chan' = [chan EXCEPT ![c].events = {}]
    /\ UNCHANGED <<channels, connections, tombstoned, nextGeneration,
                   channelCount, pollerVars, readable, eventVars>>

CloseChannel(c) ==
    LET f == chan[c].fd IN
    /\ InUserCode
    /\ chan[c].phase = "open"
    /\ IF channels[f] = c
       THEN /\ Unregister(c, "closed", chan[c].events)
            /\ connections' = [connections EXCEPT ![f] = NoChannel]
       ELSE /\ chan' = [chan EXCEPT ![c].phase = "closed",
                    ![c].generation = IF channels[f] # NoChannel \/ f \in tombstoned
                                      THEN @ + 1 ELSE @]
            /\ UNCHANGED <<channels, connections, tombstoned, channelCount,
                           pollerVars>>
    /\ UNCHANGED <<nextGeneration, readable, eventVars>>

\* The socket is closed after close_channel(): the kernel drops what is left
\* of its entry and may reuse the descriptor.
CloseSocket(c) ==
    LET f == chan[c].fd IN
    /\ InUserCode
    /\ chan[c].phase = "closed"
    /\ chan' = [chan EXCEPT ![c] = Gone]
    /\ epoll' = [epoll EXCEPT ![f] = NoEntry]
    /\ readable' = [readable EXCEPT ![f] = FALSE]
    /\ UNCHANGED <<channels, connections, tombstoned, nextGeneration,
                   channelCount, fds, eventVars>>

-----------------------------------------------------------------------------
(* The kernel.                                                             *)

\* Data arrives at a descriptor in use: an edge for an entry that wants it.
Arrive(f) ==
    /\ \E c \in Channels : chan[c].fd = f
    /\ readable' = [readable EXCEPT ![f] = TRUE]
    /\ epoll' = [epoll EXCEPT ![f].edge = @ \/ "read" \in epoll[f].events]
    /\ UNCHANGED <<registryVars, fds, eventVars>>

-----------------------------------------------------------------------------
(* loop(): poll, filter, dispatch, defer.                                  *)

EventOf(f) ==
    [fd |-> f, revents |-> ReadyOf(f, epoll[f].events),
     generation |-> epoll[f].token, owner |-> epoll[f].owner]

\* Mutant: events are told apart by descriptor only.
AcceptsAnyGeneration(event) ==
    LET c == channels[event.fd] IN
    /\ c # NoChannel
    /\ chan[c].events \cap event.revents # {}
\* What loop() asks of an event when it is polled and again before dispatch.
Accepts(event) ==
    LET c == channels[event.fd] IN
    /\ c # NoChannel
    /\ event.generation # 0
    /\ chan[c].generation = event.generation
    /\ chan[c].events # {}
    /\ chan[c].events \cap event.revents # {}

\* Events left over from the last round go first, without a poll.
TakeDeferred ==
    /\ pc = "idle"
    /\ deferred # <<>>
    /\ active' = deferred
    /\ deferred' = <<>>
    /\ pc' = "dispatch"
    /\ dispatched' = FALSE
    /\ UNCHANGED <<registryVars, pollerVars, readable>>

\* EpollPoller::poll() and the filter.  epoll_wait reports every entry with
\* an edge that is still ready, in any order, and forgets the edges.  An event
\* that is accepted is ready.
Poll ==
    /\ pc = "idle"
    /\ deferred = <<>>
    /\ \E f \in Fds : epoll[f].edge
    /\ LET accepted == {f \in Fds : epoll[f].edge /\ Accepts(EventOf(f))}
       IN  \E order \in Bijection(1 .. Cardinality(accepted), accepted) :
            active' = [i \in 1 .. Cardinality(accepted) |-> EventOf(order[i])]
    /\ epoll' = [f \in Fds |-> [epoll[f] EXCEPT !.edge = FALSE]]
    /\ pc' = "dispatch"
    /\ dispatched' = FALSE
    /\ UNCHANGED <<registryVars, fds, readable, deferred>>

\* An event that no longer matches is dropped.
Skip ==
    /\ pc = "dispatch"
    /\ active # <<>>
    /\ ~Accepts(Head(active))
    /\ active' = Tail(active)
    /\ UNCHANGED <<registryVars, pollerVars, readable, deferred, pc, dispatched>>

\* set_revent() and on_event(): the handler reads all there is to read.
Dispatch ==
    /\ pc = "dispatch"
    /\ active # <<>>
    /\ Accepts(Head(active))
    /\ LET event == Head(active) IN
       readable' = IF "read" \in event.revents \cap chan[channels[event.fd]].events
                   THEN [readable EXCEPT ![event.fd] = FALSE]
                   ELSE readable
    /\ active' = Tail(active)
    /\ pc' = "callback"
    /\ dispatched' = TRUE
    /\ UNCHANGED <<registryVars, pollerVars, deferred>>

CallbackReturn ==
    /\ pc = "callback"
    /\ pc' = "dispatch"
    /\ UNCHANGED <<registryVars, pollerVars, readable, active, deferred,
                   dispatched>>

\* Mutant: what the budget leaves over is dropped.
DeferredNone == deferred
Deferred == deferred \o active

\* The dispatch budget is used up: the rest is kept for the next round.
Defer ==
    /\ pc = "dispatch"
    /\ active # <<>>
    /\ dispatched
    /\ deferred' = Deferred
    /\ active' = <<>>
    /\ pc' = "idle"
    /\ dispatched' = FALSE
    /\ UNCHANGED <<registryVars, pollerVars, readable>>

RoundEnd ==
    /\ pc = "dispatch"
    /\ active = <<>>
    /\ pc' = "idle"
    /\ dispatched' = FALSE
    /\ UNCHANGED <<registryVars, pollerVars, readable, active, deferred>>

-----------------------------------------------------------------------------
UserCode(c) ==
    \/ \E f \in Fds : Create(c, f)
    \/ OnNewConnection(c)
    \/ \E events \in Interest : UpdateChannel(c, events)
    \/ DisableAll(c)
    \/ CloseChannel(c)
    \/ CloseSocket(c)

LoopStep ==
    \/ TakeDeferred
    \/ Poll
    \/ Skip
    \/ Dispatch
    \/ CallbackReturn
    \/ Defer
    \/ RoundEnd

Next ==
    \/ \E c \in Channels : UserCode(c)
    \/ \E f \in Fds : Arrive(f)
    \/ LoopStep

Spec == Init /\ [][Next]_vars

-----------------------------------------------------------------------------
(* Properties.                                                             *)

\* channels_ points to live channels of that descriptor only, and
\* channel_count_, EpollPoller's fds_ and the kernel's list agree with it: a
\* channel that wants events is known to the kernel, under its generation.
RegistrationsAgree ==
    /\ channelCount = Cardinality({f \in Fds : channels[f] # NoChannel})
    /\ \A f \in Fds :
        LET c == channels[f] IN
        /\ c = NoChannel => f \notin fds /\ epoll[f] = NoEntry
        /\ c # NoChannel =>
            /\ chan[c].phase = "open" /\ chan[c].fd = f
            /\ chan[c].events # {} =>
                /\ f \in fds
                /\ epoll[f].owner = c
                /\ epoll[f].events = chan[c].events
                /\ epoll[f].token = Token(chan[c].generation)

\* An event reaches only the channel it was reported for: not the one that
\* took over the descriptor, be it polled before or deferred since.
EventsReachTheirChannel ==
    [][pc = "dispatch" /\ pc' = "callback" =>
        channels[Head(active).fd] = Head(active).owner]_vars

\* Edge-triggered epoll reports data once: while a registered channel wants to
\* read and has unread data, the edge is still in the kernel or an event that
\* the loop will accept is on its way.
DataIsSignalled ==
    \A f \in Fds :
        LET c == channels[f] IN
        c # NoChannel /\ readable[f] /\ "read" \in chan[c].events =>
            \/ epoll[f].edge
            \/ \E event \in Range(active) \cup Range(deferred) :
                    /\ event.fd = f
                    /\ event.owner = c
                    /\ event.generation = chan[c].generation
                    /\ "read" \in event.revents
=============================================================================
