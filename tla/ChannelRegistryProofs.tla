------------------------ MODULE ChannelRegistryProofs ------------------------
(***************************************************************************)
(* Proofs about ChannelRegistry.  The invariant speaks of one descriptor   *)
(* at a time: what channels_, fds_ and the kernel say of it.  Almost every *)
(* step concerns one channel and its descriptor; that the others are left  *)
(* alone is proved once (Local, Apart), and each operation is reduced to   *)
(* what it does at its own descriptor (Registers, Unregisters).  That      *)
(* events find their channel rests on a second invariant (EInv): a         *)
(* generation in a queued event is never handed out again.                 *)
(***************************************************************************)
EXTENDS ChannelRegistry, FiniteSetTheorems, TLAPS

USE ChannelRegistryAssumption, Zenon
USE DEF registryVars, pollerVars, eventVars

Channel == [phase : {"fresh", "open", "closed", "gone"},
            fd : Fds \cup {NoFd}, events : Interest, generation : Nat \ {0}]
Entry == [owner : Channels \cup {NoChannel}, token : Nat, events : Interest,
          edge : BOOLEAN]
Event == [fd : Fds, revents : Interest, generation : Nat,
          owner : Channels \cup {NoChannel}]

TypeOK ==
    /\ chan \in [Channels -> Channel]
    /\ channels \in [Fds -> Channels \cup {NoChannel}]
    /\ nextGeneration \in Nat \ {0}
    /\ channelCount \in Int
    /\ fds \subseteq Fds
    /\ epoll \in [Fds -> Entry]
    /\ readable \in [Fds -> BOOLEAN]
    /\ active \in Seq(Event)
    /\ deferred \in Seq(Event)
    /\ pc = "idle" => active = <<>>

\* No two Channel objects share a descriptor.
OwnersInv ==
    /\ \A c \in Channels : chan[c].phase \in {"open", "closed"} => chan[c].fd \in Fds
    /\ \A c, d \in Channels : chan[c].fd = chan[d].fd /\ chan[c].fd # NoFd => c = d

Registered == {f \in Fds : channels[f] # NoChannel}

\* What channels_, fds_ and the kernel say of one descriptor.
AgreeAt(f) ==
    LET c == channels[f] IN
    /\ c # NoChannel => chan[c].phase = "open" /\ chan[c].fd = f
    /\ f \in fds <=> epoll[f] # NoEntry
    /\ epoll[f] # NoEntry =>
        /\ c # NoChannel
        /\ epoll[f].owner = c
        /\ epoll[f].token = Token(chan[c].generation)
    /\ c # NoChannel /\ chan[c].events # {} =>
        /\ epoll[f] # NoEntry
        /\ epoll[f].events = chan[c].events

AgreeInv == \A f \in Fds : AgreeAt(f)

CountInv == channelCount = Cardinality(Registered)

IInv == TypeOK /\ OwnersInv /\ AgreeInv /\ CountInv

\* The generations handed out fit a token.
TokensSuffice == MaxGeneration < 2 ^ TokenBits

\* A registered channel has a generation that was handed out.
GenerationAt(f) ==
    channels[f] # NoChannel => chan[channels[f]].generation < nextGeneration

InFlight == Range(active) \cup Range(deferred)

\* An event was reported under a generation handed out; a channel that has it
\* at the event's descriptor is the one it was reported for.
EventOK(e) ==
    LET c == channels[e.fd] IN
    /\ e.generation < nextGeneration
    /\ c # NoChannel /\ chan[c].generation = e.generation => e.owner = c

SignalledAt(f) ==
    LET c == channels[f] IN
    TokensSuffice /\ c # NoChannel /\ readable[f] /\ "read" \in chan[c].events =>
        \/ epoll[f].edge
        \/ \E e \in InFlight :
                /\ e.fd = f
                /\ e.owner = c
                /\ e.generation = chan[c].generation
                /\ "read" \in e.revents

EInv ==
    /\ nextGeneration <= MaxGeneration + 1
    /\ \A f \in Fds : GenerationAt(f)
    /\ \A e \in InFlight : EventOK(e)
    /\ \A f \in Fds : SignalledAt(f)

-----------------------------------------------------------------------------
\* The elements of sequences, as the events in flight are.
LEMMA RangeEmpty == Range(<<>>) = {}
  BY SMT DEF Range

\* A sequence is its first element and the others.
LEMMA RangeTail ==
    ASSUME NEW S, NEW s \in Seq(S), s # <<>>
    PROVE  /\ Head(s) \in S
           /\ Tail(s) \in Seq(S)
           /\ Range(s) = {Head(s)} \cup Range(Tail(s))
  <1>1. /\ Len(s) \in Nat \ {0} /\ DOMAIN s = 1 .. Len(s)
        /\ Tail(s) \in Seq(S) /\ Head(s) = s[1] /\ Head(s) \in S
        /\ DOMAIN Tail(s) = 1 .. (Len(s) - 1)
        /\ \A i \in 1 .. (Len(s) - 1) : Tail(s)[i] = s[i + 1]
    BY SMT
  <1>2. ASSUME NEW x \in Range(s) PROVE x \in {Head(s)} \cup Range(Tail(s))
    <2>1. PICK i \in 1 .. Len(s) : x = s[i]
      BY <1>1, <1>2 DEF Range
    <2>2. CASE i = 1
      BY <1>1, <2>1, <2>2
    <2>3. CASE i # 1
      <3>1. i - 1 \in 1 .. (Len(s) - 1) /\ (i - 1) + 1 = i
        BY SMT, <1>1, <2>1, <2>3
      <3>2. Tail(s)[i - 1] = x
        BY <1>1, <2>1, <3>1
      <3> QED  BY <1>1, <3>1, <3>2 DEF Range
    <2> QED  BY <2>2, <2>3
  <1>3. ASSUME NEW x \in {Head(s)} \cup Range(Tail(s)) PROVE x \in Range(s)
    <2>1. CASE x = Head(s)
      BY SMT, <1>1, <2>1 DEF Range
    <2>2. CASE x \in Range(Tail(s))
      <3>1. PICK i \in 1 .. (Len(s) - 1) : x = Tail(s)[i]
        BY <1>1, <2>2 DEF Range
      <3>2. i + 1 \in 1 .. Len(s) /\ x = s[i + 1]
        BY SMT, <1>1, <3>1
      <3> QED  BY <1>1, <3>2 DEF Range
    <2> QED  BY <1>3, <2>1, <2>2
  <1> QED  BY <1>1, <1>2, <1>3

\* Two sequences one after the other have the elements of both.
LEMMA RangeConcat ==
    ASSUME NEW S, NEW s \in Seq(S), NEW t \in Seq(S)
    PROVE  s \o t \in Seq(S) /\ Range(s \o t) = Range(s) \cup Range(t)
  <1>1. /\ Len(s) \in Nat /\ Len(t) \in Nat
        /\ DOMAIN s = 1 .. Len(s) /\ DOMAIN t = 1 .. Len(t)
        /\ DOMAIN (s \o t) = 1 .. (Len(s) + Len(t))
        /\ s \o t \in Seq(S)
        /\ \A i \in 1 .. (Len(s) + Len(t)) :
            (s \o t)[i] = IF i <= Len(s) THEN s[i] ELSE t[i - Len(s)]
    BY SMT
  <1>2. ASSUME NEW x \in Range(s \o t) PROVE x \in Range(s) \cup Range(t)
    <2>1. PICK i \in 1 .. (Len(s) + Len(t)) : x = (s \o t)[i]
      BY <1>1, <1>2 DEF Range
    <2>2. CASE i <= Len(s)
      BY SMT, <1>1, <2>1, <2>2 DEF Range
    <2>3. CASE ~(i <= Len(s))
      <3>1. i - Len(s) \in 1 .. Len(t) /\ x = t[i - Len(s)]
        BY SMT, <1>1, <2>1, <2>3
      <3> QED  BY <1>1, <3>1 DEF Range
    <2> QED  BY <2>2, <2>3
  <1>3. ASSUME NEW x \in Range(s) PROVE x \in Range(s \o t)
    <2>1. PICK i \in 1 .. Len(s) : x = s[i]
      BY <1>1, <1>3 DEF Range
    <2>2. i \in 1 .. (Len(s) + Len(t)) /\ (s \o t)[i] = x
      BY SMT, <1>1, <2>1
    <2> QED  BY <1>1, <2>2 DEF Range
  <1>4. ASSUME NEW x \in Range(t) PROVE x \in Range(s \o t)
    <2>1. PICK i \in 1 .. Len(t) : x = t[i]
      BY <1>1, <1>4 DEF Range
    <2>2. /\ Len(s) + i \in 1 .. (Len(s) + Len(t)) /\ ~(Len(s) + i <= Len(s))
          /\ (Len(s) + i) - Len(s) = i
      BY SMT, <1>1, <2>1
    <2>3. (s \o t)[Len(s) + i] = x
      BY <1>1, <2>1, <2>2
    <2> QED  BY <1>1, <2>2, <2>3 DEF Range
  <1> QED  BY <1>1, <1>2, <1>3, <1>4

-----------------------------------------------------------------------------
\* An absent registration of the kernel has no owner.
LEMMA NoEntryType == NoEntry \in Entry /\ NoEntry.owner = NoChannel
  BY DEF NoEntry, Entry, Interest

\* A registration of the kernel is its four fields.
LEMMA EntryEqual ==
    ASSUME NEW x \in Entry, NEW y \in Entry, x.owner = y.owner,
           x.token = y.token, x.events = y.events, x.edge = y.edge
    PROVE  x = y
  BY SMT DEF Entry

\* A token is a number.
LEMMA TokenType == ASSUME NEW g \in Nat PROVE Token(g) \in Nat
  BY SMT DEF Token

\* A step on channel c that changes nothing at other descriptors.
Local(c) ==
    /\ \A d \in Channels \ {c} : chan'[d] = chan[d]
    /\ \A f \in Fds \ {chan[c].fd} :
        /\ channels'[f] = channels[f]
        /\ epoll'[f] = epoll[f]
        /\ f \in fds' <=> f \in fds

\* A local step leaves the agreement at other descriptors alone.
LEMMA AgreeElsewhere ==
    ASSUME IInv, NEW c \in Channels, Local(c), NEW f \in Fds \ {chan[c].fd}
    PROVE  AgreeAt(f)'
  <1>1. AgreeAt(f) /\ channels[f] \in Channels \cup {NoChannel}
    BY DEF IInv, AgreeInv, TypeOK
  <1>2. channels[f] # c
    BY <1>1 DEF AgreeAt
  <1>3. /\ channels'[f] = channels[f] /\ epoll'[f] = epoll[f]
        /\ f \in fds' <=> f \in fds
        /\ channels[f] # NoChannel => chan'[channels[f]] = chan[channels[f]]
    BY <1>1, <1>2 DEF Local
  <1> QED  BY <1>1, <1>3 DEF AgreeAt

\* Only its own descriptor can be registered for a channel.
LEMMA RegisteredForOwner ==
    ASSUME IInv, NEW c \in Channels, chan[c].phase \in {"open", "closed"}
    PROVE  /\ chan[c].fd \in Fds
           /\ channels[chan[c].fd] \in {NoChannel, c}
           /\ chan[c].phase = "closed" => channels[chan[c].fd] = NoChannel
  <1>1. chan[c].fd \in Fds
    BY DEF IInv, OwnersInv
  <1>2. /\ AgreeAt(chan[c].fd) /\ chan[c].fd # NoFd
        /\ channels[chan[c].fd] \in Channels \cup {NoChannel}
    BY <1>1 DEF IInv, AgreeInv, TypeOK
  <1>3. channels[chan[c].fd] \in {NoChannel, c}
    BY <1>2 DEF IInv, OwnersInv, AgreeAt
  <1> QED  BY <1>1, <1>2, <1>3 DEF AgreeAt

\* What register_channel_locked does.
Registers(c, events) ==
    LET f == chan[c].fd IN
    /\ chan' \in [Channels -> Channel]
    /\ chan'[c].phase = "open" /\ chan'[c].fd = f /\ chan'[c].events = events
    /\ chan'[c].generation = GenerationFor(c)
    /\ channels' = [channels EXCEPT ![f] = c]
    /\ fds' \subseteq Fds
    /\ epoll' \in [Fds -> Entry]
    /\ f \in fds' <=> epoll'[f] # NoEntry
    /\ epoll'[f] # NoEntry =>
        epoll'[f].owner = c /\ epoll'[f].token = Token(GenerationFor(c))
    /\ events # {} =>
        /\ epoll'[f] # NoEntry
        /\ epoll'[f].events = events
        /\ epoll'[f].edge = (ReadyOf(f, events) # {})
    /\ Local(c)

\* register_channel_locked() enters the channel in channels_ and the poller.
LEMMA RegisterDoes ==
    ASSUME IInv, NEW c \in Channels, NEW events \in Interest,
           chan[c].phase = "open", Register(c, events)
    PROVE  Registers(c, events)
  <1> DEFINE f == chan[c].fd
             g == GenerationFor(c)
             entry == EntryOf(c, events, g)
  <1>1. f \in Fds /\ AgreeAt(f) /\ chan[c] \in Channel /\ epoll[f] \in Entry
    BY RegisteredForOwner DEF IInv, AgreeInv, TypeOK
  <1>2. g \in Nat \ {0}
    BY <1>1 DEF GenerationFor, Channel, IInv, TypeOK
  <1>3. entry \in Entry
    BY <1>2, TokenType DEF EntryOf, Entry
  <1>4. /\ entry.owner = c /\ entry.token = Token(g) /\ entry.events = events
        /\ entry.edge = (ReadyOf(f, events) # {})
    BY DEF EntryOf
  <1>5. entry # NoEntry
    BY <1>4, NoEntryType
  <1>6. /\ chan' = [chan EXCEPT ![c].events = events, ![c].generation = g]
        /\ channels' = [channels EXCEPT ![f] = c]
        /\ PollerUpdate(c, events, g)
    BY DEF Register
  <1> HIDE DEF g, entry
  <1>7. /\ chan' \in [Channels -> Channel]
        /\ chan'[c].phase = "open" /\ chan'[c].fd = f /\ chan'[c].events = events
        /\ chan'[c].generation = g
        /\ \A d \in Channels \ {c} : chan'[d] = chan[d]
    <2> DEFINE x == [chan[c] EXCEPT !.events = events, !.generation = g]
    <2>1. chan \in [Channels -> Channel]
      BY DEF IInv, TypeOK
    <2>2. x \in Channel
      BY <1>2, <2>1 DEF Channel
    <2>3. /\ x.phase = "open" /\ x.fd = f /\ x.events = events
          /\ x.generation = g
      BY SMT, <2>1 DEF Channel
    <2>4. chan' = [chan EXCEPT ![c] = x]
      BY <1>6, <2>1
    <2> HIDE DEF x
    <2> QED  BY <2>1, <2>2, <2>3, <2>4
  <1>8. /\ fds' \subseteq Fds
        /\ epoll' \in [Fds -> Entry]
        /\ f \in fds' <=> epoll'[f] # NoEntry
        /\ epoll'[f] # NoEntry => epoll'[f] = entry
        /\ events # {} => epoll'[f] # NoEntry
        /\ \A h \in Fds \ {f} : epoll'[h] = epoll[h] /\ (h \in fds' <=> h \in fds)
    <2>1. f \in fds <=> epoll[f] # NoEntry
      BY <1>1 DEF AgreeAt
    <2>2. CASE f \in fds /\ events = {}
      <3>1. fds' = fds \ {f} /\ epoll' = [epoll EXCEPT ![f] = NoEntry]
        BY <1>6, <2>2 DEF PollerUpdate
      <3> QED  BY <1>1, <2>2, <3>1, NoEntryType DEF IInv, TypeOK
    <2>3. CASE ~(f \in fds /\ events = {})
      <3>1. fds' = fds \cup {f} /\ epoll' = [epoll EXCEPT ![f] = entry]
        BY SMT, <1>6, <2>1, <2>3 DEF PollerUpdate, entry
      <3> QED  BY <1>1, <1>3, <1>5, <2>3, <3>1 DEF IInv, TypeOK
    <2> QED  BY <2>2, <2>3
  <1>9. \A h \in Fds \ {f} : channels'[h] = channels[h]
    BY <1>6 DEF IInv, TypeOK
  <1> QED  BY SMTT(30), <1>4, <1>6, <1>7, <1>8, <1>9 DEF Registers, Local, g

\* ... and so keeps the invariant.
LEMMA RegisterKeeps ==
    ASSUME IInv, NEW c \in Channels, NEW events \in Interest,
           chan[c].phase = "open", Register(c, events),
           UNCHANGED <<readable, eventVars>>
    PROVE  IInv'
  <1>0. PICK f \in Fds : f = chan[c].fd
    BY RegisteredForOwner
  <1>1. Registers(c, events)
    BY RegisterDoes
  <1>2. /\ channels[f] \in {NoChannel, c} /\ channels \in [Fds -> Channels \cup {NoChannel}]
        /\ channels' = [channels EXCEPT ![f] = c]
    BY <1>0, <1>1, RegisteredForOwner DEF Registers, IInv, TypeOK
  <1>3. TypeOK'
    <2>1. nextGeneration' \in Nat \ {0} /\ channelCount' \in Int
      BY SMTT(60) DEF Register, IInv, TypeOK
    <2>2. /\ chan' \in [Channels -> Channel] /\ fds' \subseteq Fds
          /\ epoll' \in [Fds -> Entry]
      BY <1>1 DEF Registers
    <2>3. channels' \in [Fds -> Channels \cup {NoChannel}]
      BY <1>2
    <2> QED  BY <2>1, <2>2, <2>3 DEF IInv, TypeOK
  <1>4. OwnersInv'
    <2>1. \A d \in Channels : chan'[d].fd = chan[d].fd /\ chan'[d].phase = chan[d].phase
      BY <1>1 DEF Registers, Local
    <2> QED  BY SMT, <2>1 DEF IInv, OwnersInv
  <1>5. AgreeInv'
    <2>1. AgreeAt(f)'
      BY <1>0, <1>1, <1>2 DEF Registers, AgreeAt
    <2>2. \A h \in Fds \ {f} : AgreeAt(h)'
      BY <1>0, <1>1, AgreeElsewhere DEF Registers
    <2> QED  BY <2>1, <2>2 DEF AgreeInv
  <1>6. CountInv'
    <2>1. Registered' = Registered \cup {f}
      BY <1>2 DEF Registered
    <2>2. IsFiniteSet(Registered)
      BY FS_Subset DEF Registered
    <2>3. Cardinality(Registered') = IF f \in Registered THEN Cardinality(Registered)
                                     ELSE Cardinality(Registered) + 1
      BY <2>1, <2>2, FS_AddElement
    <2>4. f \in Registered <=> channels[f] # NoChannel
      BY <1>2 DEF Registered
    <2> QED  BY <1>0, <2>3, <2>4 DEF Register, IInv, CountInv
  <1> QED  BY <1>3, <1>4, <1>5, <1>6 DEF IInv

\* What a step that assigns to one channel leaves of the others.
LEMMA ChannelSet ==
    ASSUME chan \in [Channels -> Channel], NEW c \in Channels,
           NEW p \in {"open", "closed"}, NEW events \in Interest,
           NEW g \in Nat \ {0},
           chan' = [chan EXCEPT ![c].generation = g, ![c].events = events,
                                ![c].phase = p]
    PROVE  /\ chan' \in [Channels -> Channel]
           /\ chan'[c].phase = p /\ chan'[c].fd = chan[c].fd
           /\ \A d \in Channels \ {c} : chan'[d] = chan[d]
  <1> DEFINE x == [chan[c] EXCEPT !.generation = g, !.events = events, !.phase = p]
  <1>1. chan'[c] = x /\ \A d \in Channels \ {c} : chan'[d] = chan[d]
    OBVIOUS
  <1>2. chan' = [d \in Channels |-> chan'[d]]
    OBVIOUS
  <1>3. x \in Channel /\ x.phase = p /\ x.fd = chan[c].fd
    BY DEF Channel
  <1> HIDE DEF x
  <1>4. chan' \in [Channels -> Channel]
    BY <1>1, <1>2, <1>3
  <1> QED  BY <1>1, <1>3, <1>4

\* What taking a registered channel out does.
Unregisters(c, p) ==
    LET f == chan[c].fd IN
    /\ chan' \in [Channels -> Channel]
    /\ chan'[c].phase = p /\ chan'[c].fd = f
    /\ channels' = [channels EXCEPT ![f] = NoChannel]
    /\ fds' \subseteq Fds
    /\ epoll' \in [Fds -> Entry]
    /\ f \notin fds' /\ epoll'[f] = NoEntry
    /\ Local(c)

\* unregister_channel_locked() removes it from both.
LEMMA UnregisterDoes ==
    ASSUME IInv, NEW c \in Channels, NEW p \in {"open", "closed"},
           NEW events \in Interest, chan[c].phase = "open",
           Unregister(c, p, events)
    PROVE  Unregisters(c, p)
  <1> DEFINE f == chan[c].fd
             g == chan[c].generation + 1
  <1>1. f \in Fds /\ chan[c] \in Channel
    BY RegisteredForOwner DEF IInv, TypeOK
  <1>2. g \in Nat \ {0}
    BY SMT, <1>1 DEF Channel
  <1>3. /\ chan' = [chan EXCEPT ![c].generation = g, ![c].events = events,
                                ![c].phase = p]
        /\ channels' = [channels EXCEPT ![f] = NoChannel]
        /\ fds' = fds \ {f}
        /\ epoll' = [epoll EXCEPT ![f] = NoEntry]
    BY DEF Unregister, PollerRemove, Forgotten
  <1> HIDE DEF g
  <1>4. /\ chan' \in [Channels -> Channel]
        /\ chan'[c].phase = p /\ chan'[c].fd = f
        /\ \A d \in Channels \ {c} : chan'[d] = chan[d]
    BY <1>2, <1>3, ChannelSet DEF IInv, TypeOK
  <1>5. /\ fds' \subseteq Fds /\ f \notin fds'
        /\ epoll' \in [Fds -> Entry] /\ epoll'[f] = NoEntry
        /\ \A h \in Fds \ {f} :
            /\ channels'[h] = channels[h]
            /\ epoll'[h] = epoll[h]
            /\ h \in fds' <=> h \in fds
    BY <1>1, <1>3, NoEntryType DEF IInv, TypeOK
  <1> QED  BY <1>3, <1>4, <1>5 DEF Unregisters, Local

\* ... and so keeps the invariant.
LEMMA UnregisterKeeps ==
    ASSUME IInv, NEW c \in Channels, NEW p \in {"open", "closed"},
           NEW events \in Interest, chan[c].phase = "open",
           channels[chan[c].fd] = c, Unregister(c, p, events),
           UNCHANGED <<nextGeneration, readable, eventVars>>
    PROVE  IInv'
  <1>0. PICK f \in Fds : f = chan[c].fd
    BY RegisteredForOwner
  <1>1. Unregisters(c, p)
    BY UnregisterDoes
  <1>2. /\ channels[f] = c /\ channels \in [Fds -> Channels \cup {NoChannel}]
        /\ channels' = [channels EXCEPT ![f] = NoChannel]
    BY <1>0, <1>1 DEF Unregisters, IInv, TypeOK
  <1>3. TypeOK'
    <2>1. channelCount' \in Int
      BY SMT DEF Unregister, IInv, TypeOK
    <2>2. /\ chan' \in [Channels -> Channel] /\ fds' \subseteq Fds
          /\ epoll' \in [Fds -> Entry]
      BY <1>1 DEF Unregisters
    <2>3. channels' \in [Fds -> Channels \cup {NoChannel}]
      BY <1>2
    <2> QED  BY <2>1, <2>2, <2>3 DEF IInv, TypeOK
  <1>4. OwnersInv'
    <2>1. \A d \in Channels :
            /\ chan'[d].fd = chan[d].fd
            /\ chan'[d].phase \in {"open", "closed"} =>
                chan[d].phase \in {"open", "closed"}
      BY <1>1 DEF Unregisters, Local
    <2> QED  BY SMT, <2>1 DEF IInv, OwnersInv
  <1>5. AgreeInv'
    <2>1. AgreeAt(f)'
      BY <1>0, <1>1, <1>2 DEF Unregisters, AgreeAt
    <2>2. \A h \in Fds \ {f} : AgreeAt(h)'
      BY <1>0, <1>1, AgreeElsewhere DEF Unregisters
    <2> QED  BY <2>1, <2>2 DEF AgreeInv
  <1>6. CountInv'
    <2>1. Registered' = Registered \ {f} /\ f \in Registered
      BY <1>2 DEF Registered
    <2>2. IsFiniteSet(Registered)
      BY FS_Subset DEF Registered
    <2>3. Cardinality(Registered') = Cardinality(Registered) - 1
      BY <2>1, <2>2, FS_RemoveElement
    <2> QED  BY <2>3 DEF Unregister, IInv, CountInv
  <1> QED  BY <1>3, <1>4, <1>5, <1>6 DEF IInv

\* A step that changes only a channel that is not registered.
Apart(c) ==
    /\ \A f \in Fds : channels[f] # c
    /\ \A d \in Channels \ {c} : chan'[d] = chan[d]
    /\ UNCHANGED <<channels, channelCount, pollerVars>>

\* A step on a channel that is not registered disturbs no agreement.
LEMMA ApartKeeps ==
    ASSUME IInv, NEW c \in Channels, Apart(c)
    PROVE  AgreeInv' /\ CountInv'
  <1>1. ASSUME NEW f \in Fds PROVE AgreeAt(f)'
    <2>1. AgreeAt(f) /\ channels[f] \in Channels \cup {NoChannel}
      BY DEF IInv, AgreeInv, TypeOK
    <2>2. channels[f] # NoChannel => chan'[channels[f]] = chan[channels[f]]
      BY <2>1 DEF Apart
    <2>3. channels' = channels /\ fds' = fds /\ epoll' = epoll
      BY DEF Apart
    <2> QED  BY <2>1, <2>2, <2>3 DEF AgreeAt
  <1>2. CountInv'
    BY DEF Apart, IInv, CountInv, Registered
  <1> QED  BY <1>1, <1>2 DEF AgreeInv

\* A channel whose own descriptor is not registered for it is registered
\* nowhere.
LEMMA NotRegistered ==
    ASSUME IInv, NEW c \in Channels,
           \/ chan[c].phase # "open"
           \/ channels[chan[c].fd] # c
    PROVE  \A f \in Fds : channels[f] # c
  BY SMT DEF IInv, AgreeInv, AgreeAt

\* A new Channel object takes a descriptor nobody has.
LEMMA CreateKeeps ==
    ASSUME IInv, NEW c \in Channels, NEW f \in Fds, Create(c, f)
    PROVE  IInv' /\ Apart(c)
  <1>1. /\ chan' = [chan EXCEPT ![c].phase = "open", ![c].fd = f,
                                ![c].events = {"read"}]
        /\ chan[c].phase = "fresh"
        /\ \A d \in Channels : chan[d].fd # f
    BY DEF Create
  <1>2. /\ chan' \in [Channels -> Channel]
        /\ chan'[c].fd = f
        /\ \A d \in Channels \ {c} : chan'[d] = chan[d]
    BY SMTT(60), <1>1 DEF IInv, TypeOK, Channel, Interest
  <1>3. Apart(c)
    BY <1>1, <1>2, NotRegistered DEF Apart, Create
  <1>4. TypeOK'
    BY <1>2 DEF Create, IInv, TypeOK
  <1>5. OwnersInv'
    BY SMTT(60), <1>1, <1>2 DEF IInv, OwnersInv
  <1> QED  BY <1>3, <1>4, <1>5, ApartKeeps DEF IInv

\* An unregistered channel changes and keeps its descriptor.
LEMMA ApartStepKeeps ==
    ASSUME IInv, NEW c \in Channels, chan[c].phase = "open",
           channels[chan[c].fd] # c,
           chan' \in [Channels -> Channel],
           chan'[c].fd = chan[c].fd,
           \A d \in Channels \ {c} : chan'[d] = chan[d],
           UNCHANGED <<channels, channelCount, pollerVars, nextGeneration,
                       readable, eventVars>>
    PROVE  IInv' /\ Apart(c)
  <1>2. Apart(c)
    BY NotRegistered DEF Apart
  <1>3. TypeOK'
    BY DEF IInv, TypeOK
  <1>4. OwnersInv'
    BY SMT DEF IInv, OwnersInv
  <1> QED  BY <1>2, <1>3, <1>4, ApartKeeps DEF IInv

\* update_channel() without interest, of a channel that is not registered.
LEMMA UpdateApart ==
    ASSUME IInv, NEW c \in Channels, UpdateChannel(c, {}),
           channels[chan[c].fd] # c
    PROVE  IInv' /\ Apart(c) /\ UNCHANGED <<nextGeneration, readable, eventVars>>
  <1> DEFINE g == IF chan[c].fd \in tombstoned THEN chan[c].generation + 1
                                               ELSE chan[c].generation
  <1>1. /\ chan[c].phase = "open"
        /\ chan' = [chan EXCEPT ![c].events = {}, ![c].generation = g]
        /\ UNCHANGED <<channels, channelCount, pollerVars, nextGeneration,
                       readable, eventVars>>
    BY DEF UpdateChannel
  <1>2. g \in Nat \ {0}
    BY SMT DEF IInv, TypeOK, Channel
  <1> HIDE DEF g
  <1>3. /\ chan' \in [Channels -> Channel]
        /\ chan'[c].fd = chan[c].fd
        /\ \A d \in Channels \ {c} : chan'[d] = chan[d]
    <2> DEFINE x == [chan[c] EXCEPT !.events = {}, !.generation = g]
    <2>1. chan \in [Channels -> Channel]
      BY DEF IInv, TypeOK
    <2>2. x \in Channel /\ x.fd = chan[c].fd
      BY ZenonT(60), <1>2, <2>1 DEF Channel, Interest
    <2>3. chan' = [chan EXCEPT ![c] = x]
      BY <1>1, <2>1
    <2> HIDE DEF x
    <2> QED  BY <2>1, <2>2, <2>3
  <1> QED  BY <1>1, <1>3, ApartStepKeeps

\* close_channel() of a channel that is not registered.
LEMMA CloseApart ==
    ASSUME IInv, NEW c \in Channels, CloseChannel(c),
           channels[chan[c].fd] # c
    PROVE  IInv' /\ Apart(c) /\ UNCHANGED <<nextGeneration, readable, eventVars>>
  <1> DEFINE g == IF channels[chan[c].fd] # NoChannel \/ chan[c].fd \in tombstoned
                  THEN chan[c].generation + 1 ELSE chan[c].generation
  <1>1. /\ chan[c].phase = "open"
        /\ chan' = [chan EXCEPT ![c].phase = "closed", ![c].generation = g]
        /\ UNCHANGED <<channels, channelCount, pollerVars, nextGeneration,
                       readable, eventVars>>
    BY DEF CloseChannel
  <1>2. g \in Nat \ {0}
    BY SMT DEF IInv, TypeOK, Channel
  <1> HIDE DEF g
  <1>3. /\ chan' \in [Channels -> Channel]
        /\ chan'[c].fd = chan[c].fd
        /\ \A d \in Channels \ {c} : chan'[d] = chan[d]
    <2> DEFINE x == [chan[c] EXCEPT !.phase = "closed", !.generation = g]
    <2>1. chan \in [Channels -> Channel]
      BY DEF IInv, TypeOK
    <2>2. x \in Channel /\ x.fd = chan[c].fd
      BY ZenonT(60), <1>2, <2>1 DEF Channel
    <2>3. chan' = [chan EXCEPT ![c] = x]
      BY <1>1, <2>1
    <2> HIDE DEF x
    <2> QED  BY <2>1, <2>2, <2>3
  <1> QED  BY <1>1, <1>3, ApartStepKeeps

\* disable_all() without update_channel() leaves the registration as it is.
LEMMA DisableAllKeeps ==
    ASSUME IInv, NEW c \in Channels, DisableAll(c)
    PROVE  IInv' /\ Local(c) /\ chan'[c].events = {}
           /\ chan'[c].generation = chan[c].generation
  <1>1. PICK f \in Fds : f = chan[c].fd
    BY RegisteredForOwner DEF DisableAll
  <1>2. /\ chan' = [chan EXCEPT ![c].events = {}]
        /\ chan[c].phase = "open"
        /\ UNCHANGED <<channels, channelCount, pollerVars, nextGeneration,
                       readable, eventVars>>
    BY DEF DisableAll
  <1>3. /\ chan' \in [Channels -> Channel]
        /\ chan'[c].fd = chan[c].fd /\ chan'[c].phase = "open"
        /\ chan'[c].events = {} /\ chan'[c].generation = chan[c].generation
        /\ \A d \in Channels \ {c} : chan'[d] = chan[d]
    <2> DEFINE x == [chan[c] EXCEPT !.events = {}]
    <2>1. chan \in [Channels -> Channel]
      BY DEF IInv, TypeOK
    <2>2. x \in Channel
      BY SMT, <2>1 DEF Channel, Interest
    <2>3. /\ x.fd = chan[c].fd /\ x.phase = "open"
          /\ x.events = {} /\ x.generation = chan[c].generation
      BY SMTT(60), <1>2, <2>1 DEF Channel
    <2>4. chan' = [chan EXCEPT ![c] = x]
      BY <1>2, <2>1
    <2> HIDE DEF x
    <2> QED  BY <2>1, <2>2, <2>3, <2>4
  <1>4. Local(c)
    BY <1>2, <1>3 DEF Local
  <1>5. TypeOK'
    BY <1>2, <1>3 DEF IInv, TypeOK
  <1>6. OwnersInv'
    BY SMT, <1>2, <1>3 DEF IInv, OwnersInv
  <1>7. AgreeInv'
    <2>1. AgreeAt(f) /\ channels[f] \in {NoChannel, c}
      BY ZenonT(30), <1>1, <1>2, RegisteredForOwner DEF IInv, AgreeInv
    <2>2. AgreeAt(f)'
      BY ZenonT(60), <1>1, <1>2, <1>3, <2>1 DEF AgreeAt
    <2>3. \A h \in Fds \ {f} : AgreeAt(h)'
      BY <1>1, <1>4, AgreeElsewhere
    <2> QED  BY <2>2, <2>3 DEF AgreeInv
  <1>8. CountInv'
    BY <1>2 DEF IInv, CountInv, Registered
  <1> QED  BY <1>3, <1>4, <1>5, <1>6, <1>7, <1>8 DEF IInv

\* The socket is closed after its channel was: the kernel forgets nothing.
LEMMA CloseSocketKeeps ==
    ASSUME IInv, NEW c \in Channels, CloseSocket(c)
    PROVE  IInv' /\ Apart(c) /\ channels[chan[c].fd] = NoChannel
  <1>1. PICK f \in Fds : f = chan[c].fd
    BY RegisteredForOwner DEF CloseSocket
  <1>2. /\ chan' = [chan EXCEPT ![c] = Gone] /\ chan[c].phase = "closed"
        /\ epoll' = [epoll EXCEPT ![f] = NoEntry]
        /\ readable' = [readable EXCEPT ![f] = FALSE]
        /\ UNCHANGED <<channels, nextGeneration, channelCount, fds, eventVars>>
    BY <1>1 DEF CloseSocket
  <1>3. channels[f] = NoChannel /\ AgreeAt(f)
    BY <1>1, <1>2, RegisteredForOwner DEF IInv, AgreeInv
  <1>4. epoll' = epoll
    BY <1>2, <1>3 DEF AgreeAt, IInv, TypeOK
  <1>5. Gone \in Channel /\ Gone.phase = "gone" /\ Gone.fd = NoFd
    BY SMT DEF Gone, Fresh, Channel, Interest
  <1>6. /\ chan' \in [Channels -> Channel]
        /\ chan'[c] = Gone
        /\ \A d \in Channels \ {c} : chan'[d] = chan[d]
    BY <1>2, <1>5 DEF IInv, TypeOK
  <1>7. Apart(c)
    BY <1>2, <1>4, <1>6, NotRegistered DEF Apart
  <1>8. TypeOK'
    BY <1>2, <1>4, <1>6 DEF IInv, TypeOK
  <1>9. OwnersInv'
    BY SMT, <1>5, <1>6 DEF IInv, OwnersInv
  <1> QED  BY <1>1, <1>3, <1>7, <1>8, <1>9, ApartKeeps DEF IInv

\* Only the edges of the kernel's list change.
LEMMA EdgesKeep ==
    ASSUME IInv, epoll' \in [Fds -> Entry],
           \A f \in Fds : /\ epoll'[f].owner = epoll[f].owner
                          /\ epoll'[f].token = epoll[f].token
                          /\ epoll'[f].events = epoll[f].events
                          /\ epoll[f] = NoEntry => epoll'[f] = NoEntry,
           UNCHANGED <<chan, channels, channelCount, fds>>
    PROVE  OwnersInv' /\ AgreeInv' /\ CountInv'
  <1>1. ASSUME NEW f \in Fds PROVE AgreeAt(f)'
    <2>1. AgreeAt(f) /\ channels[f] \in Channels \cup {NoChannel}
      BY DEF IInv, AgreeInv, TypeOK
    <2>2. epoll'[f] = NoEntry <=> epoll[f] = NoEntry
      BY <2>1, NoEntryType DEF AgreeAt
    <2> QED  BY <2>1, <2>2 DEF AgreeAt
  <1>2. OwnersInv' /\ CountInv'
    BY DEF IInv, OwnersInv, CountInv, Registered
  <1> QED  BY <1>1, <1>2 DEF AgreeInv

\* Data that arrive raise an edge at most.
LEMMA ArriveKeeps ==
    ASSUME IInv, NEW f \in Fds, Arrive(f)
    PROVE  IInv'
  <1> DEFINE e == epoll[f].edge \/ "read" \in epoll[f].events
  <1>1. epoll[f] \in Entry /\ e \in BOOLEAN
    BY DEF IInv, TypeOK, Entry
  <1>2. /\ epoll' = [epoll EXCEPT ![f].edge = e]
        /\ readable' = [readable EXCEPT ![f] = TRUE]
        /\ UNCHANGED <<registryVars, fds, eventVars>>
    BY DEF Arrive
  <1>3. epoll[f] = NoEntry => e = FALSE
    BY SMT DEF NoEntry
  <1> HIDE DEF e
  <1>4. /\ epoll' \in [Fds -> Entry]
        /\ epoll'[f].owner = epoll[f].owner /\ epoll'[f].token = epoll[f].token
        /\ epoll'[f].events = epoll[f].events
        /\ \A h \in Fds \ {f} : epoll'[h] = epoll[h]
    BY <1>1, <1>2 DEF IInv, TypeOK, Entry
  <1>5. epoll[f] = NoEntry => epoll'[f] = NoEntry
    <2>1. epoll'[f] \in Entry /\ epoll'[f].edge = e
      BY <1>1, <1>2, <1>4 DEF IInv, TypeOK, Entry
    <2>2. epoll[f] = NoEntry => epoll'[f].edge = NoEntry.edge
      BY <1>3, <2>1 DEF NoEntry
    <2> QED  BY <1>4, <2>1, <2>2, EntryEqual, NoEntryType
  <1>6. OwnersInv' /\ AgreeInv' /\ CountInv'
    BY <1>2, <1>4, <1>5, EdgesKeep
  <1>7. TypeOK'
    BY <1>2, <1>4 DEF IInv, TypeOK
  <1> QED  BY <1>6, <1>7 DEF IInv

\* What the poller reports is an event.
LEMMA EventType ==
    ASSUME TypeOK, NEW f \in Fds
    PROVE  EventOf(f) \in Event
  BY DEF EventOf, Event, ReadyOf, TypeOK, Entry, Interest

\* What a poll reports: all events that the filter accepts.
LEMMA PollDoes ==
    ASSUME TypeOK, Poll
    PROVE  /\ active' \in Seq(Event)
           /\ \A e \in Range(active') : \E f \in Fds : e = EventOf(f)
           /\ \A f \in Fds : epoll[f].edge /\ Accepts(EventOf(f))
                                => EventOf(f) \in Range(active')
  <1> DEFINE S == {f \in Fds : epoll[f].edge /\ Accepts(EventOf(f))}
             n == Cardinality(S)
             Ev(f) == EventOf(f)
  <1>1. n \in Nat
    BY FS_Subset, FS_CardinalityType
  <1>2. PICK order \in Bijection(1 .. n, S) : active' = [i \in 1 .. n |-> Ev(order[i])]
    BY DEF Poll
  <1>3. \A f \in S : Ev(f) \in Event /\ f \in Fds
    BY EventType
  <1>4. \A f \in Fds : epoll[f].edge /\ Accepts(EventOf(f)) => f \in S
    OBVIOUS
  <1> HIDE DEF S, n, Ev
  <1>5. /\ order \in [1 .. n -> S]
        /\ \A x \in S : \E i \in 1 .. n : order[i] = x
    BY <1>2 DEF Bijection, Injection, Surjection
  <1>7. active' \in [1 .. n -> Event]
    BY <1>2, <1>3, <1>5
  <1>8. active' \in Seq(Event)
    BY SMTT(60), <1>1, <1>7
  <1>9. \A e \in Range(active') : \E f \in S : e = Ev(f)
    BY <1>2, <1>5 DEF Range
  <1>10. \A f \in S : Ev(f) \in Range(active')
    BY <1>2, <1>5 DEF Range
  <1> QED  BY <1>3, <1>4, <1>8, <1>9, <1>10 DEF Ev

\* A poll clears edges and fills the list of active events.
LEMMA PollKeeps ==
    ASSUME IInv, Poll
    PROVE  IInv' /\ \A f \in Fds : epoll'[f].edge = FALSE
  <1>1. /\ epoll' = [f \in Fds |-> [epoll[f] EXCEPT !.edge = FALSE]]
        /\ pc' = "dispatch"
        /\ UNCHANGED <<registryVars, fds, readable, deferred>>
    BY DEF Poll
  <1>2. ASSUME NEW f \in Fds
        PROVE  /\ epoll'[f] \in Entry
               /\ epoll'[f].owner = epoll[f].owner
               /\ epoll'[f].token = epoll[f].token
               /\ epoll'[f].events = epoll[f].events
               /\ epoll'[f].edge = FALSE
    <2> DEFINE x == [epoll[f] EXCEPT !.edge = FALSE]
    <2>1. epoll[f] \in Entry
      BY DEF IInv, TypeOK
    <2>2. /\ x \in Entry /\ x.owner = epoll[f].owner /\ x.token = epoll[f].token
          /\ x.events = epoll[f].events /\ x.edge = FALSE
      BY <2>1 DEF Entry
    <2>3. epoll'[f] = x
      BY <1>1
    <2> HIDE DEF x
    <2> QED  BY <2>2, <2>3
  <1>3. epoll' \in [Fds -> Entry]
    BY <1>1, <1>2
  <1>4. ASSUME NEW f \in Fds, epoll[f] = NoEntry PROVE epoll'[f] = NoEntry
    <2>1. epoll'[f].edge = NoEntry.edge
      BY <1>2 DEF NoEntry
    <2> QED  BY <1>2, <1>4, <2>1, EntryEqual, NoEntryType
  <1>5. OwnersInv' /\ AgreeInv' /\ CountInv'
    BY ZenonT(60), <1>1, <1>2, <1>3, <1>4, EdgesKeep
  <1>6. TypeOK'
    BY <1>1, <1>3, PollDoes DEF IInv, TypeOK
  <1> QED  BY <1>2, <1>5, <1>6 DEF IInv

\* The other steps of loop() leave the registry and the poller alone.
LEMMA LoopKeeps ==
    ASSUME IInv, TakeDeferred \/ Skip \/ Dispatch \/ CallbackReturn \/ Defer
                    \/ RoundEnd
    PROVE  IInv'
  <1>1. UNCHANGED <<registryVars, pollerVars>>
    BY DEF TakeDeferred, Skip, Dispatch, CallbackReturn, Defer, RoundEnd
  <1>2. OwnersInv' /\ AgreeInv' /\ CountInv'
    BY <1>1, EdgesKeep DEF IInv, TypeOK
  <1>3. active' \in Seq(Event) /\ deferred' \in Seq(Event)
    <2>1. active \in Seq(Event) /\ deferred \in Seq(Event) /\ <<>> \in Seq(Event)
      BY SMT DEF IInv, TypeOK
    <2>2. Deferred \in Seq(Event)
      BY <2>1, RangeConcat DEF Deferred
    <2>3. active # <<>> => Tail(active) \in Seq(Event)
      BY <2>1, RangeTail
    <2> QED  BY <2>1, <2>2, <2>3
          DEF TakeDeferred, Skip, Dispatch, CallbackReturn, Defer, RoundEnd
  <1>4. pc' = "idle" => active' = <<>>
    BY DEF TakeDeferred, Skip, Dispatch, CallbackReturn, Defer, RoundEnd
  <1>5. readable' \in [Fds -> BOOLEAN]
    BY DEF TakeDeferred, Skip, Dispatch, CallbackReturn, Defer, RoundEnd, IInv, TypeOK
  <1>6. TypeOK'
    BY <1>1, <1>3, <1>4, <1>5 DEF IInv, TypeOK
  <1> QED  BY <1>2, <1>6 DEF IInv

-----------------------------------------------------------------------------
\* The loop starts with nothing registered.
LEMMA InitIInv == Init => IInv
  <1> SUFFICES ASSUME Init PROVE IInv
    OBVIOUS
  <1>1. Fresh \in Channel /\ Fresh.phase = "fresh" /\ Fresh.fd = NoFd
    BY SMT DEF Fresh, Channel, Interest
  <1>2. TypeOK
    BY SMTT(60), <1>1, NoEntryType DEF Init, TypeOK
  <1>3. OwnersInv
    BY <1>1 DEF Init, OwnersInv
  <1>4. AgreeInv
    BY DEF Init, AgreeInv, AgreeAt
  <1>5. CountInv
    <2>1. Registered = {}
      BY DEF Init, Registered
    <2> QED  BY <2>1, FS_EmptySet DEF Init, CountInv
  <1> QED  BY <1>2, <1>3, <1>4, <1>5 DEF IInv

\* Every step keeps channels_, fds_, the kernel and the count in agreement.
LEMMA NextIInv == IInv /\ [Next]_vars => IInv'
  <1> SUFFICES ASSUME IInv, [Next]_vars PROVE IInv'
    OBVIOUS
  <1>1. ASSUME NEW c \in Channels, NEW f \in Fds, Create(c, f) PROVE IInv'
    BY <1>1, CreateKeeps
  <1>2. ASSUME NEW c \in Channels, OnNewConnection(c) PROVE IInv'
    <2>1. chan[c].events \in Interest
      BY DEF IInv, TypeOK, Channel
    <2> QED  BY <1>2, <2>1, RegisterKeeps DEF OnNewConnection
  <1>3. ASSUME NEW c \in Channels, NEW events \in Interest, UpdateChannel(c, events)
        PROVE  IInv'
    <2>1. CASE events # {}
      BY <1>3, <2>1, RegisterKeeps DEF UpdateChannel
    <2>2. CASE events = {} /\ channels[chan[c].fd] = c
      <3>1. /\ Unregister(c, "open", {}) /\ chan[c].phase = "open"
            /\ UNCHANGED <<nextGeneration, readable, eventVars>>
        BY <1>3, <2>2 DEF UpdateChannel
      <3> QED  BY <2>2, <3>1, UnregisterKeeps
    <2>3. CASE events = {} /\ channels[chan[c].fd] # c
      BY <1>3, <2>3, UpdateApart
    <2> QED  BY <2>1, <2>2, <2>3
  <1>4. ASSUME NEW c \in Channels, DisableAll(c) PROVE IInv'
    BY <1>4, DisableAllKeeps
  <1>5. ASSUME NEW c \in Channels, CloseChannel(c) PROVE IInv'
    <2>1. CASE channels[chan[c].fd] = c
      <3>1. /\ Unregister(c, "closed", chan[c].events) /\ chan[c].phase = "open"
            /\ UNCHANGED <<nextGeneration, readable, eventVars>>
        BY <1>5, <2>1 DEF CloseChannel
      <3>2. chan[c].events \in Interest
        BY DEF IInv, TypeOK, Channel
      <3> QED  BY <2>1, <3>1, <3>2, UnregisterKeeps
    <2>2. CASE channels[chan[c].fd] # c
      BY <1>5, <2>2, CloseApart
    <2> QED  BY <2>1, <2>2
  <1>6. ASSUME NEW c \in Channels, CloseSocket(c) PROVE IInv'
    BY <1>6, CloseSocketKeeps
  <1>7. ASSUME NEW f \in Fds, Arrive(f) PROVE IInv'
    BY <1>7, ArriveKeeps
  <1>8. CASE LoopStep
    BY ZenonT(60), <1>8, PollKeeps, LoopKeeps DEF LoopStep
  <1>9. CASE UNCHANGED vars
    BY SMTT(60), <1>9 DEF vars, IInv, TypeOK, OwnersInv, AgreeInv, AgreeAt, CountInv,
                Registered
  <1> QED  BY ZenonT(60), <1>1, <1>2, <1>3, <1>4, <1>5, <1>6, <1>7, <1>8, <1>9
           DEF Next, UserCode

\* channels_, channel_count_, the poller and the kernel agree after every
\* operation of the registry, in whatever order channels are registered, changed,
\* closed and their descriptors reused.
THEOREM RegistrationsAlwaysAgree == Spec => []RegistrationsAgree
  <1>1. IInv => RegistrationsAgree
    <2> SUFFICES ASSUME IInv PROVE RegistrationsAgree
      OBVIOUS
    <2>1. channelCount = Cardinality({f \in Fds : channels[f] # NoChannel})
      BY DEF IInv, CountInv, Registered
    <2>2. \A f \in Fds : AgreeAt(f)
      BY DEF IInv, AgreeInv
    <2> QED  BY <2>1, <2>2 DEF AgreeAt, RegistrationsAgree
  <1> QED  BY <1>1, InitIInv, NextIInv, PTL DEF Spec

-----------------------------------------------------------------------------
\* Events in flight are events.
LEMMA InFlightType ==
    ASSUME TypeOK, NEW e \in InFlight
    PROVE  e \in Event /\ e.fd \in Fds /\ e.generation \in Nat
  <1>1. active \in Seq(Event) /\ deferred \in Seq(Event)
    BY DEF TypeOK
  <1>2. e \in Event
    BY SMT, <1>1 DEF InFlight, Range
  <1> QED  BY <1>2 DEF Event

\* A step that leaves the registered channel of a descriptor alone.
SameAt(f) ==
    /\ channels'[f] = channels[f]
    /\ channels[f] # NoChannel =>
        /\ chan'[channels[f]] = chan[channels[f]]
        /\ readable'[f] = readable[f]
        /\ epoll'[f] = epoll[f]

\* Where nothing changes for a descriptor, its part of EInv is kept.
LEMMA SameKeeps ==
    ASSUME IInv, EInv, NEW f \in Fds, SameAt(f),
           nextGeneration' \in Nat, nextGeneration <= nextGeneration',
           UNCHANGED <<active, deferred>>
    PROVE  /\ GenerationAt(f)' /\ SignalledAt(f)'
           /\ \A e \in InFlight : e.fd = f => EventOK(e)'
  <1>1. /\ GenerationAt(f) /\ SignalledAt(f)
        /\ channels[f] # NoChannel => chan[channels[f]] \in Channel
        /\ nextGeneration \in Nat
    BY DEF IInv, EInv, TypeOK
  <1>2. InFlight' = InFlight
    BY DEF InFlight
  <1>3. GenerationAt(f)'
    BY SMT, <1>1 DEF GenerationAt, SameAt, Channel
  <1>4. SignalledAt(f)'
    BY <1>1, <1>2 DEF SignalledAt, SameAt
  <1>5. ASSUME NEW e \in InFlight, e.fd = f PROVE EventOK(e)'
    <2>1. EventOK(e) /\ e.generation \in Nat
      BY InFlightType DEF EInv, IInv
    <2> QED  BY SMTT(60), <1>1, <1>5, <2>1 DEF EventOK, SameAt
  <1> QED  BY <1>3, <1>4, <1>5

\* A local step changes nothing elsewhere.
LEMMA LocalSame ==
    ASSUME IInv, NEW c \in Channels, Local(c), UNCHANGED readable,
           NEW f \in Fds \ {chan[c].fd}
    PROVE  SameAt(f)
  <1>1. AgreeAt(f) /\ channels[f] \in Channels \cup {NoChannel}
    BY DEF IInv, AgreeInv, TypeOK
  <1>2. channels[f] # c
    BY <1>1 DEF AgreeAt
  <1> QED  BY <1>1, <1>2 DEF Local, SameAt

\* A local step keeps the invariant if it does at its descriptor.
LEMMA LocalKeeps ==
    ASSUME IInv, EInv, NEW c \in Channels, Local(c),
           UNCHANGED <<readable, active, deferred>>,
           nextGeneration' \in Nat, nextGeneration <= nextGeneration',
           nextGeneration' <= MaxGeneration + 1,
           NEW f \in Fds, f = chan[c].fd,
           GenerationAt(f)', SignalledAt(f)',
           \A e \in InFlight : e.fd = f => EventOK(e)'
    PROVE  EInv'
  <1>1. InFlight' = InFlight
    BY DEF InFlight
  <1>2. \A h \in Fds \ {f} :
            /\ GenerationAt(h)' /\ SignalledAt(h)'
            /\ \A e \in InFlight : e.fd = h => EventOK(e)'
    BY LocalSame, SameKeeps
  <1>3. \A e \in InFlight : e.fd \in Fds
    BY InFlightType DEF IInv
  <1> QED  BY <1>1, <1>2, <1>3 DEF EInv

\* A step on a channel that is not registered keeps the events' part.
LEMMA ApartEvents ==
    ASSUME IInv, EInv, NEW c \in Channels, Apart(c),
           \A f \in Fds : channels[f] # NoChannel => readable'[f] = readable[f],
           UNCHANGED <<nextGeneration, active, deferred>>
    PROVE  EInv'
  <1>1. \A f \in Fds : SameAt(f)
    BY SMTT(60) DEF Apart, SameAt, IInv, TypeOK
  <1>2. nextGeneration' \in Nat /\ nextGeneration <= nextGeneration'
    BY SMT DEF IInv, TypeOK
  <1>3. \A f \in Fds :
            /\ GenerationAt(f)' /\ SignalledAt(f)'
            /\ \A e \in InFlight : e.fd = f => EventOK(e)'
    BY <1>1, <1>2, SameKeeps
  <1>4. InFlight' = InFlight /\ \A e \in InFlight : e.fd \in Fds
    BY InFlightType DEF IInv, InFlight
  <1> QED  BY <1>3, <1>4 DEF EInv

\* A registration gets a generation no event in flight has, or keeps its own
\* and is armed again; data that wait raise an edge.
LEMMA RegisterEvents ==
    ASSUME IInv, EInv, NEW c \in Channels, NEW events \in Interest,
           chan[c].phase = "open", Register(c, events),
           UNCHANGED <<readable, eventVars>>
    PROVE  EInv'
  <1>1. PICK f \in Fds : f = chan[c].fd
    BY RegisteredForOwner
  <1>2. Registers(c, events)
    BY RegisterDoes
  <1>3. /\ channels[f] \in {NoChannel, c} /\ channels'[f] = c
        /\ channels[f] # c => nextGeneration <= MaxGeneration
        /\ nextGeneration' = IF channels[f] # c THEN nextGeneration + 1 ELSE nextGeneration
        /\ chan'[c].generation = IF channels[f] # c THEN nextGeneration
                                                    ELSE chan[c].generation
        /\ nextGeneration \in Nat
    BY <1>1, <1>2, RegisteredForOwner
       DEF Register, Registers, GenerationFor, IInv, TypeOK
  <1>4. /\ nextGeneration' \in Nat /\ nextGeneration <= nextGeneration'
        /\ nextGeneration' <= MaxGeneration + 1
    BY SMTT(60), <1>3 DEF EInv
  <1>5. GenerationAt(f)'
    <2>1. GenerationAt(f)
      BY DEF EInv
    <2> QED  BY SMTT(60), <1>3, <2>1 DEF GenerationAt
  <1>6. SignalledAt(f)'
    <2> SUFFICES ASSUME readable[f], "read" \in chan'[c].events PROVE epoll'[f].edge
      BY <1>3 DEF SignalledAt
    <2>1. events = chan'[c].events /\ "read" \in ReadyOf(f, events)
      BY <1>2 DEF Registers, ReadyOf
    <2> QED  BY <1>1, <1>2, <2>1 DEF Registers
  <1>7. ASSUME NEW e \in InFlight, e.fd = f PROVE EventOK(e)'
    <2>1. EventOK(e) /\ e.generation \in Nat
      BY InFlightType DEF EInv, IInv
    <2> QED  BY SMTT(60), <1>3, <1>7, <2>1 DEF EventOK
  <1>8. Local(c)
    BY <1>2 DEF Registers
  <1> QED  BY ZenonT(60), <1>1, <1>4, <1>5, <1>6, <1>7, <1>8, LocalKeeps

\* A channel that leaves the registry has nothing to be told.
LEMMA UnregisterEvents ==
    ASSUME IInv, EInv, NEW c \in Channels, NEW p \in {"open", "closed"},
           NEW events \in Interest, chan[c].phase = "open",
           Unregister(c, p, events),
           UNCHANGED <<nextGeneration, readable, eventVars>>
    PROVE  EInv'
  <1>1. PICK f \in Fds : f = chan[c].fd
    BY RegisteredForOwner
  <1>2. Unregisters(c, p)
    BY UnregisterDoes
  <1>3. channels'[f] = NoChannel /\ Local(c) /\ nextGeneration \in Nat
    BY <1>1, <1>2 DEF Unregisters, IInv, TypeOK
  <1>4. GenerationAt(f)' /\ SignalledAt(f)'
    BY <1>3 DEF GenerationAt, SignalledAt
  <1>5. ASSUME NEW e \in InFlight, e.fd = f PROVE EventOK(e)'
    BY <1>3, <1>5 DEF EventOK, EInv
  <1>6. nextGeneration' <= MaxGeneration + 1
    BY DEF EInv
  <1>7. nextGeneration' \in Nat /\ nextGeneration <= nextGeneration'
    BY SMT, <1>3
  <1> QED  BY ZenonT(60), <1>1, <1>3, <1>4, <1>5, <1>6, <1>7, LocalKeeps

\* A channel without interest has nothing to be told.
LEMMA DisableAllEvents ==
    ASSUME IInv, EInv, NEW c \in Channels, DisableAll(c)
    PROVE  EInv'
  <1>1. PICK f \in Fds : f = chan[c].fd
    BY RegisteredForOwner DEF DisableAll
  <1>2. /\ Local(c) /\ chan'[c].events = {}
        /\ chan'[c].generation = chan[c].generation
    BY DisableAllKeeps
  <1>3. /\ UNCHANGED <<channels, nextGeneration, readable, active, deferred>>
        /\ channels[f] \in {NoChannel, c} /\ nextGeneration \in Nat
    BY <1>1, RegisteredForOwner DEF DisableAll, IInv, TypeOK
  <1>4. GenerationAt(f)' /\ SignalledAt(f)'
    BY <1>2, <1>3 DEF GenerationAt, SignalledAt, EInv
  <1>5. ASSUME NEW e \in InFlight, e.fd = f PROVE EventOK(e)'
    BY <1>2, <1>3, <1>5 DEF EventOK, EInv
  <1>6. nextGeneration' <= MaxGeneration + 1
    BY <1>3 DEF EInv
  <1>7. nextGeneration' \in Nat /\ nextGeneration <= nextGeneration'
    BY SMT, <1>3
  <1> QED  BY ZenonT(60), <1>1, <1>2, <1>3, <1>4, <1>5, <1>6, <1>7, LocalKeeps

\* Data that arrive for a registered reader raise an edge.
LEMMA ArriveEvents ==
    ASSUME IInv, EInv, NEW f \in Fds, Arrive(f)
    PROVE  EInv'
  <1> DEFINE e == epoll[f].edge \/ "read" \in epoll[f].events
  <1>1. /\ epoll' = [epoll EXCEPT ![f].edge = e]
        /\ readable' = [readable EXCEPT ![f] = TRUE]
        /\ UNCHANGED <<registryVars, fds, eventVars>>
    BY DEF Arrive
  <1>2. epoll[f] \in Entry /\ e \in BOOLEAN
    BY DEF IInv, TypeOK, Entry
  <1>3. channels[f] # NoChannel /\ "read" \in chan[channels[f]].events => e
    BY DEF IInv, AgreeInv, AgreeAt
  <1> HIDE DEF e
  <1>4. epoll'[f].edge = e
    BY <1>1, <1>2 DEF IInv, TypeOK, Entry
  <1>5. SignalledAt(f)'
    BY <1>1, <1>3, <1>4 DEF SignalledAt
  <1>6. InFlight' = InFlight
    BY <1>1 DEF InFlight
  <1>7. ASSUME NEW h \in Fds \ {f} PROVE SignalledAt(h)'
    <2>1. epoll'[h] = epoll[h] /\ readable'[h] = readable[h]
      BY <1>1 DEF IInv, TypeOK
    <2> QED  BY <1>1, <1>6, <2>1 DEF SignalledAt, EInv
  <1> QED  BY <1>1, <1>5, <1>6, <1>7 DEF EInv, GenerationAt, EventOK

\* The token of a registered channel is at most its generation; if it suffices,
\* it is the generation, and not 0.
LEMMA TokenIsGeneration ==
    ASSUME IInv, EInv, NEW f \in Fds, epoll[f] # NoEntry
    PROVE  /\ channels[f] # NoChannel /\ epoll[f].owner = channels[f]
           /\ epoll[f].token < nextGeneration
           /\ TokensSuffice => /\ epoll[f].token = chan[channels[f]].generation
                               /\ epoll[f].token # 0
  <1>1. /\ AgreeAt(f) /\ GenerationAt(f) /\ nextGeneration \in Nat
        /\ nextGeneration <= MaxGeneration + 1
    BY DEF IInv, AgreeInv, EInv, TypeOK
  <1>2. channels[f] # NoChannel /\ epoll[f].owner = channels[f]
    BY <1>1 DEF AgreeAt
  <1>3. chan[channels[f]].generation \in Nat \ {0}
    BY <1>2 DEF IInv, TypeOK, Channel
  <1>4. TokensSuffice => chan[channels[f]].generation < 2 ^ TokenBits
    BY SMTT(60), <1>1, <1>2, <1>3 DEF GenerationAt, TokensSuffice
  <1>5. /\ Token(chan[channels[f]].generation) < nextGeneration
        /\ TokensSuffice =>
              Token(chan[channels[f]].generation) = chan[channels[f]].generation
    <2>1. PICK m \in Nat \ {0} : m = 2 ^ TokenBits
      BY ChannelRegistryAssumption
    <2>2. PICK g \in Nat : g = chan[channels[f]].generation /\ g < nextGeneration
      BY <1>1, <1>2, <1>3 DEF GenerationAt
    <2>3. g % m \in Nat /\ g % m <= g /\ (g < m => g % m = g)
      BY SMTT(60)
    <2>4. g % m < nextGeneration
      BY SMTT(60), <1>1, <2>2, <2>3
    <2> QED  BY <1>4, <2>1, <2>2, <2>3, <2>4 DEF Token
  <1> QED  BY ZenonT(60), <1>1, <1>2, <1>3, <1>5 DEF AgreeAt, GenerationAt

\* A poll turns the edges of registered channels into events in flight.
LEMMA PollEvents ==
    ASSUME IInv, EInv, Poll
    PROVE  EInv'
  <1>1. /\ UNCHANGED <<registryVars, fds, readable, deferred>>
        /\ active = <<>> /\ deferred = <<>>
    BY DEF Poll, IInv, TypeOK
  <1>2. InFlight = {} /\ InFlight' = Range(active')
    BY <1>1, RangeEmpty DEF InFlight
  <1>3. ASSUME NEW e \in InFlight' PROVE EventOK(e)'
    <2>1. PICK f \in Fds : e = EventOf(f)
      BY <1>2, <1>3, PollDoes DEF IInv
    <2>2. e.fd = f /\ e.generation = epoll[f].token /\ e.owner = epoll[f].owner
      BY <2>1 DEF EventOf
    <2>3. CASE epoll[f] # NoEntry
      BY <1>1, <2>2, <2>3, TokenIsGeneration DEF EventOK
    <2>4. CASE epoll[f] = NoEntry
      <3>1. e.generation = 0 /\ nextGeneration \in Nat \ {0}
        BY SMTT(60), <2>2, <2>4 DEF NoEntry, IInv, TypeOK
      <3>2. channels[f] # NoChannel => chan[channels[f]].generation # 0
        BY DEF IInv, TypeOK, Channel
      <3> QED  BY SMTT(30), <1>1, <2>2, <3>1, <3>2 DEF EventOK
    <2> QED  BY <2>3, <2>4
  <1>4. ASSUME NEW f \in Fds PROVE SignalledAt(f)'
    <2> DEFINE c == channels[f]
               e == EventOf(f)
    <2> SUFFICES ASSUME TokensSuffice, c # NoChannel, readable[f],
                        "read" \in chan[c].events
                 PROVE  /\ e \in Range(active') /\ e.fd = f /\ e.owner = c
                        /\ e.generation = chan[c].generation
                        /\ "read" \in e.revents
      BY <1>1, <1>2 DEF SignalledAt
    <2>1. SignalledAt(f) /\ AgreeAt(f)
      BY DEF EInv, IInv, AgreeInv
    <2>2. epoll[f].edge /\ epoll[f] # NoEntry /\ epoll[f].events = chan[c].events
      BY <1>2, <2>1 DEF SignalledAt, AgreeAt
    <2>3. /\ e.fd = f /\ e.owner = c /\ e.generation = chan[c].generation
          /\ "read" \in e.revents /\ e.generation # 0
      BY <2>2, TokenIsGeneration DEF EventOf, ReadyOf
    <2>4. Accepts(e)
      BY <2>3 DEF Accepts
    <2> QED  BY <2>2, <2>3, <2>4, PollDoes DEF IInv
  <1> QED  BY <1>1, <1>3, <1>4 DEF EInv, GenerationAt

\* A step of loop() that moves events, and makes none.
LEMMA MoveKeeps ==
    ASSUME IInv, EInv, InFlight' \subseteq InFlight,
           UNCHANGED <<registryVars, pollerVars>>,
           \A f \in Fds : SignalledAt(f)'
    PROVE  EInv'
  BY DEF EInv, GenerationAt, EventOK

\* The filter of the loop lets the signal of a registered reader pass.
LEMMA AcceptedIfSignal ==
    ASSUME IInv, NEW e \in InFlight, channels[e.fd] # NoChannel,
           e.generation = chan[channels[e.fd]].generation,
           "read" \in chan[channels[e.fd]].events, "read" \in e.revents
    PROVE  Accepts(e)
  <1>1. chan[channels[e.fd]].generation # 0
    BY InFlightType DEF IInv, TypeOK, Channel
  <1> QED  BY <1>1 DEF Accepts

\* An event that the filter drops was not the signal of a registered reader.
LEMMA SkipEvents ==
    ASSUME IInv, EInv, Skip
    PROVE  EInv'
  <1>1. /\ active \in Seq(Event) /\ active # <<>> /\ active' = Tail(active)
        /\ ~Accepts(Head(active))
        /\ UNCHANGED <<registryVars, pollerVars, readable, deferred>>
    BY DEF Skip, IInv, TypeOK
  <1>2. InFlight = {Head(active)} \cup InFlight'
    BY SMTT(60), <1>1, RangeTail DEF InFlight
  <1>3. ASSUME NEW f \in Fds PROVE SignalledAt(f)'
    <2>1. SignalledAt(f)
      BY DEF EInv
    <2>2. ASSUME NEW e \in InFlight, e.fd = f, channels[f] # NoChannel,
                 e.generation = chan[channels[f]].generation,
                 "read" \in chan[channels[f]].events, "read" \in e.revents
          PROVE  e \in InFlight'
      BY <1>1, <1>2, <2>2, AcceptedIfSignal
    <2> QED  BY <1>1, <2>1, <2>2 DEF SignalledAt
  <1> QED  BY <1>1, <1>2, <1>3, MoveKeeps

\* An event leaves the list for its callback, which reads all there is.
LEMMA DispatchEvents ==
    ASSUME IInv, EInv, Dispatch
    PROVE  EInv'
  <1> DEFINE event == Head(active)
  <1>1. /\ active \in Seq(Event) /\ active # <<>> /\ active' = Tail(active)
        /\ UNCHANGED <<registryVars, pollerVars, deferred>>
        /\ readable' = IF "read" \in event.revents \cap chan[channels[event.fd]].events
                       THEN [readable EXCEPT ![event.fd] = FALSE]
                       ELSE readable
    BY DEF Dispatch, IInv, TypeOK
  <1>2. InFlight = {event} \cup InFlight'
    BY SMTT(60), <1>1, RangeTail DEF InFlight
  <1>3. ASSUME NEW f \in Fds PROVE SignalledAt(f)'
    <2>1. SignalledAt(f) /\ readable \in [Fds -> BOOLEAN]
      BY DEF EInv, IInv, TypeOK
    <2>2. CASE "read" \in event.revents /\ "read" \in chan[channels[f]].events
                 /\ event.fd = f
      <3>1. readable'[f] = FALSE
        BY <1>1, <2>1, <2>2
      <3> QED  BY <3>1 DEF SignalledAt
    <2>3. CASE ~("read" \in event.revents /\ "read" \in chan[channels[f]].events
                   /\ event.fd = f)
      <3>1. readable'[f] => readable[f]
        BY <1>1, <2>1
      <3> QED  BY ZenonT(60), <1>1, <1>2, <2>1, <2>3, <3>1 DEF SignalledAt
    <2> QED  BY <2>2, <2>3
  <1> QED  BY <1>1, <1>2, <1>3, MoveKeeps

\* Deferring events and taking them up again changes none.
LEMMA DeferEvents ==
    ASSUME IInv, EInv, TakeDeferred \/ Defer \/ CallbackReturn \/ RoundEnd
    PROVE  EInv'
  <1>1. UNCHANGED <<registryVars, pollerVars, readable>>
    BY DEF TakeDeferred, Defer, CallbackReturn, RoundEnd
  <1>2. InFlight' = InFlight
    <2>1. /\ active \in Seq(Event) /\ deferred \in Seq(Event)
          /\ pc = "idle" => active = <<>>
      BY DEF IInv, TypeOK
    <2>2. CASE TakeDeferred
      BY <2>1, <2>2 DEF TakeDeferred, InFlight
    <2>3. CASE Defer
      <3>1. Range(deferred \o active) = Range(deferred) \cup Range(active)
        BY SMTT(60), <2>1, RangeConcat
      <3> QED  BY ZenonT(60), <2>3, <3>1, RangeEmpty DEF Defer, Deferred, InFlight
    <2>4. CASE CallbackReturn \/ RoundEnd
      BY <2>4 DEF CallbackReturn, RoundEnd, InFlight
    <2> QED  BY <2>2, <2>3, <2>4
  <1>3. \A f \in Fds : SignalledAt(f)'
    BY <1>1, <1>2 DEF EInv, SignalledAt
  <1> QED  BY <1>1, <1>2, <1>3, MoveKeeps

-----------------------------------------------------------------------------
\* Nothing is in flight at first.
LEMMA InitEInv == Init => EInv
  <1> SUFFICES ASSUME Init PROVE EInv
    OBVIOUS
  <1>1. InFlight = {}
    BY RangeEmpty DEF Init, InFlight
  <1> QED  BY SMTT(60), <1>1 DEF Init, EInv, GenerationAt, SignalledAt

\* Every step keeps the events in flight addressed to the channel they were
\* reported for, and unread data signalled.
LEMMA NextEInv == IInv /\ EInv /\ [Next]_vars => EInv'
  <1> SUFFICES ASSUME IInv, EInv, [Next]_vars PROVE EInv'
    OBVIOUS
  <1>1. ASSUME NEW c \in Channels, NEW f \in Fds, Create(c, f) PROVE EInv'
    <2>1. Apart(c)
      BY <1>1, CreateKeeps
    <2> QED  BY <1>1, <2>1, ApartEvents DEF Create
  <1>2. ASSUME NEW c \in Channels, OnNewConnection(c) PROVE EInv'
    <2>1. chan[c].events \in Interest
      BY DEF IInv, TypeOK, Channel
    <2> QED  BY <1>2, <2>1, RegisterEvents DEF OnNewConnection
  <1>3. ASSUME NEW c \in Channels, NEW events \in Interest, UpdateChannel(c, events)
        PROVE  EInv'
    <2>1. CASE events # {}
      BY <1>3, <2>1, RegisterEvents DEF UpdateChannel
    <2>2. CASE events = {} /\ channels[chan[c].fd] = c
      <3>1. /\ Unregister(c, "open", {}) /\ chan[c].phase = "open"
            /\ UNCHANGED <<nextGeneration, readable, eventVars>>
        BY <1>3, <2>2 DEF UpdateChannel
      <3> QED  BY <2>2, <3>1, UnregisterEvents
    <2>3. CASE events = {} /\ channels[chan[c].fd] # c
      BY <1>3, <2>3, UpdateApart, ApartEvents
    <2> QED  BY <2>1, <2>2, <2>3
  <1>4. ASSUME NEW c \in Channels, DisableAll(c) PROVE EInv'
    BY <1>4, DisableAllEvents
  <1>5. ASSUME NEW c \in Channels, CloseChannel(c) PROVE EInv'
    <2>1. CASE channels[chan[c].fd] = c
      <3>1. /\ Unregister(c, "closed", chan[c].events) /\ chan[c].phase = "open"
            /\ UNCHANGED <<nextGeneration, readable, eventVars>>
        BY <1>5, <2>1 DEF CloseChannel
      <3>2. chan[c].events \in Interest
        BY DEF IInv, TypeOK, Channel
      <3> QED  BY <3>1, <3>2, UnregisterEvents
    <2>2. CASE channels[chan[c].fd] # c
      BY <1>5, <2>2, CloseApart, ApartEvents
    <2> QED  BY <2>1, <2>2
  <1>6. ASSUME NEW c \in Channels, CloseSocket(c) PROVE EInv'
    <2>1. Apart(c) /\ channels[chan[c].fd] = NoChannel
      BY <1>6, CloseSocketKeeps
    <2>2. /\ readable' = [readable EXCEPT ![chan[c].fd] = FALSE]
          /\ UNCHANGED <<nextGeneration, active, deferred>>
      BY <1>6 DEF CloseSocket
    <2>3. \A f \in Fds : channels[f] # NoChannel => readable'[f] = readable[f]
      BY <2>1, <2>2 DEF IInv, TypeOK
    <2> QED  BY <2>1, <2>2, <2>3, ApartEvents
  <1>7. ASSUME NEW f \in Fds, Arrive(f) PROVE EInv'
    BY <1>7, ArriveEvents
  <1>8. CASE LoopStep
    BY ZenonT(60), <1>8, PollEvents, SkipEvents, DispatchEvents, DeferEvents DEF LoopStep
  <1>9. CASE UNCHANGED vars
    BY <1>9 DEF vars, EInv, GenerationAt, EventOK, SignalledAt, InFlight
  <1> QED  BY SMTT(30), <1>1, <1>2, <1>3, <1>4, <1>5, <1>6, <1>7, <1>8, <1>9
           DEF Next, UserCode

\* As long as generations do not wrap around their token, edge-triggered epoll
\* never leaves a registered reader with unread data and nothing on the way.
THEOREM DataIsAlwaysSignalled ==
    ASSUME TokensSuffice
    PROVE  Spec => []DataIsSignalled
  <1>1. EInv => DataIsSignalled
    BY DEF EInv, SignalledAt, InFlight, DataIsSignalled
  <1> QED  BY <1>1, InitIInv, NextIInv, InitEInv, NextEInv, PTL DEF Spec

\* An event is dispatched to the channel it was reported for, even if another one
\* took over its descriptor while it was queued or deferred: a generation that
\* does not fit into its token loses events, but mistakes none.
THEOREM EventsAlwaysReachTheirChannel == Spec => EventsReachTheirChannel
  <1> DEFINE Reach == pc = "dispatch" /\ pc' = "callback" =>
                        channels[Head(active).fd] = Head(active).owner
  <1>1. IInv /\ EInv /\ [Next]_vars => [Reach]_vars
    <2> SUFFICES ASSUME IInv, EInv, Next, pc = "dispatch", pc' = "callback"
                 PROVE  channels[Head(active).fd] = Head(active).owner
      OBVIOUS
    <2>1. Dispatch
      BY ZenonT(60) DEF Next, UserCode, Create, OnNewConnection, UpdateChannel, DisableAll,
             CloseChannel, CloseSocket, Arrive, LoopStep, TakeDeferred, Poll, Skip,
             CallbackReturn, Defer, RoundEnd
    <2>2. Accepts(Head(active)) /\ Head(active) \in InFlight
      BY SMTT(60), <2>1, RangeTail DEF Dispatch, IInv, TypeOK, InFlight
    <2>3. EventOK(Head(active))
      BY <2>2 DEF EInv
    <2> QED  BY <2>2, <2>3 DEF Accepts, EventOK
  <1> QED  BY <1>1, InitIInv, NextIInv, InitEInv, NextEInv, PTL
           DEF Spec, EventsReachTheirChannel
=============================================================================
