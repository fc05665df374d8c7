--------------------------- MODULE RpcSessionProofs ---------------------------
(***************************************************************************)
(* Proof that a coroutine which awaits a call is resumed once, with an     *)
(* answer to that call.  The invariant says who is to resume each call     *)
(* (OwnerOK): its own thread before the call is pending or after its send  *)
(* failed, the map of pending calls, or the one thread that took it out of *)
(* the map; never two of them.  The rest of it keeps the ids apart: a      *)
(* pending id belongs to one call, and a frame carries the ids of the call *)
(* it came from, whatever other calls do meanwhile (IdOK, FrameOK).        *)
(***************************************************************************)
EXTENDS RpcSession, TLAPS

USE Zenon
USE DEF rpc_vars

Statuses == {"duplicate", "canceled", "answered", "timeout"}
Responses == [kind : {"response"}, id : Nat, co : Nat, of : Calls, status : Statuses]
Requests == [kind : {"request"}, id : Nat, co : Nat, of : Calls]

StageOps == [op : {"suspend", "create"}] \cup [op : {"send"}, id : Nat]
HandlerOps == [op : {"complete"}, response : Responses] \cup [op : {"resume"}, call : Calls]
Ops == StageOps \cup HandlerOps

\* Where a call's own thread is.
Stage(c) == IF todo[c] = <<>> THEN "idle" ELSE Head(todo[c]).op

\* The threads that run the handlers of other threads' calls.
Services == {"io", "poller"}

\* The call that a handler completes or resumes.
CallOf(op) == IF op.op = "resume" THEN op.call ELSE op.response.of

\* c has a handler on the thread t.
On(t, c) == \E i \in 1..Len(todo[t]) : CallOf(todo[t][i]) = c

\* c has an entry in the coroutine registry.
HasEntry(c) ==
    /\ rpc_env.co[c] \in DOMAIN entries_
    /\ entries_[rpc_env.co[c]].call = c

\* c is in the map of pending calls.
Pending(c) == \E id \in DOMAIN calls_ : calls_[id] = c

\* Nothing fails; or no two calls share a coroutine id, and no call expires
\* while it is being sent.
SoundEnv(e) ==
    \/ ~e.failures
    \/ /\ ~e.slow_sends
       /\ \A c, d \in Calls : e.co[c] = e.co[d] => c = d

SoundEnvs == \A e \in RpcEnvs : SoundEnv(e)

\* An id that was handed out, and is c's if it is still pending.
IdOK(id, c) ==
    /\ id \in Nat /\ id < next_id
    /\ id \in DOMAIN calls_ => calls_[id] = c

\* A completion carries the coroutine id of its own call.
OwnResponse(op) ==
    op.op = "complete" => op.response.co = rpc_env.co[op.response.of]

\* The environment is sound; without failures the transport stays open.
EnvInv == /\ rpc_env \in RpcEnvs /\ SoundEnv(rpc_env)
          /\ ~rpc_env.failures => open

TypeInv ==
    /\ todo \in [Threads -> Seq(Ops)]
    /\ next_id \in Nat \ {0}

\* A call is pending under at most one id, and that id was handed out.
CallsInv ==
    /\ \A id \in DOMAIN calls_ : id \in Nat /\ id < next_id /\ calls_[id] \in Calls
    /\ \A i, j \in DOMAIN calls_ : calls_[i] = calls_[j] => i = j

\* An entry is its call's, and so is a result stored in it.
EntryAt(k) ==
    /\ entries_[k] \in [call : Calls, result : Responses \cup {None}]
    /\ rpc_env.co[entries_[k].call] = k
    /\ entries_[k].result # None => entries_[k].result.of = entries_[k].call

EntriesInv == \A k \in DOMAIN entries_ : EntryAt(k)

\* What a call's own thread may still have to do.
SelfOK(c) ==
    /\ Stage(c) \in {"suspend", "create", "send"} => Tail(todo[c]) = <<>>
    /\ Stage(c) = "send" =>
        /\ IdOK(Head(todo[c]).id, c)
        /\ rpc_env.failures => Head(todo[c]).id \in DOMAIN calls_
    /\ Stage(c) \in {"complete", "resume"} =>
        /\ CallOf(Head(todo[c])) = c
        /\ OwnResponse(Head(todo[c]))
        /\ Tail(todo[c]) \in {<<>>, NotSent(c)}

SelfInv == \A c \in Calls : SelfOK(c)

\* The handlers on a service thread: none twice, only the first may be past
\* its completion.
HandlersOK(t) ==
    /\ \A i \in 1..Len(todo[t]) :
        /\ todo[t][i] \in HandlerOps
        /\ OwnResponse(todo[t][i])
        /\ todo[t][i].op = "resume" => i = 1
    /\ \A i, j \in 1..Len(todo[t]) : CallOf(todo[t][i]) = CallOf(todo[t][j]) => i = j

HandlersInv == \A t \in Services : HandlersOK(t)

\* Who is to resume c: it has yet to suspend or to create the call, the call
\* is pending, or one thread has its handler.
OwnerOK(c) ==
    /\ Stage(c) = "suspend" => ~HasEntry(c) /\ resumed[c] = 0
    /\ Stage(c) = "create" => HasEntry(c)
    /\ Pending(c) => HasEntry(c) /\ Stage(c) \in {"send", "idle"}
    /\ \A t \in Services : On(t, c) =>
        HasEntry(c) /\ ~Pending(c) /\ Stage(c) \in {"send", "idle"}
    /\ ~(On("io", c) /\ On("poller", c))
    /\ Stage(c) \in {"complete", "resume"} =>
        rpc_env.failures /\ (HasEntry(c) \/ todo[c] = NotSent(c))
    /\ HasEntry(c) => resumed[c] = 0

OwnerInv == \A c \in Calls : OwnerOK(c)

\* The coroutine about to be resumed finds its result.
ResumeOK(t) ==
    todo[t] # <<>> /\ Head(todo[t]).op = "resume" =>
        /\ HasEntry(Head(todo[t]).call)
        /\ entries_[rpc_env.co[Head(todo[t]).call]].result # None

ResumeInv == \A t \in Threads : ResumeOK(t)

\* What a resumed coroutine took is the answer to its own call.
ResultInv ==
    /\ resumed \in [Calls -> {0, 1}]
    /\ got \in [Calls -> Responses \cup {None}]
    /\ \A c \in Calls : resumed[c] = 1 => got[c] # None /\ got[c].of = c

\* A frame that carries the ids of its call, which has been sent.
FrameOK(f) ==
    /\ f.of \in Calls /\ IdOK(f.id, f.of) /\ f.co = rpc_env.co[f.of]
    /\ todo[f.of] = <<>>

\* What the units on their way to a side, or in its decoder, carry.
Frames(s) ==
    IF s = "client" THEN {f \in Responses : FrameOK(f)}
                    ELSE {f \in Requests : FrameOK(f)} \cup [kind : {"push"}]

Bytes(s) == [part : {"header", "body"}, bad : BOOLEAN, frame : Frames(s)]

WireInv ==
    /\ DOMAIN wire = Sides /\ DOMAIN decoder = Sides
    /\ \A s \in Sides : wire[s] \in Seq(Bytes(s)) /\ decoder[s] \in Seq(Bytes(s))

IInv == /\ EnvInv /\ TypeInv /\ CallsInv /\ EntriesInv /\ SelfInv /\ HandlersInv
        /\ OwnerInv /\ ResumeInv /\ ResultInv /\ WireInv
-----------------------------------------------------------------------------
(* Facts about the operators of the model.                                 *)

\* What a sound environment holds.
LEMMA EnvTypes ==
    ASSUME rpc_env \in RpcEnvs
    PROVE  /\ rpc_env.co \in [Calls -> Nat] /\ rpc_env.timed \subseteq Calls
           /\ rpc_env.failures \in BOOLEAN /\ rpc_env.slow_sends \in BOOLEAN
           /\ rpc_env.bad_frames \in BOOLEAN
BY SMT, RpcAssumption

\* No call was answered with nothing.
LEMMA NoneIsNoResponse == None \notin Responses
BY SMT DEF None, Responses, Statuses

\* Response() builds a response of the call, with its coroutine id.
LEMMA ResponseFields ==
    ASSUME rpc_env \in RpcEnvs, NEW id \in Nat, NEW c \in Calls, NEW st \in Statuses
    PROVE  /\ Response(id, c, st) \in Responses
           /\ Response(id, c, st).of = c
           /\ Response(id, c, st).co = rpc_env.co[c]
           /\ Response(id, c, st).id = id
<1>1. rpc_env.co[c] \in Nat
  BY EnvTypes
<1> QED
  BY SMT, <1>1 DEF Response, Responses

\* The handler that complete() runs for a response.
LEMMA CompleteFields ==
    ASSUME NEW r \in Responses
    PROVE  /\ Complete(r) \in HandlerOps /\ Complete(r) \in Ops
           /\ Complete(r).op = "complete" /\ Complete(r).response = r
           /\ CallOf(Complete(r)) = r.of
BY SMT DEF Complete, HandlerOps, Ops, CallOf

\* The resumption of a coroutine.
LEMMA ResumeFields ==
    ASSUME NEW c \in Calls
    PROVE  /\ [op |-> "resume", call |-> c] \in HandlerOps
           /\ [op |-> "resume", call |-> c] \in Ops
           /\ [op |-> "resume", call |-> c].op = "resume"
           /\ [op |-> "resume", call |-> c].call = c
           /\ CallOf([op |-> "resume", call |-> c]) = c
BY SMT DEF HandlerOps, Ops, CallOf

\* What a call's own thread has to do.
LEMMA StageFields ==
    ASSUME NEW id \in Nat
    PROVE  /\ [op |-> "suspend"] \in Ops /\ [op |-> "create"] \in Ops
           /\ [op |-> "send", id |-> id] \in Ops
BY SMT DEF StageOps, Ops

\* A handler completes an entry or resumes a coroutine.
LEMMA HandlerKinds ==
    ASSUME NEW op \in Ops
    PROVE  /\ op.op \in {"suspend", "create", "send", "complete", "resume"}
           /\ op.op = "send" => op.id \in Nat
           /\ op.op = "complete" => op.response \in Responses /\ CallOf(op) = op.response.of
           /\ op.op = "resume" => op.call \in Calls /\ CallOf(op) = op.call
           /\ op.op \in {"complete", "resume"} => op \in HandlerOps /\ CallOf(op) \in Calls
           /\ op \in HandlerOps => op.op \in {"complete", "resume"}
BY SMT DEF Ops, StageOps, HandlerOps, CallOf, Responses

\* The head of a sequence leaves it.
LEMMA Popped ==
    ASSUME NEW S, NEW s \in Seq(S), s # <<>>
    PROVE  /\ <<>> \o Tail(s) = Tail(s) /\ Tail(s) \in Seq(S)
           /\ Head(s) = s[1] /\ Head(s) \in S /\ Len(s) \in Nat \ {0}
           /\ Len(Tail(s)) = Len(s) - 1
           /\ \A i \in 1..Len(Tail(s)) : Tail(s)[i] = s[i + 1] /\ i + 1 \in 1..Len(s)
BY SMT

\* The head of a sequence is replaced.
LEMMA Swapped ==
    ASSUME NEW S, NEW s \in Seq(S), s # <<>>, NEW x \in S, NEW r, r = <<x>> \o Tail(s)
    PROVE  /\ r \in Seq(S) /\ r # <<>> /\ Head(r) = x /\ Tail(r) = Tail(s)
           /\ Len(r) = Len(s) /\ r[1] = x
           /\ \A i \in 1..Len(s) : i # 1 => r[i] = s[i]
<1>1. Tail(s) \in Seq(S) /\ Len(Tail(s)) = Len(s) - 1 /\ Len(s) \in Nat \ {0}
  BY SMT
<1>2. \A i \in 1..Len(Tail(s)) : Tail(s)[i] = s[i + 1]
  BY SMT
<1>3. <<x>> \in Seq(S) /\ Len(<<x>>) = 1 /\ <<x>>[1] = x
  BY SMT
<1>4. r \in Seq(S) /\ Len(r) = Len(s)
  BY SMT, <1>1, <1>3
<1>5. r[1] = x /\ \A i \in 1..Len(s) : i # 1 => r[i] = s[i]
  BY SMT, <1>1, <1>2, <1>3
<1>6. r # <<>> /\ Head(r) = x
  BY SMT, <1>4, <1>5, <1>1
<1>7. Tail(r) = Tail(s)
  BY SMT, <1>1, <1>2, <1>3, <1>4, <1>5
<1> QED
  BY <1>4, <1>5, <1>6, <1>7

\* A sequence of one element.
LEMMA OneElement ==
    ASSUME NEW S, NEW x \in S
    PROVE  /\ <<x>> \in Seq(S) /\ <<x>> # <<>> /\ <<x>> \o <<>> = <<x>>
           /\ Head(<<x>>) = x /\ Tail(<<x>>) = <<>> /\ Len(<<x>>) = 1 /\ <<x>>[1] = x
BY SMT

\* The elements of a concatenation.
LEMMA Joined ==
    ASSUME NEW S, NEW s \in Seq(S), NEW r \in Seq(S)
    PROVE  /\ s \o r \in Seq(S) /\ Len(s \o r) = Len(s) + Len(r)
           /\ \A i \in 1..Len(s) + Len(r) :
                 (s \o r)[i] = IF i <= Len(s) THEN s[i] ELSE r[i - Len(s)]
<1>1. s \o r \in Seq(S) /\ Len(s \o r) = Len(s) + Len(r)
  BY SMT
<1>2. \A i \in 1..Len(s) + Len(r) :
          (s \o r)[i] = IF i <= Len(s) THEN s[i] ELSE r[i - Len(s)]
  BY SMT
<1> QED
  BY <1>1, <1>2

\* A handler is put in front of the one that runs after it.
LEMMA TwoElements ==
    ASSUME NEW S, NEW x \in S, NEW y \in S
    PROVE  /\ (<<x>> \o <<y>>) \o <<>> \in Seq(S) /\ (<<x>> \o <<y>>) \o <<>> # <<>>
           /\ Head((<<x>> \o <<y>>) \o <<>>) = x
           /\ Tail((<<x>> \o <<y>>) \o <<>>) = <<y>>
<1> DEFINE a == <<x>>
           b == <<y>>
           p == a \o b
<1>1. a \in Seq(S) /\ Len(a) = 1 /\ a[1] = x /\ b \in Seq(S) /\ Len(b) = 1 /\ b[1] = y
  BY SMT
<1> HIDE DEF a, b
<1>2. p \in Seq(S) /\ Len(p) = 2 /\ p[1] = x /\ p[2] = y
  <2>1. /\ p \in Seq(S) /\ Len(p) = Len(a) + Len(b)
        /\ \A i \in 1..Len(a) + Len(b) :
              p[i] = IF i <= Len(a) THEN a[i] ELSE b[i - Len(a)]
    BY <1>1, Joined
  <2> HIDE DEF p
  <2> QED
    BY SMT, <1>1, <2>1
<1>3. p \o <<>> = p
  BY SMT, <1>2
<1> HIDE DEF p
<1>4. p # <<>> /\ Head(p) = x /\ Tail(p) \in Seq(S) /\ Len(Tail(p)) = 1 /\ Tail(p)[1] = y
  <2>1. p # <<>>
    BY SMT, <1>2
  <2>2. Head(p) = p[1] /\ Tail(p) \in Seq(S) /\ Len(Tail(p)) = Len(p) - 1
        /\ \A i \in 1..Len(Tail(p)) : Tail(p)[i] = p[i + 1]
    BY <1>2, <2>1, Popped
  <2>3. Len(Tail(p)) = 1 /\ 1 \in 1..1 /\ 1 + 1 = 2
    BY SMT, <1>2, <2>2
  <2> QED
    BY <1>2, <2>1, <2>2, <2>3
<1>5. Tail(p) = b
  <2>1. \A q, r \in Seq(S) : Len(q) = 1 /\ Len(r) = 1 /\ q[1] = r[1] => q = r
    BY SMTT(20)
  <2> QED
    BY <1>1, <1>4, <2>1
<1> QED
  BY <1>2, <1>3, <1>4, <1>5 DEF a, b, p

\* A thread with nothing to do.
LEMMA EmptySequence ==
    ASSUME NEW S
    PROVE  <<>> \in Seq(S) /\ <<>> \o <<>> = <<>> /\ Len(<<>>) = 0 /\ 1..0 = {}
BY SMT

\* await_suspend's handler for a send that failed.
LEMMA NotSentFields ==
    ASSUME rpc_env \in RpcEnvs, NEW c \in Calls
    PROVE  \E x \in HandlerOps : 
              /\ NotSent(c) = <<x>> /\ x \in Ops /\ x.op = "complete" 
              /\ x.response.of = c /\ x.response.co = rpc_env.co[c] /\ CallOf(x) = c
<1> DEFINE r == Response(0, c, "canceled")
<1>1. r \in Responses /\ r.of = c /\ r.co = rpc_env.co[c]
  <2>1. "canceled" \in Statuses
    BY DEF Statuses
  <2> QED
    BY SMT, <2>1, ResponseFields
<1> HIDE DEF r
<1>2. Complete(r) \in HandlerOps /\ Complete(r) \in Ops /\ Complete(r).op = "complete"
       /\ Complete(r).response = r /\ CallOf(Complete(r)) = r.of
  BY <1>1, CompleteFields
<1>3. NotSent(c) = <<Complete(r)>>
  BY DEF NotSent, r
<1> USE <1>2
<1> WITNESS Complete(r) \in HandlerOps
<1> QED
  BY <1>1, <1>2, <1>3

\* Sequences over a set are sequences over a larger one.
LEMMA SeqGrows ==
    ASSUME NEW S, NEW T, S \subseteq T
    PROVE  Seq(S) \subseteq Seq(T)
BY SMT

\* What is left of a map.
LEMMA RestrictFields ==
    ASSUME NEW f, NEW S
    PROVE  /\ DOMAIN Restrict(f, DOMAIN f \ S) = DOMAIN f \ S
           /\ \A x \in DOMAIN f \ S : Restrict(f, DOMAIN f \ S)[x] = f[x]
BY DEF Restrict

\* What erase() leaves of a map.
LEMMA ErasedFields ==
    ASSUME NEW f, NEW k
    PROVE  /\ DOMAIN Erased(f, k) = DOMAIN f \ {k}
           /\ \A x \in DOMAIN f \ {k} : Erased(f, k)[x] = f[x]
BY RestrictFields DEF Erased

\* One thread's work changes; the others' does not.
LEMMA OneThread ==
    ASSUME TypeInv, NEW t \in Threads, NEW s, todo' = [todo EXCEPT ![t] = s]
    PROVE  /\ todo'[t] = s /\ \A u \in Threads : u # t => todo'[u] = todo[u]
           /\ s \in Seq(Ops) => todo' \in [Threads -> Seq(Ops)]
BY DEF TypeInv

\* A thread is that of a call, or it runs handlers.
LEMMA ThreadKinds ==
    /\ Calls \subseteq Threads /\ Services \subseteq Threads
    /\ \A t \in Threads : t \in Calls \/ t \in Services
    /\ \A c \in Calls : c \notin Services /\ c # "io" /\ c # "poller"
    /\ "io" \in Services /\ "poller" \in Services /\ "io" # "poller"
    /\ \A t \in Services : t = "io" \/ t = "poller"
BY RpcAssumption DEF Threads, Services
-----------------------------------------------------------------------------
(* What a step leaves alone.                                               *)

\* c keeps whoever is to resume it.
LEMMA OwnerKept ==
    ASSUME NEW c \in Calls, OwnerOK(c), rpc_env' = rpc_env, todo'[c] = todo[c],
           HasEntry(c)' <=> HasEntry(c), Pending(c)' => Pending(c),
           \A t \in Services : On(t, c)' => On(t, c),
           resumed'[c] = resumed[c]
    PROVE  OwnerOK(c)'
<1>1. Stage(c)' = Stage(c) /\ NotSent(c)' = NotSent(c)
  BY DEF Stage, NotSent, Response
<1>2. "io" \in Services /\ "poller" \in Services
  BY ThreadKinds
<1> QED
  BY <1>1, <1>2 DEF OwnerOK

\* A call's own thread stays where it is.
LEMMA SelfKept ==
    ASSUME NEW c \in Calls, SelfOK(c), rpc_env' = rpc_env, todo'[c] = todo[c],
           \A id : IdOK(id, c) => IdOK(id, c)',
           Stage(c) = "send" /\ rpc_env.failures /\ Head(todo[c]).id \in DOMAIN calls_ =>
               Head(todo[c]).id \in DOMAIN calls_'
    PROVE  SelfOK(c)'
<1>1. Stage(c)' = Stage(c) /\ NotSent(c)' = NotSent(c)
  BY DEF Stage, NotSent, Response
<1> QED
  BY <1>1 DEF SelfOK, OwnResponse

\* A thread keeps its handlers.
LEMMA HandlersKept ==
    ASSUME NEW t, HandlersOK(t), rpc_env' = rpc_env, todo'[t] = todo[t]
    PROVE  HandlersOK(t)'
BY DEF HandlersOK, OwnResponse

\* ... and so the calls that they are for.
LEMMA OnKept ==
    ASSUME NEW t, NEW c, todo'[t] = todo[t]
    PROVE  On(t, c)' <=> On(t, c)
BY DEF On

\* A result stays where it is.
LEMMA ResumeKept ==
    ASSUME NEW t, ResumeOK(t), rpc_env' = rpc_env, todo'[t] = todo[t],
           todo[t] # <<>> /\ Head(todo[t]).op = "resume" =>
               LET c == Head(todo[t]).call IN
               /\ HasEntry(c) => HasEntry(c)'
               /\ entries_[rpc_env.co[c]].result # None =>
                      entries_'[rpc_env.co[c]].result # None
    PROVE  ResumeOK(t)'
BY DEF ResumeOK

\* The coroutine entries stay.
LEMMA EntriesKept ==
    ASSUME rpc_env' = rpc_env, entries_' = entries_
    PROVE  EntriesInv => EntriesInv' /\ \A c : HasEntry(c)' <=> HasEntry(c)
BY DEF EntriesInv, EntryAt, HasEntry

\* Frames under way stay in order when no sent call goes back to work and no
\* id changes hands.
LEMMA FramesKept ==
    ASSUME rpc_env' = rpc_env,
           \A c \in Calls : todo[c] = <<>> => todo'[c] = <<>>,
           \A c \in Calls : \A id : IdOK(id, c) => IdOK(id, c)',
           NEW s
    PROVE  Bytes(s) \subseteq Bytes(s)' /\ Seq(Bytes(s)) \subseteq Seq(Bytes(s)')
<1>1. ASSUME NEW f, FrameOK(f)
      PROVE  FrameOK(f)'
  BY <1>1 DEF FrameOK
<1>2. Frames(s) \subseteq Frames(s)'
  BY <1>1 DEF Frames
<1>3. Bytes(s) \subseteq Bytes(s)'
  <2> DEFINE F == Frames(s)
             G == Frames(s)'
  <2> HIDE DEF F, G
  <2>1. F \subseteq G => [part : {"header", "body"}, bad : BOOLEAN, frame : F]
                          \subseteq [part : {"header", "body"}, bad : BOOLEAN, frame : G]
    BY SMT
  <2> QED
    BY <1>2, <2>1 DEF F, G, Bytes
<1> QED
  BY <1>3, SeqGrows

\* The frames on their way stay.
LEMMA WireKept ==
    ASSUME WireInv, rpc_env' = rpc_env, wire' = wire, decoder' = decoder,
           \A c \in Calls : todo[c] = <<>> => todo'[c] = <<>>,
           \A c \in Calls : \A id : IdOK(id, c) => IdOK(id, c)'
    PROVE  WireInv'
<1>1. \A s \in Sides : Seq(Bytes(s)) \subseteq Seq(Bytes(s)')
  BY FramesKept
<1> QED
  BY <1>1 DEF WireInv

\* No call is added, none changes hands.
LEMMA CallsShrink ==
    ASSUME CallsInv, next_id' = next_id, DOMAIN calls_' \subseteq DOMAIN calls_,
           \A id \in DOMAIN calls_' : calls_'[id] = calls_[id]
    PROVE  /\ CallsInv'
           /\ \A c : Pending(c)' => Pending(c)
           /\ \A c, id : IdOK(id, c) => IdOK(id, c)'
<1>1. CallsInv'
  BY DEF CallsInv
<1>2. \A c : Pending(c)' => Pending(c)
  BY DEF Pending
<1>3. \A c, id : IdOK(id, c) => IdOK(id, c)'
  BY DEF IdOK
<1> QED
  BY <1>1, <1>2, <1>3

\* The pending calls stay.
LEMMA CallsKept ==
    ASSUME CallsInv, next_id' = next_id, calls_' = calls_
    PROVE  /\ CallsInv'
           /\ \A c : Pending(c)' <=> Pending(c)
           /\ \A c, id : IdOK(id, c) => IdOK(id, c)'
BY DEF CallsInv, Pending, IdOK

\* The environment never changes.
LEMMA EnvKept ==
    ASSUME EnvInv, rpc_env' = rpc_env, open' = open
    PROVE  EnvInv'
BY DEF EnvInv, SoundEnv

\* The results stay.
LEMMA ResultKept ==
    ASSUME ResultInv, resumed' = resumed, got' = got
    PROVE  ResultInv'
BY DEF ResultInv

\* A frame of the right kind makes bytes of the right kind.
LEMMA UnitsAreBytes ==
    ASSUME NEW F, NEW f \in F, NEW bad \in BOOLEAN
    PROVE  Units(f, bad) \in Seq([part : {"header", "body"}, bad : BOOLEAN, frame : F])
<1>1. \A part \in {"header", "body"} : [part |-> part, bad |-> bad, frame |-> f]
          \in [part : {"header", "body"}, bad : BOOLEAN, frame : F]
  OBVIOUS
<1>2. \A S : \A x, y \in S : <<x, y>> \in Seq(S)
  BY SMTT(20)
<1> QED
  BY <1>1, <1>2 DEF Units

\* A part of a buffer holds only what the buffer holds.
LEMMA PartsStayBytes ==
    ASSUME NEW S, NEW s \in Seq(S), NEW m \in Nat \ {0}, NEW n \in Nat, n <= Len(s)
    PROVE  SubSeq(s, m, n) \in Seq(S)
<1>1. \A i \in m..n : s[i] \in S
  BY SMT
<1> QED
  BY SMT, <1>1

\* A buffer that decodes begins with a frame.
LEMMA FirstFrame ==
    ASSUME NEW s, NEW b \in Seq(Bytes(s)), Verdict(b) = "ok"
    PROVE  b[1].frame \in Frames(s) /\ SubSeq(b, 3, Len(b)) \in Seq(Bytes(s))
<1>1. b # <<>>
  BY DEF Verdict
<1>2. PICK F : F = Frames(s)
  OBVIOUS
<1>3. b[1] \in [part : {"header", "body"}, bad : BOOLEAN, frame : F]
  <2>1. Head(b) = b[1] /\ Head(b) \in Bytes(s)
    BY <1>1, Popped
  <2> QED
    BY <1>2, <2>1 DEF Bytes
<1>4. b[1].frame \in F
  BY <1>3
<1>5. SubSeq(b, 3, Len(b)) \in Seq(Bytes(s))
  <2>1. 3 \in Nat \ {0} /\ Len(b) \in Nat /\ Len(b) <= Len(b)
    BY SMT
  <2> QED
    BY <2>1, PartsStayBytes
<1> QED
  BY <1>2, <1>4, <1>5

\* One side's input changes.
LEMMA WireGrows ==
    ASSUME WireInv, decoder' = decoder, NEW s \in Sides, NEW w, wire' = [wire EXCEPT ![s] = w],
           \A x \in Sides : Seq(Bytes(x)) \subseteq Seq(Bytes(x)'), w \in Seq(Bytes(s)')
    PROVE  WireInv'
<1>1. DOMAIN wire' = Sides /\ wire'[s] = w /\ \A x \in Sides : x # s => wire'[x] = wire[x]
  BY DEF WireInv
<1> QED
  BY <1>1 DEF WireInv
-----------------------------------------------------------------------------
(* Handlers.                                                               *)

\* Who runs a handler, and that nobody else will.
LEMMA HandlerAtHead ==
    ASSUME IInv, NEW t \in Threads, todo[t] # <<>>, NEW op, op = Head(todo[t]),
           op.op \in {"complete", "resume"}, NEW d, d = CallOf(op)
    PROVE  /\ op \in Ops /\ d \in Calls /\ OwnResponse(op) /\ ~Pending(d)
           /\ t \in Calls => /\ t = d /\ rpc_env.failures
                             /\ HasEntry(d) \/ todo[d] = NotSent(d)
           /\ t \in Services => HasEntry(d) /\ Stage(d) \in {"send", "idle"}
           /\ \A u \in Services : u # t => ~On(u, d)
<1> USE DEF IInv
<1>1. todo[t] \in Seq(Ops) /\ op \in Ops /\ op = todo[t][1] /\ 1 \in 1..Len(todo[t])
  <2>1. todo[t] \in Seq(Ops)
    BY DEF TypeInv
  <2>2. op \in Ops /\ op = todo[t][1] /\ Len(todo[t]) \in Nat \ {0}
    BY <2>1, Popped
  <2>3. 1 \in 1..Len(todo[t])
    BY SMT, <2>2
  <2> QED
    BY <2>1, <2>2, <2>3
<1>2. d \in Calls
  BY <1>1, HandlerKinds
<1>3. CASE t \in Calls
  <2>1. Stage(t) = op.op
    BY DEF Stage
  <2>2. d = t /\ OwnResponse(op)
    BY <1>3, <2>1 DEF SelfInv, SelfOK
  <2>3. OwnerOK(t) /\ t \notin Services /\ Stage(t) \notin {"send", "idle"}
    BY <1>3, <2>1, ThreadKinds DEF OwnerInv
  <2> QED
    BY <1>1, <1>2, <2>1, <2>2, <2>3 DEF OwnerOK
<1>4. CASE t \in Services
  <2>1. OwnResponse(op) /\ On(t, d)
    BY ZenonT(60), <1>1, <1>4 DEF HandlersInv, HandlersOK, On
  <2>2. OwnerOK(d) /\ t \notin Calls
    BY <1>2, <1>4, ThreadKinds DEF OwnerInv
  <2> QED
    BY <1>1, <1>2, <1>4, <2>1, <2>2, ThreadKinds DEF OwnerOK
<1> QED
  BY <1>3, <1>4, ThreadKinds

\* Coroutines that share an id share nothing when something may fail.
LEMMA EntryIsOwn ==
    ASSUME IInv, NEW d \in Calls, rpc_env.failures, rpc_env.co[d] \in DOMAIN entries_
    PROVE  HasEntry(d)
<1> DEFINE k == rpc_env.co[d]
           c == entries_[k].call
<1>1. EntryAt(k)
  BY Zenon DEF IInv, EntriesInv
<1>2. c \in Calls /\ rpc_env.co[c] = k
  BY Zenon, <1>1 DEF EntryAt
<1>3. c = d
  BY Zenon, <1>2 DEF IInv, EnvInv, SoundEnv
<1> QED
  BY Zenon, <1>3 DEF HasEntry

\* complete(): the result is stored, the coroutine is to be resumed.
LEMMA CompleteFound ==
    ASSUME IInv, NEW t \in Threads, CompleteEntry(t),
           Head(todo[t]).response.co \in DOMAIN entries_
    PROVE  IInv'
<1> DEFINE op == Head(todo[t])
           r == op.response
           d == r.of
           k == rpc_env.co[d]
           next == [op |-> "resume", call |-> d]
<1>0. EnvInv /\ TypeInv /\ CallsInv /\ EntriesInv /\ SelfInv /\ HandlersInv /\ OwnerInv
      /\ ResumeInv /\ ResultInv /\ WireInv
  BY DEF IInv
<1>1. /\ todo[t] # <<>> /\ op.op = "complete" /\ todo[t] \in Seq(Ops)
      /\ UNCHANGED <<rpc_env, open, next_id, calls_, wire, decoder, decoding, resumed, got>>
  BY <1>0 DEF CompleteEntry, Doing, TypeInv
<1>2. op \in Ops /\ r \in Responses /\ CallOf(op) = d /\ d \in Calls
  BY <1>1, Popped, HandlerKinds
<1>3. /\ OwnResponse(op) /\ ~Pending(d)
      /\ t \in Calls => t = d /\ rpc_env.failures
      /\ t \in Services => HasEntry(d) /\ Stage(d) \in {"send", "idle"}
      /\ \A u \in Services : u # t => ~On(u, d)
  BY ZenonT(60), <1>1, <1>2, HandlerAtHead
<1>4. r.co = k
  BY <1>1, <1>3 DEF OwnResponse
<1>5. HasEntry(d) /\ k \in DOMAIN entries_ /\ entries_[k].call = d
  BY <1>2, <1>3, <1>4, EntryIsOwn, ThreadKinds DEF HasEntry
<1>6. /\ entries_' = [entries_ EXCEPT ![k].result = r]
      /\ todo' = [todo EXCEPT ![t] = <<next>> \o Tail(@)]
  BY <1>4, <1>5 DEF CompleteEntry, Then
<1>7. /\ next \in HandlerOps /\ next \in Ops /\ next.op = "resume" /\ next.call = d
      /\ CallOf(next) = d
  BY <1>2, ResumeFields
<1>8. /\ todo'[t] = <<next>> \o Tail(todo[t]) 
      /\ \A u \in Threads : u # t => todo'[u] = todo[u]
      /\ todo'[t] \in Seq(Ops) => todo' \in [Threads -> Seq(Ops)]
  <2>1. todo' = [todo EXCEPT ![t] = <<next>> \o Tail(todo[t])]
    BY <1>6
  <2> QED
    BY <1>0, <2>1, OneThread
<1> HIDE DEF next, op, r, d, k
<1>9. /\ todo'[t] \in Seq(Ops) /\ todo'[t] # <<>> /\ Head(todo'[t]) = next
      /\ Tail(todo'[t]) = Tail(todo[t]) /\ Len(todo'[t]) = Len(todo[t]) /\ todo'[t][1] = next
      /\ \A i \in 1..Len(todo[t]) : i # 1 => todo'[t][i] = todo[t][i]
  BY SMTT(30), <1>1, <1>7, <1>8, Swapped
<1>10. /\ todo[t][1] = op /\ Len(todo[t]) \in Nat \ {0}
  BY <1>1, Popped DEF op
<1>11. entries_[k] \in [call : Calls, result : Responses \cup {None}]
  BY <1>0, <1>5 DEF EntriesInv, EntryAt
<1>12. /\ DOMAIN entries_' = DOMAIN entries_
       /\ \A x \in DOMAIN entries_ : x # k => entries_'[x] = entries_[x]
       /\ entries_'[k] \in [call : Calls, result : Responses \cup {None}]
       /\ entries_'[k].call = d /\ entries_'[k].result = r
  BY SMT, <1>2, <1>5, <1>6, <1>11
<1>13. r # None
  BY <1>2, NoneIsNoResponse
<1>20. EnvInv'
  BY <1>0, <1>1, EnvKept
<1>21. TypeInv'
  BY <1>0, <1>1, <1>8, <1>9 DEF TypeInv
<1>22. CallsInv' /\ (\A c : Pending(c)' <=> Pending(c)) /\ \A c, id : IdOK(id, c) => IdOK(id, c)'
  BY <1>0, <1>1, CallsKept
<1>23. EntriesInv'
  <2> SUFFICES ASSUME NEW x \in DOMAIN entries_' PROVE EntryAt(x)'
    BY DEF EntriesInv
  <2>1. CASE x = k
    BY <1>1, <1>12, <2>1 DEF EntryAt, k, d
  <2>2. CASE x # k
    BY ZenonT(60), <1>0, <1>1, <1>12, <2>2 DEF EntriesInv, EntryAt
  <2> QED
    BY <2>1, <2>2
<1>24. \A c : HasEntry(c)' <=> HasEntry(c)
  BY <1>1, <1>5, <1>12 DEF HasEntry
<1>25. \A u \in Services : HandlersOK(u)' /\ \A c : On(u, c)' <=> On(u, c)
  <2> SUFFICES ASSUME NEW u \in Services
               PROVE  HandlersOK(u)' /\ \A c : On(u, c)' <=> On(u, c)
    OBVIOUS
  <2>1. CASE u # t
    BY <1>0, <1>1, <1>8, <2>1, HandlersKept, OnKept, ThreadKinds DEF HandlersInv
  <2>2. CASE u = t
    <3>1. HandlersOK(t)
      BY <1>0, <2>2 DEF HandlersInv
    <3>2. \A i \in 1..Len(todo[t]) : CallOf(todo'[t][i]) = CallOf(todo[t][i])
      BY <1>2, <1>7, <1>8, <1>9, <1>10
    <3>3. \A i \in 1..Len(todo[t]) : /\ todo'[t][i] \in HandlerOps
                                     /\ OwnResponse(todo'[t][i])
                                     /\ todo'[t][i].op = "resume" => i = 1
      <4>1. ~(next.op = "complete")
        BY <1>7
      <4>2. ASSUME NEW i \in 1..Len(todo[t]), i # 1
            PROVE  /\ todo'[t][i] \in HandlerOps /\ OwnResponse(todo'[t][i])
                   /\ todo'[t][i].op = "resume" => i = 1
        BY <1>8, <1>9, <3>1, <4>2 DEF HandlersOK
      <4>3. todo'[t][1] \in HandlerOps /\ OwnResponse(todo'[t][1])
        BY <1>7, <1>8, <1>9, <4>1 DEF OwnResponse
      <4> QED
        BY <4>2, <4>3
    <3>4. Len(todo'[t]) = Len(todo[t])
      BY <1>8, <1>9
    <3>5. \A o : OwnResponse(o)' <=> OwnResponse(o)
      BY <1>1 DEF OwnResponse
    <3> QED
      BY ZenonT(60), <2>2, <3>1, <3>2, <3>3, <3>4, <3>5 DEF HandlersOK, On
  <2> QED
    BY <2>1, <2>2
<1>26. ASSUME NEW c \in Calls
       PROVE  SelfOK(c)' /\ OwnerOK(c)' /\ (todo[c] = <<>> => todo'[c] = <<>>)
  <2>1. SelfOK(c) /\ OwnerOK(c) /\ c \in Threads
    BY <1>0, <1>26, ThreadKinds DEF SelfInv, OwnerInv
  <2>2. CASE c # t
    <3>1. todo'[c] = todo[c]
      BY <1>8, <2>1, <2>2
    <3> QED
      BY <1>1, <1>22, <1>24, <1>25, <2>1, <3>1, SelfKept, OwnerKept
  <2>3. CASE c = t
    <3>1. Stage(c) = "complete" /\ Stage(c)' = "resume" /\ c = d
      BY <1>1, <1>3, <1>7, <1>8, <1>9, <2>3 DEF Stage, op
    <3>2. Tail(todo[c]) \in {<<>>, NotSent(c)} /\ NotSent(c)' = NotSent(c)
      BY <1>1, <2>1, <3>1 DEF SelfOK, NotSent, Response
    <3>3. SelfOK(c)'
      BY <1>7, <1>8, <1>9, <2>3, <3>1, <3>2 DEF SelfOK, OwnResponse
    <3>4. OwnerOK(c)'
      BY <1>1, <1>5, <1>22, <1>24, <1>25, <2>1, <3>1, ThreadKinds DEF OwnerOK
    <3> QED
      BY <1>1, <2>3, <3>3, <3>4
  <2> QED
    BY <2>2, <2>3
<1>27. ResumeInv'
  <2> SUFFICES ASSUME NEW u \in Threads PROVE ResumeOK(u)'
    BY DEF ResumeInv
  <2>1. CASE u # t
    <3>1. ResumeOK(u) /\ todo'[u] = todo[u]
      BY <1>0, <1>8, <2>1 DEF ResumeInv
    <3>2. \A x : x \in DOMAIN entries_ /\ entries_[x].result # None => entries_'[x].result # None
      BY <1>12, <1>13
    <3> QED
      BY ZenonT(60), <1>1, <1>24, <3>1, <3>2 DEF ResumeOK, HasEntry
  <2>2. CASE u = t
    <3>1. Head(todo'[t]).call = d
      BY <1>7, <1>8, <1>9
    <3>2. /\ rpc_env'.co[d] \in DOMAIN entries_' /\ entries_'[rpc_env'.co[d]].call = d
          /\ entries_'[rpc_env'.co[d]].result # None
      BY <1>1, <1>5, <1>12, <1>13 DEF k
    <3> QED
      BY <2>2, <3>1, <3>2 DEF ResumeOK, HasEntry
  <2> QED
    BY <2>1, <2>2
<1>28. ResultInv'
  BY <1>0, <1>1, ResultKept
<1>29. WireInv'
  BY <1>0, <1>1, <1>22, <1>26, WireKept
<1> QED
  BY <1>20, <1>21, <1>22, <1>23, <1>25, <1>26, <1>27, <1>28, <1>29
     DEF IInv, SelfInv, HandlersInv, OwnerInv

\* complete() finds no entry: the second cancellation of a failed send.
LEMMA CompleteMissing ==
    ASSUME IInv, NEW t \in Threads, CompleteEntry(t),
           Head(todo[t]).response.co \notin DOMAIN entries_
    PROVE  IInv'
<1> DEFINE op == Head(todo[t])
           d == op.response.of
<1>0. EnvInv /\ TypeInv /\ CallsInv /\ EntriesInv /\ SelfInv /\ HandlersInv /\ OwnerInv
      /\ ResumeInv /\ ResultInv /\ WireInv
  BY DEF IInv
<1>1. /\ todo[t] # <<>> /\ op.op = "complete" /\ todo[t] \in Seq(Ops)
      /\ todo' = [todo EXCEPT ![t] = <<>> \o Tail(@)] /\ entries_' = entries_
      /\ UNCHANGED <<rpc_env, open, next_id, calls_, wire, decoder, decoding, resumed, got>>
  BY <1>0 DEF CompleteEntry, Doing, TypeInv, Then
<1>2. op \in Ops /\ CallOf(op) = d /\ d \in Calls
  BY <1>1, Popped, HandlerKinds
<1>3. /\ OwnResponse(op) /\ ~Pending(d)
      /\ t \in Calls => t = d /\ rpc_env.failures /\ (HasEntry(d) \/ todo[d] = NotSent(d))
      /\ t \in Services => HasEntry(d)
      /\ \A u \in Services : u # t => ~On(u, d)
  BY <1>1, <1>2, HandlerAtHead
<1>4. ~HasEntry(d)
  BY <1>1, <1>3 DEF OwnResponse, HasEntry
<1>5. t \in Calls /\ t = d /\ todo[t] = NotSent(t) /\ t \notin Services
  BY <1>3, <1>4, ThreadKinds
<1> HIDE DEF op, d
<1>6. Tail(todo[t]) = <<>>
  <2>1. PICK x \in HandlerOps : NotSent(t) = <<x>>
    BY <1>0, <1>5, NotSentFields DEF EnvInv
  <2> QED
    BY <1>5, <2>1, OneElement
<1>7. todo'[t] = <<>> /\ todo' \in [Threads -> Seq(Ops)]
      /\ \A u \in Threads : u # t => todo'[u] = todo[u]
  <2>1. <<>> \o <<>> = <<>> /\ <<>> \in Seq(Ops)
    BY EmptySequence
  <2>2. todo' = [todo EXCEPT ![t] = <<>>]
    BY <1>1, <1>6, <2>1
  <2> QED
    BY <1>0, <2>1, <2>2, OneThread
<1>8. EnvInv' /\ TypeInv' /\ ResultInv'
  BY <1>0, <1>1, <1>7, EnvKept, ResultKept DEF TypeInv
<1>9. CallsInv' /\ (\A c : Pending(c)' <=> Pending(c)) /\ \A c, id : IdOK(id, c) => IdOK(id, c)'
  BY <1>0, <1>1, CallsKept
<1>10. EntriesInv' /\ \A c : HasEntry(c)' <=> HasEntry(c)
  BY <1>0, <1>1, EntriesKept
<1>11. \A u \in Services : u # t /\ todo'[u] = todo[u]
  BY <1>5, <1>7, ThreadKinds
<1>12. \A u \in Services : HandlersOK(u)' /\ \A c : On(u, c)' <=> On(u, c)
  BY <1>0, <1>1, <1>11, HandlersKept, OnKept DEF HandlersInv
<1>13. ASSUME NEW c \in Calls
       PROVE  SelfOK(c)' /\ OwnerOK(c)' /\ (todo[c] = <<>> => todo'[c] = <<>>)
  <2>1. SelfOK(c) /\ OwnerOK(c) /\ c \in Threads
    BY <1>0, ThreadKinds DEF SelfInv, OwnerInv
  <2>2. CASE c # t
    <3>1. todo'[c] = todo[c]
      BY <1>7, <2>1, <2>2
    <3> QED
      BY <1>1, <1>9, <1>10, <1>12, <2>1, <3>1, SelfKept, OwnerKept
  <2>3. CASE c = t
    <3>1. Stage(c)' = "idle" /\ c = d
      BY <1>5, <1>7, <2>3 DEF Stage
    <3>2. SelfOK(c)'
      BY <3>1 DEF SelfOK
    <3>3. ~HasEntry(c)' /\ ~Pending(c)' /\ \A u \in Services : ~On(u, c)'
      BY <1>3, <1>4, <1>9, <1>10, <1>11, <1>12, <3>1
    <3>4. OwnerOK(c)'
      BY <3>1, <3>3, ThreadKinds DEF OwnerOK
    <3> QED
      BY <1>7, <2>3, <3>2, <3>4
  <2> QED
    BY <2>2, <2>3
<1>14. ResumeInv'
  <2> SUFFICES ASSUME NEW u \in Threads PROVE ResumeOK(u)'
    BY DEF ResumeInv
  <2>1. CASE u # t
    <3>1. ResumeOK(u) /\ todo'[u] = todo[u]
      BY <1>0, <1>7, <2>1 DEF ResumeInv
    <3> QED
      BY <1>1, <3>1 DEF ResumeOK, HasEntry
  <2>2. CASE u = t
    BY <1>7, <2>2 DEF ResumeOK
  <2> QED
    BY <2>1, <2>2
<1>15. WireInv'
  BY <1>0, <1>1, <1>9, <1>13, WireKept
<1> QED
  BY <1>8, <1>9, <1>10, <1>12, <1>13, <1>14, <1>15
     DEF IInv, SelfInv, HandlersInv, OwnerInv

\* resume(): the coroutine takes its result out of the map.
LEMMA ResumeStep ==
    ASSUME IInv, NEW t \in Threads, ResumeCoroutine(t)
    PROVE  IInv'
<1> DEFINE op == Head(todo[t])
           d == op.call
           k == rpc_env.co[d]
<1>0. EnvInv /\ TypeInv /\ CallsInv /\ EntriesInv /\ SelfInv /\ HandlersInv /\ OwnerInv
      /\ ResumeInv /\ ResultInv /\ WireInv
  BY DEF IInv
<1>1. /\ todo[t] # <<>> /\ op.op = "resume" /\ todo[t] \in Seq(Ops)
      /\ todo' = [todo EXCEPT ![t] = <<>> \o Tail(@)]
      /\ UNCHANGED <<rpc_env, open, next_id, calls_, wire, decoder, decoding>>
  BY <1>0 DEF ResumeCoroutine, Doing, TypeInv, Then
<1>2. op \in Ops /\ CallOf(op) = d /\ d \in Calls
  BY <1>1, Popped, HandlerKinds
<1>3. /\ ~Pending(d)
      /\ t \in Calls => t = d /\ rpc_env.failures
      /\ t \in Services => Stage(d) \in {"send", "idle"}
      /\ \A u \in Services : u # t => ~On(u, d)
  <2>1. op.op \in {"complete", "resume"} /\ op = Head(todo[t]) /\ d = CallOf(op)
    BY <1>1, <1>2
  <2> HIDE DEF op, d
  <2> QED
    BY <1>1, <2>1, HandlerAtHead
<1>4. HasEntry(d) /\ k \in DOMAIN entries_ /\ entries_[k].call = d /\ entries_[k].result # None
  BY <1>0, <1>1 DEF ResumeInv, ResumeOK, HasEntry
<1>5. /\ resumed' = [resumed EXCEPT ![d] = @ + 1]
      /\ got' = [got EXCEPT ![d] = entries_[k].result]
      /\ entries_' = Erased(entries_, k)
  BY <1>4 DEF ResumeCoroutine, Take
<1>6. /\ Tail(todo[t]) \in Seq(Ops) /\ Len(todo[t]) \in Nat \ {0} /\ op = todo[t][1]
      /\ <<>> \o Tail(todo[t]) = Tail(todo[t]) /\ Len(Tail(todo[t])) = Len(todo[t]) - 1
      /\ \A i \in 1..Len(Tail(todo[t])) :
            Tail(todo[t])[i] = todo[t][i + 1] /\ i + 1 \in 1..Len(todo[t])
  BY SMT, <1>1, Popped
<1> HIDE DEF op, d, k
<1>7. todo'[t] = Tail(todo[t]) /\ todo' \in [Threads -> Seq(Ops)]
      /\ \A u \in Threads : u # t => todo'[u] = todo[u]
  <2>1. todo' = [todo EXCEPT ![t] = Tail(todo[t])]
    BY <1>1, <1>6
  <2> QED
    BY <1>0, <1>6, <2>1, OneThread
<1>8. EnvInv' /\ TypeInv'
  BY <1>0, <1>1, <1>7, EnvKept DEF TypeInv
<1>9. CallsInv' /\ (\A c : Pending(c)' <=> Pending(c)) /\ \A c, id : IdOK(id, c) => IdOK(id, c)'
  BY <1>0, <1>1, CallsKept
<1>10. DOMAIN entries_' = DOMAIN entries_ \ {k}
       /\ \A x \in DOMAIN entries_ \ {k} : entries_'[x] = entries_[x]
  BY <1>5, ErasedFields
<1>11. EntriesInv'
  BY ZenonT(60), <1>0, <1>1, <1>10 DEF EntriesInv, EntryAt
<1>12. \A c \in Calls : /\ c # d => (HasEntry(c)' <=> HasEntry(c))
                        /\ c = d => ~HasEntry(c)'
                        /\ c # d /\ HasEntry(c) => rpc_env.co[c] \in DOMAIN entries_ \ {k}
  BY <1>1, <1>4, <1>10 DEF HasEntry, k
<1>13. ASSUME NEW u \in Services
       PROVE  /\ HandlersOK(u)'
              /\ \A c : On(u, c)' => On(u, c) /\ c # d
  <2>1. HandlersOK(u) /\ u \in Threads
    BY <1>0, ThreadKinds DEF HandlersInv
  <2>2. CASE u # t
    <3>1. todo'[u] = todo[u]
      BY <1>7, <2>1, <2>2
    <3> QED
      BY <1>1, <1>3, <2>1, <2>2, <3>1, HandlersKept, OnKept
  <2>3. CASE u = t
    <3>0. \A i \in 1..Len(todo'[t]) : todo'[t][i] = todo[t][i + 1] /\ i + 1 \in 1..Len(todo[t])
      BY <1>6, <1>7
    <3>1. \A i \in 1..Len(todo'[t]) : i + 1 # 1
      BY SMTT(30), <1>6, <1>7
    <3>2. \A i, j \in 1..Len(todo'[t]) : i + 1 = j + 1 => i = j
      BY SMT, <1>6, <1>7
    <3>3. 1 \in 1..Len(todo[t]) /\ CallOf(todo[t][1]) = d
      <4>1. 1 \in 1..Len(todo[t])
        BY SMT, <1>6
      <4> QED
        BY <1>2, <1>6, <4>1
    <3>4. ASSUME NEW i \in 1..Len(todo'[t])
          PROVE  /\ todo'[t][i] \in HandlerOps /\ OwnResponse(todo'[t][i])
                 /\ todo'[t][i].op # "resume" /\ CallOf(todo'[t][i]) # d
      <4>1. PICK j \in 1..Len(todo[t]) : j # 1 /\ todo'[t][i] = todo[t][j]
        BY <3>0, <3>1
      <4>2. /\ todo[t][j] \in HandlerOps /\ OwnResponse(todo[t][j])
            /\ todo[t][j].op # "resume" /\ CallOf(todo[t][j]) # CallOf(todo[t][1])
        BY <2>1, <2>3, <3>3, <4>1 DEF HandlersOK
      <4> QED
        BY <3>3, <4>1, <4>2
    <3>5. \A i, j \in 1..Len(todo'[t]) : CallOf(todo'[t][i]) = CallOf(todo'[t][j]) => i = j
      BY ZenonT(60), <2>1, <2>3, <3>0, <3>2 DEF HandlersOK
    <3>6. HandlersOK(t)'
      <4>1. \A o : OwnResponse(o)' <=> OwnResponse(o)
        BY <1>1 DEF OwnResponse
      <4> QED
        BY <3>4, <3>5, <4>1 DEF HandlersOK
    <3>7. ASSUME NEW c, On(t, c)'
          PROVE  On(t, c) /\ c # d
      BY <3>0, <3>4, <3>7 DEF On
    <3> QED
      BY <2>3, <3>6, <3>7
  <2> QED
    BY <2>2, <2>3
<1>14. resumed[d] = 0 /\ resumed' = [resumed EXCEPT ![d] = 1]
  <2>1. resumed[d] = 0
    BY <1>0, <1>2, <1>4 DEF OwnerInv, OwnerOK
  <2>2. 0 + 1 = 1
    BY SMT
  <2> QED
    BY <1>5, <2>1, <2>2
<1>15. ASSUME NEW c \in Calls
       PROVE  SelfOK(c)' /\ OwnerOK(c)' /\ (todo[c] = <<>> => todo'[c] = <<>>)
  <2>1. SelfOK(c) /\ OwnerOK(c) /\ c \in Threads
    BY <1>0, ThreadKinds DEF SelfInv, OwnerInv
  <2>2. CASE c # t
    <3>1. todo'[c] = todo[c] /\ SelfOK(c)'
      BY <1>1, <1>7, <1>9, <2>1, <2>2, SelfKept
    <3>2. CASE c # d
      <4>1. resumed'[c] = resumed[c]
        BY <1>0, <1>14, <3>2 DEF ResultInv
      <4> QED
        BY <1>1, <1>9, <1>12, <1>13, <2>1, <3>1, <3>2, <4>1, OwnerKept
    <3>3. CASE c = d
      <4>1. t \in Services
        BY <1>3, <2>2, <3>3, ThreadKinds
      <4>2. Stage(c)' = Stage(c) /\ Stage(c) \in {"send", "idle"}
        BY <1>3, <3>1, <3>3, <4>1 DEF Stage
      <4>3. ~HasEntry(c)' /\ ~Pending(c)' /\ \A u \in Services : ~On(u, c)'
        BY <1>3, <1>9, <1>12, <1>13, <3>3
      <4> QED
        BY <3>1, <4>2, <4>3, ThreadKinds DEF OwnerOK
    <3> QED
      BY <3>2, <3>3
  <2>3. CASE c = t
    <3>1. c = d /\ rpc_env'.failures /\ Stage(c) = "resume"
      BY <1>1, <1>3, <2>3 DEF Stage, op
    <3>2. todo'[c] \in {<<>>, NotSent(c)} /\ NotSent(c)' = NotSent(c)
      BY <1>1, <1>7, <2>1, <2>3, <3>1 DEF SelfOK, NotSent, Response
    <3>3. ~HasEntry(c)' /\ ~Pending(c)' /\ \A u \in Services : ~On(u, c)'
      BY <1>3, <1>9, <1>12, <1>13, <3>1
    <3>4. CASE todo'[c] = <<>>
      <4>1. Stage(c)' = "idle"
        BY <3>4 DEF Stage
      <4> QED
        BY <1>1, <2>3, <3>3, <4>1, ThreadKinds DEF OwnerOK, SelfOK
    <3>5. CASE todo'[c] = NotSent(c)
      <4>1. PICK x \in HandlerOps : 
              /\ NotSent(c) = <<x>> /\ x \in Ops /\ x.op = "complete" 
              /\ x.response.of = c /\ x.response.co = rpc_env.co[c] /\ CallOf(x) = c
        BY <1>0, NotSentFields DEF EnvInv
      <4>2. todo'[c] # <<>> /\ Head(todo'[c]) = x /\ Tail(todo'[c]) = <<>>
        BY <3>5, <4>1, OneElement
      <4>3. Stage(c)' = "complete"
        BY <4>1, <4>2 DEF Stage
      <4>4. SelfOK(c)'
        BY <1>1, <4>1, <4>2, <4>3 DEF SelfOK, OwnResponse
      <4>5. OwnerOK(c)'
        BY <3>1, <3>2, <3>3, <3>5, <4>3, ThreadKinds DEF OwnerOK
      <4> QED
        BY <1>1, <2>3, <4>4, <4>5
    <3> QED
      BY <3>2, <3>4, <3>5
  <2> QED
    BY <2>2, <2>3
<1>16. ResumeInv'
  <2> SUFFICES ASSUME NEW u \in Threads, todo'[u] # <<>>, Head(todo'[u]).op = "resume"
               PROVE  ResumeOK(u)'
    BY DEF ResumeInv, ResumeOK
  <2>1. CASE u # t
    <3>1. ResumeOK(u) /\ todo'[u] = todo[u]
      BY <1>0, <1>7, <2>1 DEF ResumeInv
    <3>2. PICK e : e = Head(todo[u]).call
      OBVIOUS
    <3>3. todo[u] # <<>> /\ Head(todo[u]).op = "resume" /\ todo[u] \in Seq(Ops)
      BY <1>0, <3>1 DEF TypeInv
    <3>4. e \in Calls /\ CallOf(Head(todo[u])) = e /\ Head(todo[u]) \in Ops
      BY <3>2, <3>3, Popped, HandlerKinds
    <3>5. /\ u \in Calls => u = e
          /\ u \in Services => Stage(e) \in {"send", "idle"}
          /\ \A v \in Services : v # u => ~On(v, e)
      BY <3>3, <3>4, HandlerAtHead
    <3>6. e # d
      <4>1. CASE u \in Calls
        <5>1. Stage(u) = "resume"
          BY <3>3 DEF Stage
        <5> QED
          BY <1>3, <2>1, <3>5, <4>1, <5>1, ThreadKinds
      <4>2. CASE u \in Services
        <5>1. On(u, e)
          <6>1. Head(todo[u]) = todo[u][1] /\ Len(todo[u]) \in Nat \ {0}
            BY <3>3, Popped
          <6>2. 1 \in 1..Len(todo[u])
            BY SMT, <6>1
          <6> QED
            BY <3>4, <6>1, <6>2 DEF On
        <5> QED
          BY <1>3, <2>1, <4>2, <5>1
      <4> QED
        BY <4>1, <4>2, ThreadKinds
    <3>7. HasEntry(e) /\ entries_[rpc_env.co[e]].result # None
      BY <3>1, <3>2, <3>3 DEF ResumeOK
    <3>8. HasEntry(e)' /\ entries_'[rpc_env'.co[e]].result # None
      BY <1>1, <1>10, <1>12, <3>4, <3>6, <3>7
    <3> QED
      BY <3>1, <3>2, <3>8 DEF ResumeOK
  <2>2. CASE u = t
    <3>1. todo'[t] \in Seq(Ops) /\ todo'[t] # <<>>
      BY <1>7, <2>2
    <3>2. Head(todo'[t]) = todo'[t][1] /\ Len(todo'[t]) \in Nat \ {0}
      BY <3>1, Popped
    <3>3. 1 \in 1..Len(todo'[t]) /\ 1 + 1 = 2 /\ 2 # 1
      BY SMT, <3>2
    <3>4. CASE t \in Services
      <4>1. HandlersOK(t)
        BY <1>0, <3>4 DEF HandlersInv
      <4>2. Head(todo'[t]) = todo[t][2] /\ 2 \in 1..Len(todo[t])
        BY ZenonT(60), <1>6, <1>7, <3>2, <3>3
      <4> QED
        BY <2>2, <3>3, <4>1, <4>2 DEF HandlersOK
    <3>5. CASE t \in Calls
      <4>1. SelfOK(t) /\ Stage(t) = "resume"
        BY <1>0, <1>1, <3>5 DEF SelfInv, Stage, op
      <4>2. todo'[t] = NotSent(t)
        BY <1>7, <3>1, <4>1 DEF SelfOK
      <4>3. PICK x \in HandlerOps : NotSent(t) = <<x>> /\ x \in Ops /\ x.op = "complete"
        BY ZenonT(60), <1>0, <3>5, NotSentFields DEF EnvInv
      <4>4. Head(todo'[t]) = x
        BY ZenonT(60), <4>2, <4>3, OneElement
      <4> QED
        BY <2>2, <4>3, <4>4
    <3> QED
      BY <3>4, <3>5, ThreadKinds
  <2> QED
    BY <2>1, <2>2
<1>17. ResultInv'
  <2>1. entries_[k].result \in Responses /\ entries_[k].result.of = d
    <3>1. entries_[k] \in [call : Calls, result : Responses \cup {None}]
          /\ entries_[k].result.of = entries_[k].call
      BY <1>0, <1>4 DEF EntriesInv, EntryAt
    <3> QED
      BY <1>4, <3>1
  <2>2. resumed \in [Calls -> {0, 1}] /\ got \in [Calls -> Responses \cup {None}]
    BY <1>0 DEF ResultInv
  <2>3. resumed' \in [Calls -> {0, 1}] /\ got' \in [Calls -> Responses \cup {None}]
    BY <1>2, <1>5, <1>14, <2>1, <2>2
  <2>4. ASSUME NEW c \in Calls, resumed'[c] = 1
        PROVE  got'[c] # None /\ got'[c].of = c
    <3>1. CASE c = d
      <4>1. got'[d] = entries_[k].result
        BY <1>2, <1>5, <2>2
      <4> QED
        BY <1>4, <2>1, <3>1, <4>1
    <3>2. CASE c # d
      <4>1. got'[c] = got[c] /\ resumed'[c] = resumed[c]
        BY <1>5, <2>2, <3>2
      <4> QED
        BY <1>0, <2>4, <4>1 DEF ResultInv
    <3> QED
      BY <3>1, <3>2
  <2> QED
    BY <2>3, <2>4 DEF ResultInv
<1>18. WireInv'
  BY <1>0, <1>1, <1>9, <1>15, WireKept
<1> QED
  BY <1>8, <1>9, <1>11, <1>13, <1>15, <1>16, <1>17, <1>18
     DEF IInv, SelfInv, HandlersInv, OwnerInv
-----------------------------------------------------------------------------
(* A call's own thread.                                                    *)

\* A call's own thread takes a step.
LEMMA OwnStep ==
    ASSUME IInv, NEW c \in Calls, NEW s \in Seq(Ops), todo[c] # <<>>,
           todo' = [todo EXCEPT ![c] = s], rpc_env' = rpc_env
    PROVE  /\ todo' \in [Threads -> Seq(Ops)] /\ todo'[c] = s
           /\ \A u \in Threads : u # c => todo'[u] = todo[u]
           /\ \A u \in Services : HandlersOK(u)' /\ \A e : On(u, e)' <=> On(u, e)
           /\ \A e \in Calls : todo[e] = <<>> => todo'[e] = <<>>
<1>1. c \in Threads /\ TypeInv /\ HandlersInv
  BY ThreadKinds DEF IInv
<1>2. todo' \in [Threads -> Seq(Ops)] /\ todo'[c] = s
      /\ \A u \in Threads : u # c => todo'[u] = todo[u]
  BY <1>1, OneThread
<1>3. \A u \in Services : todo'[u] = todo[u]
  BY <1>2, ThreadKinds
<1>4. \A u \in Services : HandlersOK(u)' /\ \A e : On(u, e)' <=> On(u, e)
  BY <1>1, <1>3, HandlersKept, OnKept DEF HandlersInv
<1>5. \A e \in Calls : todo[e] = <<>> => todo'[e] = <<>>
  BY <1>2, ThreadKinds
<1> QED
  BY <1>2, <1>4, <1>5

\* What a call's own thread holds besides its stage.
LEMMA AtStage ==
    ASSUME IInv, NEW c \in Calls, NEW st \in {"suspend", "create", "send"}, Doing(c, st)
    PROVE  /\ Stage(c) = st /\ todo[c] # <<>> /\ Tail(todo[c]) = <<>>
           /\ Head(todo[c]) \in Ops
           /\ st # "send" => ~Pending(c) /\ \A u \in Services : ~On(u, c)
<1>1. todo[c] # <<>> /\ Stage(c) = st
  BY DEF Doing, Stage
<1>2. SelfOK(c) /\ OwnerOK(c) /\ todo[c] \in Seq(Ops)
  BY ThreadKinds DEF IInv, SelfInv, OwnerInv, TypeInv
<1>3. Head(todo[c]) \in Ops
  BY <1>1, <1>2, Popped
<1> QED
  BY <1>1, <1>2, <1>3 DEF SelfOK, OwnerOK

\* A resume under way finds its result, as long as a step only adds entries.
LEMMA ResumeWhileGrowing ==
    ASSUME IInv, rpc_env' = rpc_env, NEW c,
           \A u \in Threads : u # c => todo'[u] = todo[u],
           todo'[c] # <<>> => Head(todo'[c]).op # "resume",
           DOMAIN entries_ \subseteq DOMAIN entries_',
           \A k \in DOMAIN entries_ : entries_'[k] = entries_[k]
    PROVE  ResumeInv'
<1> SUFFICES ASSUME NEW u \in Threads PROVE ResumeOK(u)'
  BY DEF ResumeInv
<1>1. CASE u # c
  <2>1. ResumeOK(u) /\ todo'[u] = todo[u]
    BY <1>1 DEF IInv, ResumeInv
  <2> QED
    BY <2>1 DEF ResumeOK, HasEntry
<1>2. CASE u = c
  BY <1>2 DEF ResumeOK
<1> QED
  BY <1>1, <1>2

\* suspend(): an entry under a free id, or an answer at once.
LEMMA SuspendStep ==
    ASSUME IInv, NEW c \in Calls, Suspend(c)
    PROVE  IInv'
<1>0. EnvInv /\ TypeInv /\ CallsInv /\ EntriesInv /\ SelfInv /\ HandlersInv /\ OwnerInv
      /\ ResumeInv /\ ResultInv /\ WireInv
  BY DEF IInv
<1>1. /\ Doing(c, "suspend")
      /\ UNCHANGED <<rpc_env, open, next_id, calls_, wire, decoder, decoding>>
  BY DEF Suspend
<1>2. /\ Stage(c) = "suspend" /\ todo[c] # <<>> /\ Tail(todo[c]) = <<>>
      /\ ~Pending(c) /\ \A u \in Services : ~On(u, c)
  BY <1>1, AtStage
<1>3. ~HasEntry(c) /\ resumed[c] = 0
  BY <1>0, <1>2 DEF OwnerInv, OwnerOK
<1>4. CallsInv' /\ (\A e : Pending(e)' <=> Pending(e)) /\ \A e, id : IdOK(id, e) => IdOK(id, e)'
  BY <1>0, <1>1, CallsKept
<1>5. EnvInv'
  BY <1>0, <1>1, EnvKept
<1>6. CASE rpc_env.co[c] \in DOMAIN entries_
  <2> DEFINE r == Response(0, c, "duplicate")
  <2>1. /\ got' = [got EXCEPT ![c] = r]
        /\ resumed' = [resumed EXCEPT ![c] = @ + 1]
        /\ todo' = [todo EXCEPT ![c] = <<>> \o Tail(@)] /\ entries_' = entries_
    BY <1>6 DEF Suspend, Then
  <2>2. todo' = [todo EXCEPT ![c] = <<>>] /\ <<>> \in Seq(Ops)
    BY <1>2, <2>1, EmptySequence
  <2>3. /\ todo' \in [Threads -> Seq(Ops)] /\ todo'[c] = <<>>
        /\ \A u \in Threads : u # c => todo'[u] = todo[u]
        /\ \A u \in Services : HandlersOK(u)' /\ \A e : On(u, e)' <=> On(u, e)
        /\ \A e \in Calls : todo[e] = <<>> => todo'[e] = <<>>
    BY <1>1, <1>2, <2>2, OwnStep
  <2>4. r \in Responses /\ r.of = c
    <3>1. "duplicate" \in Statuses
      BY DEF Statuses
    <3> QED
      BY SMT, <1>0, <3>1, ResponseFields DEF EnvInv
  <2> HIDE DEF r
  <2>5. resumed' = [resumed EXCEPT ![c] = 1]
    <3>1. 0 + 1 = 1
      BY SMT
    <3> QED
      BY <1>3, <2>1, <3>1
  <2>6. EntriesInv' /\ \A e : HasEntry(e)' <=> HasEntry(e)
    BY <1>0, <1>1, <2>1, EntriesKept
  <2>7. ASSUME NEW e \in Calls
        PROVE  SelfOK(e)' /\ OwnerOK(e)'
    <3>1. SelfOK(e) /\ OwnerOK(e) /\ e \in Threads
      BY <1>0, ThreadKinds DEF SelfInv, OwnerInv
    <3>2. CASE e # c
      <4>1. todo'[e] = todo[e] /\ resumed'[e] = resumed[e]
        BY <1>0, <2>3, <2>5, <3>1, <3>2 DEF ResultInv
      <4> QED
        BY <1>1, <1>4, <2>3, <2>6, <3>1, <4>1, SelfKept, OwnerKept
    <3>3. CASE e = c
      <4>1. Stage(e)' = "idle"
        BY <2>3, <3>3 DEF Stage
      <4>2. ~HasEntry(e)' /\ ~Pending(e)' /\ \A u \in Services : ~On(u, e)'
        BY <1>2, <1>3, <1>4, <2>3, <2>6, <3>3
      <4> QED
        BY <4>1, <4>2, ThreadKinds DEF SelfOK, OwnerOK
    <3> QED
      BY <3>2, <3>3
  <2>8. ResumeInv'
    BY <1>1, <2>1, <2>3, ResumeWhileGrowing
  <2>9. ResultInv'
    <3>1. resumed \in [Calls -> {0, 1}] /\ got \in [Calls -> Responses \cup {None}]
      BY <1>0 DEF ResultInv
    <3>2. resumed' \in [Calls -> {0, 1}] /\ got' \in [Calls -> Responses \cup {None}]
      BY <2>1, <2>4, <2>5, <3>1
    <3>3. got'[c] = r /\ r # None
      BY <2>1, <2>4, <3>1, NoneIsNoResponse
    <3>4. \A e \in Calls : e # c => got'[e] = got[e] /\ resumed'[e] = resumed[e]
      BY <2>1, <2>5, <3>1
    <3>5. ASSUME NEW e \in Calls, resumed'[e] = 1
          PROVE  got'[e] # None /\ got'[e].of = e
      <4>1. CASE e = c
        BY <2>4, <3>3, <4>1
      <4>2. CASE e # c
        BY <1>0, <3>4, <3>5, <4>2 DEF ResultInv
      <4> QED
        BY <4>1, <4>2
    <3> QED
      BY <3>2, <3>5 DEF ResultInv
  <2>10. WireInv'
    BY <1>0, <1>1, <1>4, <2>3, WireKept
  <2>11. TypeInv'
    BY <1>0, <1>1, <2>3 DEF TypeInv
  <2> QED
    BY <1>4, <1>5, <2>3, <2>6, <2>7, <2>8, <2>9, <2>10, <2>11
       DEF IInv, SelfInv, HandlersInv, OwnerInv
<1>7. CASE rpc_env.co[c] \notin DOMAIN entries_
  <2> DEFINE k == rpc_env.co[c]
             v == [call |-> c, result |-> None]
             next == [op |-> "create"]
  <2>1. /\ entries_' = Emplaced(entries_, k, v) /\ resumed' = resumed /\ got' = got
        /\ todo' = [todo EXCEPT ![c] = <<next>> \o Tail(@)]
    BY <1>7 DEF Suspend, Then
  <2>2. next \in Ops /\ next.op = "create"
    <3>1. 0 \in Nat
      BY SMT
    <3> QED
      BY <3>1, StageFields
  <2>3. v \in [call : Calls, result : Responses \cup {None}] /\ v.call = c /\ v.result = None
    BY SMT
  <2> HIDE DEF next, v
  <2>4. /\ <<next>> \in Seq(Ops) /\ <<next>> # <<>> /\ <<next>> \o <<>> = <<next>>
        /\ Head(<<next>>) = next /\ Tail(<<next>>) = <<>>
    BY <2>2, OneElement
  <2>5. todo' = [todo EXCEPT ![c] = <<next>>]
    BY <1>2, <2>1, <2>4
  <2>6. /\ todo' \in [Threads -> Seq(Ops)] /\ todo'[c] = <<next>>
        /\ \A u \in Threads : u # c => todo'[u] = todo[u]
        /\ \A u \in Services : HandlersOK(u)' /\ \A e : On(u, e)' <=> On(u, e)
        /\ \A e \in Calls : todo[e] = <<>> => todo'[e] = <<>>
    BY <1>1, <1>2, <2>4, <2>5, OwnStep
  <2>7. /\ DOMAIN entries_' = DOMAIN entries_ \cup {k} /\ entries_'[k] = v
        /\ \A x \in DOMAIN entries_ : entries_'[x] = entries_[x]
    BY <1>7, <2>1 DEF Emplaced
  <2>8. EntriesInv'
    <3> SUFFICES ASSUME NEW x \in DOMAIN entries_' PROVE EntryAt(x)'
      BY DEF EntriesInv
    <3>1. CASE x = k
      BY <1>1, <2>3, <2>7, <3>1 DEF EntryAt
    <3>2. CASE x \in DOMAIN entries_
      BY <1>0, <1>1, <2>7, <3>2 DEF EntriesInv, EntryAt
    <3> QED
      BY <2>7, <3>1, <3>2
  <2>9. \A e \in Calls : HasEntry(e)' <=> (HasEntry(e) \/ e = c)
    BY <1>1, <1>7, <2>3, <2>7 DEF HasEntry
  <2>10. ASSUME NEW e \in Calls
         PROVE  SelfOK(e)' /\ OwnerOK(e)'
    <3>1. SelfOK(e) /\ OwnerOK(e) /\ e \in Threads
      BY <1>0, ThreadKinds DEF SelfInv, OwnerInv
    <3>2. CASE e # c
      <4>1. todo'[e] = todo[e] /\ resumed'[e] = resumed[e]
        BY <2>1, <2>6, <3>1, <3>2
      <4> QED
        BY <1>1, <1>4, <2>6, <2>9, <3>1, <3>2, <4>1, SelfKept, OwnerKept
    <3>3. CASE e = c
      <4>1. Stage(e)' = "create" /\ Tail(todo'[e]) = <<>>
        BY <2>2, <2>4, <2>6, <3>3 DEF Stage
      <4>2. HasEntry(e)' /\ ~Pending(e)' /\ (\A u \in Services : ~On(u, e)') /\ resumed'[e] = 0
        BY <1>2, <1>3, <1>4, <2>1, <2>6, <2>9, <3>3
      <4> QED
        BY <4>1, <4>2, ThreadKinds DEF SelfOK, OwnerOK
    <3> QED
      BY <3>2, <3>3
  <2>11. ResumeInv'
    <3>1. Head(todo'[c]).op # "resume"
      BY <2>2, <2>4, <2>6
    <3> QED
      BY <1>1, <2>6, <2>7, <3>1, ResumeWhileGrowing
  <2>12. ResultInv'
    BY <1>0, <2>1, ResultKept
  <2>13. WireInv'
    BY <1>0, <1>1, <1>4, <2>6, WireKept
  <2>14. TypeInv'
    BY <1>0, <1>1, <2>6 DEF TypeInv
  <2> QED
    BY <1>4, <1>5, <2>6, <2>8, <2>10, <2>11, <2>12, <2>13, <2>14
       DEF IInv, SelfInv, HandlersInv, OwnerInv
<1> QED
  BY <1>6, <1>7

\* The call is entered into the map of pending calls, under a new id; a closed
\* transport makes the send fail before that.
LEMMA CreateStep ==
    ASSUME IInv, NEW c \in Calls, Create(c)
    PROVE  IInv'
<1>0. EnvInv /\ TypeInv /\ CallsInv /\ EntriesInv /\ SelfInv /\ HandlersInv /\ OwnerInv
      /\ ResumeInv /\ ResultInv /\ WireInv
  BY DEF IInv
<1>1. /\ Doing(c, "create")
      /\ UNCHANGED <<rpc_env, open, entries_, wire, decoder, decoding, resumed, got>>
  BY DEF Create
<1>2. /\ Stage(c) = "create" /\ todo[c] # <<>> /\ Tail(todo[c]) = <<>>
      /\ ~Pending(c) /\ \A u \in Services : ~On(u, c)
  BY <1>1, AtStage
<1>3. HasEntry(c) /\ resumed[c] = 0
  BY <1>0, <1>2 DEF OwnerInv, OwnerOK
<1>4. EnvInv' /\ ResultInv'
  BY <1>0, <1>1, EnvKept, ResultKept
<1>5. EntriesInv' /\ \A e : HasEntry(e)' <=> HasEntry(e)
  BY <1>0, <1>1, EntriesKept
<1>6. CASE open
  <2> DEFINE next == [op |-> "send", id |-> next_id]
  <2>1. /\ calls_' = Emplaced(calls_, next_id, c) /\ next_id' = next_id + 1
        /\ todo' = [todo EXCEPT ![c] = <<next>> \o Tail(@)]
    BY <1>6 DEF Create, Then
  <2>2. next_id \in Nat /\ next_id' \in Nat \ {0} /\ next_id < next_id'
        /\ \A id \in Nat : id < next_id => id < next_id' /\ id # next_id
    BY SMT, <1>0, <2>1 DEF TypeInv
  <2>3. next \in Ops /\ next.op = "send" /\ next.id = next_id
    BY <2>2, StageFields
  <2> HIDE DEF next
  <2>4. /\ <<next>> \in Seq(Ops) /\ <<next>> # <<>> /\ <<next>> \o <<>> = <<next>>
        /\ Head(<<next>>) = next /\ Tail(<<next>>) = <<>>
    BY <2>3, OneElement
  <2>5. todo' = [todo EXCEPT ![c] = <<next>>]
    BY <1>2, <2>1, <2>4
  <2>6. /\ todo' \in [Threads -> Seq(Ops)] /\ todo'[c] = <<next>>
        /\ \A u \in Threads : u # c => todo'[u] = todo[u]
        /\ \A u \in Services : HandlersOK(u)' /\ \A e : On(u, e)' <=> On(u, e)
        /\ \A e \in Calls : todo[e] = <<>> => todo'[e] = <<>>
    BY <1>1, <1>2, <2>4, <2>5, OwnStep
  <2>7. next_id \notin DOMAIN calls_
    BY <1>0, <2>2 DEF CallsInv
  <2>8. /\ DOMAIN calls_' = DOMAIN calls_ \cup {next_id} /\ calls_'[next_id] = c
        /\ \A x \in DOMAIN calls_ : calls_'[x] = calls_[x]
    BY <2>1, <2>7 DEF Emplaced
  <2>9. CallsInv'
    <3>1. ASSUME NEW id \in DOMAIN calls_'
          PROVE  id \in Nat /\ id < next_id' /\ calls_'[id] \in Calls
      BY <1>0, <2>2, <2>8 DEF CallsInv
    <3>2. ASSUME NEW i \in DOMAIN calls_', NEW j \in DOMAIN calls_', calls_'[i] = calls_'[j]
          PROVE  i = j
      <4>1. \A x \in DOMAIN calls_ : calls_[x] # c
        BY <1>2 DEF Pending
      <4> QED
        BY <1>0, <2>8, <3>2, <4>1 DEF CallsInv
    <3> QED
      BY <3>1, <3>2 DEF CallsInv
  <2>10. \A e : Pending(e)' <=> (Pending(e) \/ e = c)
    BY <2>8 DEF Pending
  <2>11. \A e, id : IdOK(id, e) => IdOK(id, e)'
    BY <2>2, <2>8 DEF IdOK
  <2>12. ASSUME NEW e \in Calls
         PROVE  SelfOK(e)' /\ OwnerOK(e)'
    <3>1. SelfOK(e) /\ OwnerOK(e) /\ e \in Threads
      BY <1>0, ThreadKinds DEF SelfInv, OwnerInv
    <3>2. CASE e # c
      <4>1. todo'[e] = todo[e] /\ resumed'[e] = resumed[e]
        BY <1>1, <2>6, <3>1, <3>2
      <4>2. SelfOK(e)'
        BY <1>1, <2>8, <2>11, <3>1, <4>1, SelfKept
      <4> QED
        BY <1>1, <1>5, <2>6, <2>10, <3>1, <3>2, <4>1, <4>2, OwnerKept
    <3>3. CASE e = c
      <4>1. Stage(e)' = "send" /\ Tail(todo'[e]) = <<>> /\ Head(todo'[e]).id = next_id
        BY <2>3, <2>4, <2>6, <3>3 DEF Stage
      <4>2. next_id < next_id' /\ next_id \in Nat /\ next_id \in DOMAIN calls_'
            /\ calls_'[next_id] = e
        BY <2>2, <2>8, <3>3
      <4>3. SelfOK(e)'
        BY <4>1, <4>2 DEF SelfOK, IdOK
      <4>4. HasEntry(e)' /\ (\A u \in Services : ~On(u, e)') /\ resumed'[e] = 0
        BY <1>1, <1>2, <1>3, <1>5, <2>6, <3>3
      <4> QED
        BY <4>1, <4>3, <4>4, ThreadKinds DEF OwnerOK
    <3> QED
      BY <3>2, <3>3
  <2>13. ResumeInv'
    <3>1. Head(todo'[c]).op # "resume"
      BY <2>3, <2>4, <2>6
    <3> QED
      BY <1>1, <2>6, <3>1, ResumeWhileGrowing
  <2>14. WireInv'
    BY <1>0, <1>1, <2>6, <2>11, WireKept
  <2>15. TypeInv'
    BY <2>2, <2>6 DEF TypeInv
  <2> QED
    BY <1>4, <1>5, <2>6, <2>9, <2>12, <2>13, <2>14, <2>15
       DEF IInv, SelfInv, HandlersInv, OwnerInv
<1>7. CASE ~open
  <2>1. /\ calls_' = calls_ /\ next_id' = next_id
        /\ todo' = [todo EXCEPT ![c] = NotSent(c) \o Tail(@)]
    BY <1>7 DEF Create, Then
  <2>2. PICK x \in HandlerOps :
           /\ NotSent(c) = <<x>> /\ x \in Ops /\ x.op = "complete"
           /\ x.response.of = c /\ x.response.co = rpc_env.co[c] /\ CallOf(x) = c
    BY <1>0, NotSentFields DEF EnvInv
  <2>3. /\ <<x>> \in Seq(Ops) /\ <<x>> # <<>> /\ <<x>> \o <<>> = <<x>>
        /\ Head(<<x>>) = x /\ Tail(<<x>>) = <<>>
    BY <2>2, OneElement
  <2>4. todo' = [todo EXCEPT ![c] = <<x>>]
    BY <1>2, <2>1, <2>2, <2>3
  <2>5. /\ todo' \in [Threads -> Seq(Ops)] /\ todo'[c] = <<x>>
        /\ \A u \in Threads : u # c => todo'[u] = todo[u]
        /\ \A u \in Services : HandlersOK(u)' /\ \A e : On(u, e)' <=> On(u, e)
        /\ \A e \in Calls : todo[e] = <<>> => todo'[e] = <<>>
    BY <1>1, <1>2, <2>3, <2>4, OwnStep
  <2>6. CallsInv' /\ (\A e : Pending(e)' <=> Pending(e)) /\ \A e, id : IdOK(id, e) => IdOK(id, e)'
    BY <1>0, <2>1, CallsKept
  <2>7. rpc_env'.failures
    BY <1>0, <1>1, <1>7 DEF EnvInv
  <2>8. ASSUME NEW e \in Calls
        PROVE  SelfOK(e)' /\ OwnerOK(e)'
    <3>1. SelfOK(e) /\ OwnerOK(e) /\ e \in Threads
      BY <1>0, ThreadKinds DEF SelfInv, OwnerInv
    <3>2. CASE e # c
      <4>1. todo'[e] = todo[e] /\ resumed'[e] = resumed[e]
        BY <1>1, <2>5, <3>1, <3>2
      <4>2. SelfOK(e)'
        BY <1>1, <2>1, <2>6, <3>1, <4>1, SelfKept
      <4> QED
        BY <1>1, <1>5, <2>5, <2>6, <3>1, <3>2, <4>1, <4>2, OwnerKept
    <3>3. CASE e = c
      <4>1. Stage(e)' = "complete" /\ Tail(todo'[e]) = <<>> /\ Head(todo'[e]) = x
        BY <2>2, <2>3, <2>5, <3>3 DEF Stage
      <4>2. SelfOK(e)'
        BY <1>1, <2>2, <3>3, <4>1 DEF SelfOK, OwnResponse
      <4>3. HasEntry(e)' /\ ~Pending(e)' /\ (\A u \in Services : ~On(u, e)') /\ resumed'[e] = 0
        BY <1>1, <1>2, <1>3, <1>5, <2>5, <2>6, <3>3
      <4> QED
        BY <2>7, <4>1, <4>2, <4>3, ThreadKinds DEF OwnerOK
    <3> QED
      BY <3>2, <3>3
  <2>9. ResumeInv'
    <3>1. Head(todo'[c]).op # "resume"
      BY <2>2, <2>3, <2>5
    <3> QED
      BY <1>1, <2>5, <3>1, ResumeWhileGrowing
  <2>10. WireInv'
    BY <1>0, <1>1, <2>5, <2>6, WireKept
  <2>11. TypeInv'
    BY <1>0, <2>1, <2>5 DEF TypeInv
  <2> QED
    BY <1>4, <1>5, <2>5, <2>6, <2>8, <2>9, <2>10, <2>11
       DEF IInv, SelfInv, HandlersInv, OwnerInv
<1> QED
  BY <1>6, <1>7

\* send_frame() fails: the pending call is cancelled, and then the entry.
LEMMA SendFailsStep ==
    ASSUME IInv, NEW c \in Calls, SendFails(c)
    PROVE  IInv'
<1>0. EnvInv /\ TypeInv /\ CallsInv /\ EntriesInv /\ SelfInv /\ HandlersInv /\ OwnerInv
      /\ ResumeInv /\ ResultInv /\ WireInv
  BY DEF IInv
<1>1. /\ Doing(c, "send") /\ rpc_env.failures /\ rpc_env'.failures
      /\ UNCHANGED <<rpc_env, open, next_id, entries_, wire, decoder, decoding, resumed, got>>
  BY DEF SendFails
<1>2. Stage(c) = "send" /\ todo[c] # <<>> /\ Tail(todo[c]) = <<>>
  BY <1>1, AtStage
<1>3. PICK id : id = Head(todo[c]).id
  OBVIOUS
<1>4. id \in DOMAIN calls_ /\ calls_[id] = c /\ id \in Nat
  BY <1>0, <1>1, <1>2, <1>3 DEF SelfInv, SelfOK, IdOK
<1>5. Pending(c) /\ HasEntry(c) /\ resumed[c] = 0 /\ \A u \in Services : ~On(u, c)
  <2>1. Pending(c)
    BY <1>4 DEF Pending
  <2> QED
    BY <1>0, <2>1 DEF OwnerInv, OwnerOK
<1>6. PICK y : y = Complete(Response(id, c, "canceled"))
  OBVIOUS
<1>7. /\ y \in Ops /\ y.op = "complete" /\ y.response.of = c
      /\ y.response.co = rpc_env.co[c] /\ CallOf(y) = c
  <2>1. PICK r : r = Response(id, c, "canceled")
    OBVIOUS
  <2>2. r \in Responses /\ r.of = c /\ r.co = rpc_env.co[c]
    <3>1. "canceled" \in Statuses
      BY DEF Statuses
    <3> QED
      BY SMTT(20), <1>0, <1>4, <2>1, <3>1, ResponseFields DEF EnvInv
  <2> QED
    BY <1>6, <2>1, <2>2, CompleteFields
<1>8. PICK x \in Ops : NotSent(c) = <<x>>
  BY <1>0, NotSentFields DEF EnvInv
<1>9. PICK s : s = (<<y>> \o <<x>>) \o <<>>
  OBVIOUS
<1>10. s \in Seq(Ops) /\ s # <<>> /\ Head(s) = y /\ Tail(s) = <<x>>
  BY ZenonT(60), <1>7, <1>9, TwoElements
<1>11. calls_' = Erased(calls_, id) /\ todo' = [todo EXCEPT ![c] = s]
  <2>1. CancelPending(id, c) = <<y>>
    BY <1>4, <1>6 DEF CancelPending
  <2>2. calls_' = Erased(calls_, id)
        /\ todo' = [todo EXCEPT ![c] = (CancelPending(id, c) \o NotSent(c)) \o Tail(@)]
    BY <1>3 DEF SendFails, Then
  <2> QED
    BY <1>2, <1>8, <1>9, <2>1, <2>2
<1>12. /\ todo' \in [Threads -> Seq(Ops)] /\ todo'[c] = s
       /\ \A u \in Threads : u # c => todo'[u] = todo[u]
       /\ \A u \in Services : HandlersOK(u)' /\ \A e : On(u, e)' <=> On(u, e)
       /\ \A e \in Calls : todo[e] = <<>> => todo'[e] = <<>>
  BY <1>1, <1>2, <1>10, <1>11, OwnStep
<1>13. /\ DOMAIN calls_' = DOMAIN calls_ \ {id}
       /\ \A k \in DOMAIN calls_ \ {id} : calls_'[k] = calls_[k]
  BY <1>11, ErasedFields
<1>14. CallsInv' /\ (\A e : Pending(e)' => Pending(e)) /\ \A e, i : IdOK(i, e) => IdOK(i, e)'
  BY <1>0, <1>1, <1>13, CallsShrink
<1>15. ~Pending(c)'
  BY <1>0, <1>4, <1>13 DEF Pending, CallsInv
<1>16. EntriesInv' /\ \A e : HasEntry(e)' <=> HasEntry(e)
  BY <1>0, <1>1, EntriesKept
<1>17. ASSUME NEW e \in Calls
       PROVE  SelfOK(e)' /\ OwnerOK(e)'
  <2>1. SelfOK(e) /\ OwnerOK(e) /\ e \in Threads
    BY <1>0, ThreadKinds DEF SelfInv, OwnerInv
  <2>2. CASE e # c
    <3>1. todo'[e] = todo[e] /\ resumed'[e] = resumed[e]
      BY <1>1, <1>12, <2>1, <2>2
    <3>2. Stage(e) = "send" /\ Head(todo[e]).id \in DOMAIN calls_ =>
             Head(todo[e]).id \in DOMAIN calls_'
      BY <1>4, <1>13, <2>1, <2>2 DEF SelfOK, IdOK
    <3>3. SelfOK(e)'
      BY <1>1, <1>14, <2>1, <3>1, <3>2, SelfKept
    <3> QED
      BY <1>1, <1>12, <1>14, <1>16, <2>1, <2>2, <3>1, <3>3, OwnerKept
  <2>3. CASE e = c
    <3>1. Stage(e)' = "complete" /\ Head(todo'[e]) = y /\ Tail(todo'[e]) = NotSent(e)
          /\ NotSent(e)' = NotSent(e)
      BY <1>1, <1>7, <1>8, <1>10, <1>12, <2>3 DEF Stage, NotSent, Response
    <3>2. SelfOK(e)'
      BY <1>1, <1>7, <2>3, <3>1 DEF SelfOK, OwnResponse
    <3>3. HasEntry(e)' /\ ~Pending(e)' /\ (\A u \in Services : ~On(u, e)') /\ resumed'[e] = 0
      BY <1>1, <1>5, <1>12, <1>15, <1>16, <2>3
    <3> QED
      BY <1>1, <3>1, <3>2, <3>3, ThreadKinds DEF OwnerOK
  <2> QED
    BY <2>2, <2>3
<1>18. ResumeInv'
  <2>1. Head(todo'[c]).op # "resume"
    BY <1>7, <1>10, <1>12
  <2> QED
    BY <1>1, <1>12, <2>1, ResumeWhileGrowing
<1>19. WireInv'
  BY <1>0, <1>1, <1>12, <1>14, WireKept
<1>20. EnvInv' /\ ResultInv' /\ TypeInv'
  BY <1>0, <1>1, <1>12, EnvKept, ResultKept DEF TypeInv
<1> QED
  BY <1>12, <1>14, <1>16, <1>17, <1>18, <1>19, <1>20
     DEF IInv, SelfInv, HandlersInv, OwnerInv

\* The request goes out.
LEMMA SendFrameStep ==
    ASSUME IInv, NEW c \in Calls, SendFrame(c)
    PROVE  IInv'
<1>0. EnvInv /\ TypeInv /\ CallsInv /\ EntriesInv /\ SelfInv /\ HandlersInv /\ OwnerInv
      /\ ResumeInv /\ ResultInv /\ WireInv
  BY DEF IInv
<1>1. /\ Doing(c, "send")
      /\ UNCHANGED <<rpc_env, open, next_id, calls_, entries_, decoder, decoding, resumed, got>>
  BY DEF SendFrame
<1>2. Stage(c) = "send" /\ todo[c] # <<>> /\ Tail(todo[c]) = <<>>
  BY <1>1, AtStage
<1>3. PICK f : f = [kind |-> "request", id |-> Head(todo[c]).id, co |-> rpc_env.co[c], of |-> c]
  OBVIOUS
<1>4. wire' = [wire EXCEPT !["server"] = @ \o Units(f, FALSE)]
      /\ todo' = [todo EXCEPT ![c] = <<>> \o Tail(@)]
  BY <1>3 DEF SendFrame, Then
<1>5. todo' = [todo EXCEPT ![c] = <<>>] /\ <<>> \in Seq(Ops)
  BY <1>2, <1>4, EmptySequence
<1>6. /\ todo' \in [Threads -> Seq(Ops)] /\ todo'[c] = <<>>
      /\ \A u \in Threads : u # c => todo'[u] = todo[u]
      /\ \A u \in Services : HandlersOK(u)' /\ \A e : On(u, e)' <=> On(u, e)
      /\ \A e \in Calls : todo[e] = <<>> => todo'[e] = <<>>
  BY <1>1, <1>2, <1>5, OwnStep
<1>7. CallsInv' /\ (\A e : Pending(e)' <=> Pending(e)) /\ \A e, id : IdOK(id, e) => IdOK(id, e)'
  BY <1>0, <1>1, CallsKept
<1>8. EntriesInv' /\ \A e : HasEntry(e)' <=> HasEntry(e)
  BY <1>0, <1>1, EntriesKept
<1>9. ASSUME NEW e \in Calls
      PROVE  SelfOK(e)' /\ OwnerOK(e)'
  <2>1. SelfOK(e) /\ OwnerOK(e) /\ e \in Threads
    BY <1>0, ThreadKinds DEF SelfInv, OwnerInv
  <2>2. CASE e # c
    <3>1. todo'[e] = todo[e] /\ resumed'[e] = resumed[e]
      BY <1>1, <1>6, <2>1, <2>2
    <3>2. SelfOK(e)'
      BY <1>1, <1>7, <2>1, <3>1, SelfKept
    <3> QED
      BY <1>1, <1>6, <1>7, <1>8, <2>1, <3>1, <3>2, OwnerKept
  <2>3. CASE e = c
    <3>1. Stage(e)' = "idle" /\ Stage(e) = "send"
      BY <1>2, <1>6, <2>3 DEF Stage
    <3> QED
      BY <1>1, <1>6, <1>7, <1>8, <2>1, <3>1, ThreadKinds DEF SelfOK, OwnerOK
  <2> QED
    BY <2>2, <2>3
<1>10. ResumeInv'
  BY <1>1, <1>6, ResumeWhileGrowing
<1>11. f \in Frames("server")'
  <2>1. IdOK(Head(todo[c]).id, c)
    BY <1>0, <1>2 DEF SelfInv, SelfOK
  <2>2. PICK id \in Nat : id = Head(todo[c]).id
    BY <2>1 DEF IdOK
  <2>3. IdOK(id, c)' /\ rpc_env'.co[c] = rpc_env.co[c] /\ rpc_env.co[c] \in Nat
    BY <1>0, <1>1, <1>7, <2>1, <2>2, EnvTypes DEF EnvInv
  <2>4. f \in Requests /\ f.of = c /\ f.id = id /\ f.co = rpc_env.co[c]
    BY SMT, <1>3, <2>2, <2>3 DEF Requests
  <2>5. FrameOK(f)'
    BY <1>6, <2>3, <2>4 DEF FrameOK
  <2> QED
    BY <2>4, <2>5 DEF Frames
<1>12. Units(f, FALSE) \in Seq(Bytes("server")')
  BY <1>11, UnitsAreBytes DEF Bytes
<1>13. WireInv'
  <2>1. \A s \in Sides : Seq(Bytes(s)) \subseteq Seq(Bytes(s)')
    BY <1>1, <1>6, <1>7, FramesKept
  <2>2. wire["server"] \in Seq(Bytes("server")') /\ "server" \in Sides
    BY <1>0, <2>1 DEF WireInv, Sides
  <2>3. wire["server"] \o Units(f, FALSE) \in Seq(Bytes("server")')
    BY <1>12, <2>2, Joined
  <2> QED
    BY <1>0, <1>1, <1>4, <2>1, <2>2, <2>3, WireGrows
<1>14. EnvInv' /\ ResultInv' /\ TypeInv'
  BY <1>0, <1>1, <1>6, EnvKept, ResultKept DEF TypeInv
<1> QED
  BY <1>6, <1>7, <1>8, <1>9, <1>10, <1>13, <1>14
     DEF IInv, SelfInv, HandlersInv, OwnerInv
-----------------------------------------------------------------------------
(* The transport.                                                          *)

\* A step that touches nothing but the transport.
LEMMA TransportStep ==
    ASSUME IInv, UNCHANGED <<rpc_env, next_id, calls_, entries_, todo, resumed, got>>,
           EnvInv', WireInv'
    PROVE  IInv'
<1>1. CallsInv' /\ EntriesInv' /\ ResultInv'
  BY CallsKept, EntriesKept, ResultKept DEF IInv
<1>2. TypeInv' /\ SelfInv'
  BY DEF IInv, TypeInv, SelfInv, SelfOK, Stage, IdOK, OwnResponse, NotSent, Response
<1>3. HandlersInv' /\ ResumeInv'
  BY ZenonT(60) DEF IInv, HandlersInv, HandlersOK, OwnResponse, ResumeInv, ResumeOK, HasEntry
<1>4. OwnerInv'
  <2>1. \A c : HasEntry(c)' = HasEntry(c) /\ Pending(c)' = Pending(c)
              /\ \A t : On(t, c)' = On(t, c)
    BY DEF HasEntry, Pending, On
  <2> QED
    BY <2>1, OwnerKept DEF IInv, OwnerInv
<1> QED
  BY <1>1, <1>2, <1>3, <1>4 DEF IInv

\* What may travel stays the same.
LEMMA BytesKept ==
    ASSUME UNCHANGED <<rpc_env, next_id, calls_, todo>>, NEW s
    PROVE  Bytes(s)' = Bytes(s)
BY DEF Bytes, Frames, FrameOK, IdOK

\* The server sends a push.
LEMMA PushStep ==
    ASSUME IInv, Push
    PROVE  IInv'
<1>1. /\ UNCHANGED <<rpc_env, open, next_id, calls_, entries_, todo, decoder, resumed, got>>
      /\ wire' = [wire EXCEPT !["server"] = Units([kind |-> "push"], FALSE)]
      /\ WireInv /\ EnvInv
  BY DEF Push, IInv
<1>2. PICK f : f = [kind |-> "push"]
  OBVIOUS
<1>3. f \in Frames("server")'
  BY <1>2 DEF Frames
<1>4. Units(f, FALSE) \in Seq(Bytes("server")')
  BY <1>3, UnitsAreBytes DEF Bytes
<1>5. WireInv'
  <2>1. \A s \in Sides : Seq(Bytes(s)) \subseteq Seq(Bytes(s)')
    BY <1>1, BytesKept
  <2> QED
    BY <1>1, <1>2, <1>4, <2>1, WireGrows DEF Sides
<1> QED
  BY <1>1, <1>5, EnvKept, TransportStep

\* The next bytes are appended to the buffer of the decoder.
LEMMA ReceiveStep ==
    ASSUME IInv, NEW s \in Sides, NEW n \in 1..4, Receive(s, n)
    PROVE  IInv'
<1>1. /\ UNCHANGED <<rpc_env, open, next_id, calls_, entries_, todo, resumed, got>>
      /\ n <= Len(wire[s])
      /\ decoder' = [decoder EXCEPT ![s] = @ \o SubSeq(wire[s], 1, n)]
      /\ wire' = [wire EXCEPT ![s] = SubSeq(@, n + 1, Len(@))]
      /\ WireInv /\ EnvInv
  BY DEF Receive, IInv
<1>2. wire[s] \in Seq(Bytes(s)) /\ decoder[s] \in Seq(Bytes(s))
      /\ DOMAIN wire = Sides /\ DOMAIN decoder = Sides
  BY <1>1 DEF WireInv
<1>3. SubSeq(wire[s], 1, n) \in Seq(Bytes(s)) /\ SubSeq(wire[s], n + 1, Len(wire[s])) \in Seq(Bytes(s))
  <2>1. n \in Nat /\ n + 1 \in Nat \ {0} /\ n <= Len(wire[s])
    BY SMT, <1>1
  <2> QED
    BY SMTT(30), <1>2, <2>1, PartsStayBytes
<1>4. decoder[s] \o SubSeq(wire[s], 1, n) \in Seq(Bytes(s))
  BY <1>2, <1>3, Joined
<1>5. WireInv'
  <2>1. \A x \in Sides : Bytes(x)' = Bytes(x)
    BY <1>1, BytesKept
  <2>2. DOMAIN wire' = Sides /\ DOMAIN decoder' = Sides
    BY <1>1, <1>2
  <2>3. ASSUME NEW x \in Sides
        PROVE  wire'[x] \in Seq(Bytes(x)) /\ decoder'[x] \in Seq(Bytes(x))
    <3>1. CASE x = s
      BY <1>1, <1>2, <1>3, <1>4, <3>1
    <3>2. CASE x # s
      BY <1>1, <1>2, <3>2 DEF WireInv
    <3> QED
      BY <3>1, <3>2
  <2> QED
    BY <2>1, <2>2, <2>3 DEF WireInv
<1> QED
  BY <1>1, <1>5, EnvKept, TransportStep

\* A decoder stops at an incomplete or a bad frame.
LEMMA DecodeEndsStep ==
    ASSUME IInv, NEW s \in Sides, DecodeEnds(s)
    PROVE  IInv'
<1>1. /\ UNCHANGED <<rpc_env, open, next_id, calls_, entries_, todo, wire, resumed, got>>
      /\ decoder' = [decoder EXCEPT ![s] = IF Verdict(@) = "error" THEN <<>> ELSE @]
      /\ WireInv /\ EnvInv
  BY DEF DecodeEnds, IInv
<1>2. WireInv'
  <2>1. \A x \in Sides : Bytes(x)' = Bytes(x) /\ <<>> \in Seq(Bytes(x))
    BY <1>1, BytesKept, EmptySequence
  <2>2. DOMAIN decoder' = Sides /\ \A x \in Sides : decoder'[x] \in {<<>>, decoder[x]}
    BY <1>1 DEF WireInv
  <2> QED
    BY <1>1, <2>1, <2>2 DEF WireInv
<1> QED
  BY <1>1, <1>2, EnvKept, TransportStep

\* The transport closes.
LEMMA TransportClosesStep ==
    ASSUME IInv, TransportCloses
    PROVE  IInv'
<1>1. /\ UNCHANGED <<rpc_env, next_id, calls_, entries_, todo, decoder, resumed, got>>
      /\ rpc_env.failures /\ wire' = [s \in Sides |-> <<>>] /\ WireInv /\ EnvInv
  BY DEF TransportCloses, IInv
<1>2. WireInv'
  <2>1. \A x \in Sides : Bytes(x)' = Bytes(x) /\ <<>> \in Seq(Bytes(x))
    BY <1>1, BytesKept, EmptySequence
  <2> QED
    BY <1>1, <2>1 DEF WireInv
<1>3. EnvInv'
  BY <1>1 DEF EnvInv, SoundEnv
<1> QED
  BY <1>1, <1>2, <1>3, TransportStep

\* The server answers with the ids of the request.
LEMMA HandleRequestStep ==
    ASSUME IInv, HandleRequest
    PROVE  IInv'
<1>1. /\ UNCHANGED <<rpc_env, open, next_id, calls_, entries_, todo, resumed, got>>
      /\ Verdict(decoder["server"]) = "ok"
      /\ decoder' = [decoder EXCEPT !["server"] = SubSeq(@, 3, Len(@))]
      /\ WireInv /\ EnvInv
  BY DEF HandleRequest, IInv
<1>2. PICK f : f = decoder["server"][1].frame
  OBVIOUS
<1>3. \/ wire' = wire
      \/ /\ f.kind # "push"
         /\ \E bad \in BOOLEAN :
               wire' = [wire EXCEPT !["client"] = @ \o Units(Dispatch(f), bad)]
  <2>1. rpc_env.bad_frames \in BOOLEAN
    BY <1>1, EnvTypes DEF EnvInv
  <2> QED
    BY <1>2, <2>1 DEF HandleRequest
<1>4. /\ "server" \in Sides /\ "client" \in Sides /\ "client" # "server"
      /\ DOMAIN wire = Sides /\ DOMAIN decoder = Sides
      /\ wire["client"] \in Seq(Bytes("client")) /\ decoder["server"] \in Seq(Bytes("server"))
  BY <1>1 DEF WireInv, Sides
<1>5. f \in Frames("server") /\ SubSeq(decoder["server"], 3, Len(decoder["server"])) \in Seq(Bytes("server"))
  BY <1>1, <1>2, <1>4, FirstFrame
<1>6. f.kind # "push" => Dispatch(f) \in Frames("client")
  <2> SUFFICES ASSUME f.kind # "push" PROVE Dispatch(f) \in Frames("client")
    OBVIOUS
  <2>1. f \in Requests /\ FrameOK(f)
    <3>1. f \notin [kind : {"push"}]
      BY SMT
    <3> QED
      BY <1>4, <1>5, <3>1 DEF Frames
  <2>2. f.of \in Calls /\ f.id \in Nat /\ "answered" \in Statuses
    BY <2>1 DEF FrameOK, IdOK, Statuses
  <2>3. /\ Dispatch(f) \in Responses /\ Dispatch(f).of = f.of
        /\ Dispatch(f).co = rpc_env.co[f.of] /\ Dispatch(f).id = f.id
    BY SMT, <1>1, <2>2, ResponseFields DEF Dispatch, EnvInv
  <2> QED
    BY <2>1, <2>3 DEF Frames, FrameOK
<1>7. WireInv'
  <2>1. \A x \in Sides : Bytes(x)' = Bytes(x)
    BY <1>1, BytesKept
  <2>2. DOMAIN decoder' = Sides /\ \A x \in Sides : decoder'[x] \in Seq(Bytes(x))
    BY <1>1, <1>4, <1>5 DEF WireInv
  <2>3. DOMAIN wire' = Sides /\ \A x \in Sides : wire'[x] \in Seq(Bytes(x))
    <3>1. CASE wire' = wire
      BY <1>1, <3>1 DEF WireInv
    <3>2. ASSUME f.kind # "push", NEW bad \in BOOLEAN,
                 wire' = [wire EXCEPT !["client"] = @ \o Units(Dispatch(f), bad)]
          PROVE  DOMAIN wire' = Sides /\ \A x \in Sides : wire'[x] \in Seq(Bytes(x))
      <4>1. Units(Dispatch(f), bad) \in Seq(Bytes("client"))
        BY <1>6, <3>2, UnitsAreBytes DEF Bytes
      <4>2. wire["client"] \o Units(Dispatch(f), bad) \in Seq(Bytes("client"))
        BY <1>4, <4>1, Joined
      <4> QED
        BY <1>1, <1>4, <3>2, <4>2 DEF WireInv
    <3> QED
      BY <1>3, <3>1, <3>2
  <2> QED
    BY <2>1, <2>2, <2>3 DEF WireInv
<1> QED
  BY <1>1, <1>7, EnvKept, TransportStep
-----------------------------------------------------------------------------
(* Pending calls that leave the map.                                       *)

\* A call's own thread has not moved.
LEMMA StageKept ==
    ASSUME NEW c, todo'[c] = todo[c]
    PROVE  Stage(c)' = Stage(c)
BY DEF Stage

\* The handlers of the calls taken out of the map.
LEMMA HandlersTaken ==
    ASSUME NEW t, NEW s, todo'[t] = s,
           \A i \in 1..Len(s) : s[i] \in HandlerOps /\ s[i].op # "resume" /\ OwnResponse(s[i])',
           \A i, j \in 1..Len(s) : CallOf(s[i]) = CallOf(s[j]) => i = j
    PROVE  HandlersOK(t)'
BY DEF HandlersOK

\* Whoever takes calls out of the map runs their handlers.
LEMMA TakenStep ==
    ASSUME IInv, NEW t \in Services, NEW ids, NEW s \in Seq(Ops), todo[t] = <<>>,
           todo' = [todo EXCEPT ![t] = s],
           UNCHANGED <<rpc_env, open, next_id, entries_, resumed, got>>,
           DOMAIN calls_' = DOMAIN calls_ \ ids,
           \A id \in DOMAIN calls_' : calls_'[id] = calls_[id],
           \A id \in ids : rpc_env.slow_sends \/ todo[calls_[id]] = <<>>,
           \A i \in 1..Len(s) :
               /\ s[i] \in HandlerOps /\ s[i].op = "complete" /\ OwnResponse(s[i])
               /\ \E id \in ids : id \in DOMAIN calls_ /\ CallOf(s[i]) = calls_[id],
           \A i, j \in 1..Len(s) : CallOf(s[i]) = CallOf(s[j]) => i = j,
           WireInv'
    PROVE  IInv'
<1>0. EnvInv /\ TypeInv /\ CallsInv /\ EntriesInv /\ SelfInv /\ HandlersInv /\ OwnerInv
      /\ ResumeInv /\ ResultInv /\ WireInv
  BY DEF IInv
<1>1. /\ todo' \in [Threads -> Seq(Ops)] /\ todo'[t] = s
      /\ \A u \in Threads : u # t => todo'[u] = todo[u]
  BY <1>0, OneThread, ThreadKinds
<1>2. CallsInv' /\ (\A c : Pending(c)' => Pending(c)) /\ \A c, id : IdOK(id, c) => IdOK(id, c)'
  BY <1>0, CallsShrink
<1>3. EntriesInv' /\ \A c : HasEntry(c)' <=> HasEntry(c)
  BY <1>0, EntriesKept
<1>4. \A c : OwnResponse(c)' <=> OwnResponse(c)
  BY DEF OwnResponse
<1>5. \A u \in Services : u # t => todo'[u] = todo[u] /\ \A c : On(u, c)' <=> On(u, c)
  BY <1>1, OnKept, ThreadKinds
<1>6. ASSUME NEW c, On(t, c)'
      PROVE  /\ Pending(c) /\ ~Pending(c)'
  <2>1. PICK i \in 1..Len(s) : CallOf(s[i]) = c
    BY <1>1, <1>6 DEF On
  <2>2. PICK id \in ids : id \in DOMAIN calls_ /\ calls_[id] = c
    BY <2>1
  <2> QED
    BY <1>0, <2>2 DEF Pending, CallsInv
<1>7. HandlersInv'
  <2> SUFFICES ASSUME NEW u \in Services PROVE HandlersOK(u)'
    BY DEF HandlersInv
  <2>1. CASE u = t
    <3>1. \A i \in 1..Len(s) : s[i].op # "resume" /\ OwnResponse(s[i])'
      BY <1>4
    <3> QED
      BY <1>1, <2>1, <3>1, HandlersTaken
  <2>2. CASE u # t
    BY <1>0, <1>5, <2>2, HandlersKept DEF HandlersInv
  <2> QED
    BY <2>1, <2>2
<1>8. ASSUME NEW c \in Calls
      PROVE  SelfOK(c)' /\ OwnerOK(c)'
  <2>1. SelfOK(c) /\ OwnerOK(c) /\ todo'[c] = todo[c]
    BY ZenonT(60), <1>0, <1>1, ThreadKinds DEF SelfInv, OwnerInv
  <2>2. Stage(c)' = Stage(c)
    BY <2>1, StageKept
  <2>3. Stage(c) = "send" /\ rpc_env.failures /\ Head(todo[c]).id \in DOMAIN calls_ =>
            Head(todo[c]).id \in DOMAIN calls_'
    <3> SUFFICES ASSUME Stage(c) = "send", rpc_env.failures, Head(todo[c]).id \in DOMAIN calls_
                 PROVE  Head(todo[c]).id \in DOMAIN calls_'
      OBVIOUS
    <3>1. ~rpc_env.slow_sends
      BY <1>0 DEF EnvInv, SoundEnv
    <3>2. todo[c] # <<>>
      BY DEF Stage
    <3>3. calls_[Head(todo[c]).id] = c
      BY <2>1 DEF SelfOK, IdOK
    <3> DEFINE h == Head(todo[c]).id
    <3>4. h \in DOMAIN calls_ /\ todo[calls_[h]] # <<>>
      BY <3>2, <3>3
    <3> HIDE DEF h
    <3>5. h \notin ids
      BY Zenon, <3>1, <3>4
    <3>6. h \in DOMAIN calls_'
      BY Zenon, <3>4, <3>5
    <3> QED
      BY Zenon, <3>6 DEF h
  <2>4. SelfOK(c)'
    BY <1>2, <2>1, <2>3, SelfKept
  <2>5. CASE ~On(t, c)'
    <3>1. \A u \in Services : On(u, c)' => On(u, c)
      BY <1>5, <2>5
    <3> QED
      BY <1>2, <1>3, <2>1, <2>4, <3>1, OwnerKept
  <2>6. CASE On(t, c)'
    <3>1. /\ HasEntry(c)' /\ ~Pending(c)' /\ Stage(c)' \in {"send", "idle"}
          /\ \A u \in Services : ~On(u, c)
      BY <1>3, <1>6, <2>1, <2>2, <2>6 DEF OwnerOK
    <3>2. ~(On("io", c)' /\ On("poller", c)')
      BY <1>5, <3>1, ThreadKinds
    <3>3. resumed'[c] = 0
      BY <1>3, <2>1, <3>1 DEF OwnerOK
    <3> QED
      BY <2>4, <3>1, <3>2, <3>3 DEF OwnerOK
  <2> QED
    BY <2>5, <2>6
<1>9. ResumeInv'
  <2>1. todo'[t] # <<>> => Head(todo'[t]).op # "resume"
    <3> SUFFICES ASSUME s # <<>> PROVE Head(s).op # "resume"
      BY <1>1
    <3>1. Head(s) = s[1] /\ Len(s) \in Nat \ {0}
      BY Popped
    <3>2. 1 \in 1..Len(s)
      BY SMT, <3>1
    <3> QED
      BY <3>1, <3>2
  <2> QED
    BY <1>1, <2>1, ResumeWhileGrowing
<1>10. EnvInv' /\ ResultInv' /\ TypeInv'
  BY <1>0, <1>1, EnvKept, ResultKept DEF TypeInv
<1> QED
  BY <1>2, <1>3, <1>7, <1>8, <1>9, <1>10 DEF IInv, SelfInv, OwnerInv

\* complete(): a response takes its call out of the map, if it is still there.
LEMMA HandleResponseStep ==
    ASSUME IInv, HandleResponse
    PROVE  IInv'
<1>1. /\ UNCHANGED <<rpc_env, open, next_id, entries_, wire, resumed, got>>
      /\ Verdict(decoder["client"]) = "ok" /\ todo["io"] = <<>>
      /\ decoder' = [decoder EXCEPT !["client"] = SubSeq(@, 3, Len(@))]
      /\ WireInv /\ TypeInv /\ EnvInv /\ CallsInv
  BY DEF HandleResponse, IInv
<1>2. PICK f : f = decoder["client"][1].frame
  OBVIOUS
<1>3. /\ calls_' = Erased(calls_, f.id)
      /\ todo' = [todo EXCEPT !["io"] = Answer(f)]
  BY <1>2 DEF HandleResponse, TakePending
<1>4. "client" \in Sides /\ decoder["client"] \in Seq(Bytes("client"))
  BY <1>1 DEF WireInv, Sides
<1>5. f \in Frames("client") /\ SubSeq(decoder["client"], 3, Len(decoder["client"])) \in Seq(Bytes("client"))
  BY <1>1, <1>2, <1>4, FirstFrame
<1>6. f \in Responses /\ FrameOK(f)
  BY <1>5 DEF Frames
<1>7. PICK x : x = Complete(f)
  OBVIOUS
<1>8. /\ x \in HandlerOps /\ x \in Ops /\ x.op = "complete" /\ x.response = f /\ CallOf(x) = f.of
  BY <1>6, <1>7, CompleteFields
<1>9. PICK s : s = Answer(f)
  OBVIOUS
<1>10. /\ s \in Seq(Ops)
       /\ \A i \in 1..Len(s) : i = 1 /\ s[i] = x /\ f.id \in DOMAIN calls_
  <2>1. CASE f.id \in DOMAIN calls_
    <3>1. s = <<x>>
      BY <1>7, <1>9, <2>1 DEF Answer
    <3>2. s \in Seq(Ops) /\ Len(s) = 1 /\ s[1] = x
      BY <1>8, <3>1, OneElement
    <3>3. \A i \in 1..1 : i = 1
      BY SMT
    <3> QED
      BY <2>1, <3>2, <3>3
  <2>2. CASE f.id \notin DOMAIN calls_
    <3>1. s = <<>>
      BY <1>9, <2>2 DEF Answer
    <3> QED
      BY <3>1, EmptySequence
  <2> QED
    BY <2>1, <2>2
<1>11. /\ DOMAIN calls_' = DOMAIN calls_ \ {f.id}
       /\ \A id \in DOMAIN calls_' : calls_'[id] = calls_[id]
  BY <1>3, ErasedFields
<1>12. f.id \in DOMAIN calls_ => calls_[f.id] = f.of
  BY <1>6 DEF FrameOK, IdOK
<1>13. PICK ids : ids = {f.id} \cap DOMAIN calls_
  OBVIOUS
<1>14. /\ DOMAIN calls_' = DOMAIN calls_ \ ids
       /\ \A id \in ids : todo[calls_[id]] = <<>>
  BY <1>6, <1>11, <1>12, <1>13 DEF FrameOK
<1>15. \A i \in 1..Len(s) :
          /\ s[i] \in HandlerOps /\ s[i].op = "complete" /\ OwnResponse(s[i])
          /\ \E id \in ids : id \in DOMAIN calls_ /\ CallOf(s[i]) = calls_[id]
  <2>1. OwnResponse(x)
    BY <1>6, <1>8 DEF OwnResponse, FrameOK
  <2> QED
    BY <1>8, <1>10, <1>12, <1>13, <2>1
<1>16. \A i, j \in 1..Len(s) : CallOf(s[i]) = CallOf(s[j]) => i = j
  BY <1>10
<1>17. WireInv'
  <2>1. \A c \in Calls : \A id : IdOK(id, c) => IdOK(id, c)'
    BY <1>1, <1>11, CallsShrink
  <2>2. \A c \in Calls : todo[c] = <<>> => todo'[c] = <<>>
    BY <1>1, <1>3, ThreadKinds DEF TypeInv
  <2>3. \A y \in Sides : Seq(Bytes(y)) \subseteq Seq(Bytes(y)')
    BY <1>1, <2>1, <2>2, FramesKept
  <2>4. DOMAIN decoder' = Sides /\ \A y \in Sides : decoder'[y] \in Seq(Bytes(y))
    BY <1>1, <1>4, <1>5 DEF WireInv
  <2> QED
    BY <1>1, <2>3, <2>4 DEF WireInv
<1>18. "io" \in Services /\ todo' = [todo EXCEPT !["io"] = s]
  BY <1>3, <1>9, ThreadKinds
<1> QED
  BY ZenonT(60), <1>1, <1>10, <1>11, <1>14, <1>15, <1>16, <1>17, <1>18, TakenStep

\* expire(): the calls that are due leave the map, then their handlers run.
LEMMA PollTimeoutsStep ==
    ASSUME IInv, PollTimeouts
    PROVE  IInv'
<1>1. PICK ids \in SUBSET Timed : Expire(ids)
  BY DEF PollTimeouts
<1>2. /\ UNCHANGED <<rpc_env, open, next_id, entries_, wire, decoder, resumed, got>>
      /\ todo["poller"] = <<>> /\ calls_' = Erase(ids)
      /\ WireInv /\ TypeInv /\ EnvInv /\ CallsInv
  BY <1>1 DEF Expire, IInv
<1>3. PICK n \in 1..next_id : \E order \in Bijection(1..n, ids) :
           todo' = [todo EXCEPT !["poller"] = Expiry(order)]
  BY <1>1 DEF Expire
<1>4. PICK order \in Bijection(1..n, ids) : todo' = [todo EXCEPT !["poller"] = Expiry(order)]
  BY <1>3
<1>5. /\ ids \subseteq DOMAIN calls_
      /\ \A id \in ids : id \in Nat /\ calls_[id] \in Calls
      /\ \A id \in ids : rpc_env.slow_sends \/ todo[calls_[id]] = <<>>
  BY <1>1, <1>2 DEF Timed, CallsInv
<1>6. n \in Nat
  BY SMT, <1>2 DEF TypeInv
<1>7. order \in [1..n -> ids] /\ \A i, j \in 1..n : order[i] = order[j] => i = j
  BY DEF Bijection, Injection, Surjection, IsInjective
<1>8. PICK s : s = Expiry(order)
  OBVIOUS
<1>9. ASSUME NEW i \in 1..n
      PROVE  /\ s[i] \in HandlerOps /\ s[i] \in Ops /\ s[i].op = "complete"
             /\ OwnResponse(s[i]) /\ CallOf(s[i]) = calls_[order[i]]
  <2>1. order[i] \in ids /\ order[i] \in Nat /\ calls_[order[i]] \in Calls
    BY <1>5, <1>7
  <2>2. PICK r : r = Response(order[i], calls_[order[i]], "timeout")
    OBVIOUS
  <2>3. r \in Responses /\ r.of = calls_[order[i]] /\ r.co = rpc_env.co[calls_[order[i]]]
    <3>1. "timeout" \in Statuses
      BY DEF Statuses
    <3> QED
      BY SMTT(20), <1>2, <2>1, <2>2, <3>1, ResponseFields DEF EnvInv
  <2>4. s[i] = Complete(r)
    BY <1>7, <1>8, <2>2 DEF Expiry
  <2>5. Complete(r) \in HandlerOps /\ Complete(r) \in Ops /\ Complete(r).op = "complete"
        /\ Complete(r).response = r /\ CallOf(Complete(r)) = r.of
    BY <2>3, CompleteFields
  <2> QED
    BY <2>3, <2>4, <2>5 DEF OwnResponse
<1>10. s \in Seq(Ops) /\ Len(s) = n
  <2>1. DOMAIN s = 1..n /\ s = [i \in 1..n |-> s[i]]
    BY <1>7, <1>8 DEF Expiry
  <2>2. s \in [1..n -> Ops]
    BY <1>9, <2>1
  <2> QED
    BY SMT, <1>6, <2>2
<1>11. DOMAIN calls_' = DOMAIN calls_ \ ids /\ \A id \in DOMAIN calls_' : calls_'[id] = calls_[id]
  BY <1>2 DEF Erase, Restrict
<1>12. \A i \in 1..Len(s) :
          /\ s[i] \in HandlerOps /\ s[i].op = "complete" /\ OwnResponse(s[i])
          /\ \E id \in ids : id \in DOMAIN calls_ /\ CallOf(s[i]) = calls_[id]
  BY <1>5, <1>7, <1>9, <1>10
<1>13. \A i, j \in 1..Len(s) : CallOf(s[i]) = CallOf(s[j]) => i = j
  <2> SUFFICES ASSUME NEW i \in 1..n, NEW j \in 1..n, CallOf(s[i]) = CallOf(s[j])
               PROVE  i = j
    BY <1>10
  <2>1. calls_[order[i]] = calls_[order[j]] /\ order[i] \in DOMAIN calls_ /\ order[j] \in DOMAIN calls_
    BY <1>5, <1>7, <1>9
  <2> QED
    BY <1>2, <1>7, <2>1 DEF CallsInv
<1>14. WireInv'
  <2>1. \A c \in Calls : \A id : IdOK(id, c) => IdOK(id, c)'
    BY <1>2, <1>11, CallsShrink
  <2>2. \A c \in Calls : todo[c] = <<>> => todo'[c] = <<>>
    BY <1>2, <1>4, ThreadKinds DEF TypeInv
  <2> QED
    BY <1>2, <2>1, <2>2, WireKept
<1>15. "poller" \in Services /\ todo' = [todo EXCEPT !["poller"] = s]
  BY <1>4, <1>8, ThreadKinds
<1> QED
  BY ZenonT(60), <1>2, <1>5, <1>10, <1>11, <1>12, <1>13, <1>14, <1>15, TakenStep
-----------------------------------------------------------------------------

\* No call has started.
LEMMA InitIInv ==
    ASSUME SoundEnvs, RpcInit
    PROVE  IInv
<1>1. EnvInv
  BY DEF RpcInit, EnvInv, SoundEnvs
<1>2. <<>> \in Seq(Ops) /\ Len(<<>>) = 0 /\ 1..0 = {}
  BY EmptySequence
<1>3. PICK x : x = [op |-> "suspend"]
  OBVIOUS
<1>4. x \in Ops /\ x.op = "suspend"
  BY SMT, <1>3 DEF Ops, StageOps
<1>5. /\ <<x>> \in Seq(Ops) /\ <<x>> # <<>> /\ Head(<<x>>) = x /\ Tail(<<x>>) = <<>>
  BY <1>4, OneElement
<1>6. /\ todo \in [Threads -> Seq(Ops)] /\ \A c \in Calls : todo[c] = <<x>>
      /\ \A t \in Services : todo[t] = <<>>
  BY <1>2, <1>3, <1>5, ThreadKinds DEF RpcInit
<1>7. TypeInv
  <2>1. 1 \in Nat \ {0}
    BY SMT
  <2> QED
    BY <1>6, <2>1 DEF TypeInv, RpcInit
<1>8. DOMAIN calls_ = {} /\ DOMAIN entries_ = {}
  BY SMT DEF RpcInit
<1>9. CallsInv /\ EntriesInv
  BY <1>8 DEF CallsInv, EntriesInv
<1>10. \A c \in Calls : Stage(c) = "suspend"
  BY <1>4, <1>5, <1>6 DEF Stage
<1>11. SelfInv
  BY <1>5, <1>6, <1>10 DEF SelfInv, SelfOK
<1>12. \A t \in Services : \A i \in 1..Len(todo[t]) : FALSE
  BY <1>2, <1>6
<1>13. HandlersInv
  BY <1>12 DEF HandlersInv, HandlersOK
<1>14. OwnerInv
  <2>1. \A c \in Calls : ~HasEntry(c) /\ ~Pending(c) /\ resumed[c] = 0
                         /\ \A t \in Services : ~On(t, c)
    BY <1>8, <1>12 DEF HasEntry, Pending, On, RpcInit
  <2> QED
    BY <1>10, <2>1, ThreadKinds DEF OwnerInv, OwnerOK
<1>15. ResumeInv
  <2>1. \A t \in Threads : todo[t] = <<>> \/ todo[t] = <<x>>
    BY <1>6, ThreadKinds
  <2> QED
    BY <1>4, <1>5, <2>1 DEF ResumeInv, ResumeOK
<1>16. ResultInv
  <2>1. 0 # 1
    BY SMT
  <2> QED
    BY <2>1 DEF ResultInv, RpcInit
<1>17. WireInv
  <2>1. \A s : <<>> \in Seq(Bytes(s))
    BY EmptySequence
  <2> QED
    BY <2>1 DEF WireInv, RpcInit
<1> QED
  BY <1>1, <1>7, <1>9, <1>11, <1>13, <1>14, <1>15, <1>16, <1>17 DEF IInv

\* Every step of the session, its threads and its transport.
LEMMA NextIInv ==
    ASSUME IInv, [RpcNext]_rpc_vars
    PROVE  IInv'
<1>1. ASSUME NEW c \in Calls, Await(c)
      PROVE  IInv'
  BY <1>1, SuspendStep, CreateStep, SendFrameStep, SendFailsStep DEF Await
<1>2. ASSUME NEW t \in Threads, Handlers(t)
      PROVE  IInv'
  BY <1>2, CompleteFound, CompleteMissing, ResumeStep DEF Handlers
<1>3. ASSUME NEW s \in Sides, DecodeEnds(s) \/ \E n \in 1..4 : Receive(s, n)
      PROVE  IInv'
  BY <1>3, DecodeEndsStep, ReceiveStep
<1>4. CASE HandleResponse
  BY <1>4, HandleResponseStep
<1>5. CASE HandleRequest
  BY <1>5, HandleRequestStep
<1>6. CASE Push
  BY <1>6, PushStep
<1>7. CASE TransportCloses
  BY <1>7, TransportClosesStep
<1>8. CASE PollTimeouts
  BY <1>8, PollTimeoutsStep
<1>9. CASE UNCHANGED rpc_vars
  <2>1. EnvInv' /\ WireInv'
    BY <1>9, EnvKept, WireKept DEF IInv, IdOK
  <2> QED
    BY <1>9, <2>1, TransportStep
<1> QED
  BY ZenonT(60), <1>1, <1>2, <1>3, <1>4, <1>5, <1>6, <1>7, <1>8, <1>9 DEF RpcNext

(* A response, a timeout, a send that fails and a cancellation may race: a  *)
(* coroutine that awaits a call is resumed at most once, and then with an   *)
(* answer to its own call.  SoundEnvs leaves out what the code does not     *)
(* withstand once something fails: coroutine ids used by two calls at once, *)
(* and a deadline that passes inside of the send.                           *)
THEOREM ResumedOnce ==
    ASSUME SoundEnvs
    PROVE  RpcSpec => []ResumedOnceWithOwnAnswer
<1>1. IInv => ResumedOnceWithOwnAnswer
  <2>1. \A n \in {0, 1} : n <= 1
    BY SMT
  <2> QED
    BY <2>1 DEF IInv, ResultInv, ResumedOnceWithOwnAnswer
<1> QED
  BY <1>1, InitIInv, NextIInv, PTL DEF RpcSpec
====
