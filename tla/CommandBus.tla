----------------------------- MODULE CommandBus -----------------------------
(***************************************************************************)
(* The command fan-out of the supervisor: send_command and                 *)
(* subscribe_commands of crates/homenode-server/src/service.rs, with the   *)
(* clients that hold a stream and subscribe again when it breaks           *)
(* (modules/network-discovery/src/main.rs 223-263 and                      *)
(* modules/philips-hue/src/main.rs 775-836).                               *)
(*                                                                         *)
(* A command is the number of its dispatch; 0 is the "ready" greeting.     *)
(* The subscriber list is behind one tokio Mutex that send_command holds   *)
(* for the whole fan-out, which makes it one action; subscribe_commands    *)
(* creates its channel before it waits for that lock.  Buffers of the      *)
(* HTTP/2 connection are not modelled: they only add room to the channel.  *)
(***************************************************************************)
EXTENDS Integers, Sequences, FiniteSets

CONSTANTS
  Targets,    \* module ids that a command can name
  Clients,    \* processes that subscribe
  Filter,     \* module_id of each client's request, or Every
  Every,      \* the empty module_id
  Slots,      \* bound: the subscriptions of a behaviour
  Nobody,     \* no client, no subscription
  Cap,        \* the capacity of a channel, 32 in the code
  MaxSends    \* bound: the commands of a behaviour

ASSUME FilterAssumption == Filter \in [Clients -> Targets \union {Every}]
ASSUME CapAssumption == Cap \in Nat \ {0}
ASSUME NobodyAssumption == Nobody \notin Clients /\ Nobody \notin Slots

VARIABLES
  log,        \* the targets of the commands dispatched so far
  stage,      \* what the supervisor knows of a subscription
  owner,      \* the client that opened it
  queue,      \* the messages in its channel
  refused,    \* the commands its full channel did not take
  session,    \* the subscription whose stream a client reads
  got,        \* what a client has read, and through which subscription
  since       \* commands dispatched when "ready" was read

busVars == <<log, stage, owner, queue, refused>>
vars == <<busVars, session, got, since>>

\* A subscription waits for the lock with its channel ("opening"), is in the
\* list ("listed"), is in the list with its receiver dropped ("closed"), or
\* has left the list or never got there ("gone").
Stages == {"unused", "opening", "listed", "closed", "gone"}
Ready == 0
Numbers == 0..Len(log)
Reads(c, s) == session[c] = s
HasGot(c, s, n) == \E i \in DOMAIN got[c] : got[c][i] = [via |-> s, number |-> n]

-----------------------------------------------------------------------------
(* subscribe_commands                                                      *)

Greeting == <<Ready>>

Open(c, s) ==
  /\ session[c] = Nobody
  /\ stage[s] = "unused"
  /\ stage' = [stage EXCEPT ![s] = "opening"]
  /\ owner' = [owner EXCEPT ![s] = c]
  /\ queue' = [queue EXCEPT ![s] = Greeting]
  /\ session' = [session EXCEPT ![c] = s]
  /\ UNCHANGED <<log, refused, got, since>>

\* The lock is granted, the sender is pushed, and the stream is returned.
Enlist(s) ==
  /\ stage[s] = "opening"
  /\ stage' = [stage EXCEPT ![s] = "listed"]
  /\ UNCHANGED <<log, owner, queue, refused, session, got, since>>

-----------------------------------------------------------------------------
(* send_command                                                            *)

Addressed(s, target) ==
  /\ stage[s] \in {"listed", "closed"}
  /\ Filter[owner[s]] \in {target, Every}

Full(s) == Len(queue[s]) >= Cap

\* The subscribers that the response counts as delivered to.
Counted(target) == {s \in Slots : Addressed(s, target) /\ stage[s] = "listed"}

Send(target) ==
  /\ Len(log) < MaxSends
  /\ log' = Append(log, target)
  /\ queue' = [s \in Slots |-> IF s \in Counted(target) /\ ~Full(s)
                               THEN Append(queue[s], Len(log) + 1) ELSE queue[s]]
  /\ refused' = [s \in Slots |-> IF s \in Counted(target) /\ Full(s)
                                 THEN refused[s] \union {Len(log) + 1} ELSE refused[s]]
  /\ stage' = [s \in Slots |-> IF Addressed(s, target) /\ stage[s] = "closed"
                               THEN "gone" ELSE stage[s]]
  /\ UNCHANGED <<owner, session, got, since>>

-----------------------------------------------------------------------------
(* Streams                                                                 *)

\* What the owner of s makes of message n.
Deliver(s, n) ==
  IF Reads(owner[s], s)
  THEN /\ got' = [got EXCEPT ![owner[s]] = Append(@, [via |-> s, number |-> n])]
       /\ since' = IF n = Ready THEN [since EXCEPT ![s] = Len(log)] ELSE since
  ELSE UNCHANGED <<got, since>>

\* Mutant: the stream is returned before the sender is pushed.
Pull_Early(s) ==
  /\ stage[s] \in {"opening", "listed"}
  /\ queue[s] # <<>>
  /\ queue' = [queue EXCEPT ![s] = Tail(@)]
  /\ Deliver(s, Head(queue[s]))
  /\ UNCHANGED <<log, stage, owner, refused, session>>

\* Mutant: the stream yields the newest message first.
Pull_Newest(s) ==
  /\ stage[s] = "listed"
  /\ queue[s] # <<>>
  /\ queue' = [queue EXCEPT ![s] = SubSeq(@, 1, Len(@) - 1)]
  /\ Deliver(s, queue[s][Len(queue[s])])
  /\ UNCHANGED <<log, stage, owner, refused, session>>

\* The stream takes a message from the channel.  Its client reads it, or has
\* left without the supervisor knowing.
Pull(s) ==
  /\ stage[s] = "listed"
  /\ queue[s] # <<>>
  /\ queue' = [queue EXCEPT ![s] = Tail(@)]
  /\ Deliver(s, Head(queue[s]))
  /\ UNCHANGED <<log, stage, owner, refused, session>>

\* The stream breaks at the client, or the client dies and is started again:
\* in both cases it subscribes again.
Leave(c) ==
  /\ session[c] # Nobody
  /\ session' = [session EXCEPT ![c] = Nobody]
  /\ UNCHANGED <<busVars, got, since>>

\* The supervisor notices and drops the receiver with its messages, or the
\* handler that still waits for the lock.
Notice(s) ==
  /\ stage[s] \in {"opening", "listed"}
  /\ ~Reads(owner[s], s)
  /\ stage' = [stage EXCEPT ![s] = IF @ = "listed" THEN "closed" ELSE "gone"]
  /\ queue' = [queue EXCEPT ![s] = <<>>]
  /\ UNCHANGED <<log, owner, refused, session, got, since>>

\* The supervisor ends and another is started: the list is its memory.
Restart ==
  /\ \E s \in Slots : stage[s] \notin {"unused", "gone"}
  /\ stage' = [s \in Slots |-> IF stage[s] = "unused" THEN "unused" ELSE "gone"]
  /\ queue' = [s \in Slots |-> <<>>]
  /\ session' = [c \in Clients |-> Nobody]
  /\ UNCHANGED <<log, owner, refused, got, since>>

-----------------------------------------------------------------------------
Init ==
  /\ log = <<>>
  /\ stage = [s \in Slots |-> "unused"]
  /\ owner = [s \in Slots |-> Nobody]
  /\ queue = [s \in Slots |-> <<>>]
  /\ refused = [s \in Slots |-> {}]
  /\ session = [c \in Clients |-> Nobody]
  /\ got = [c \in Clients |-> <<>>]
  /\ since = [s \in Slots |-> 0]

Next ==
  \/ \E c \in Clients, s \in Slots : Open(c, s)
  \/ \E s \in Slots : Enlist(s) \/ Pull(s) \/ Notice(s)
  \/ \E t \in Targets : Send(t)
  \/ \E c \in Clients : Leave(c)
  \/ Restart

Spec == Init /\ [][Next]_vars

-----------------------------------------------------------------------------
\* Types, with the bound on every channel.
TypeOK ==
  /\ log \in Seq(Targets)
  /\ stage \in [Slots -> Stages]
  /\ owner \in [Slots -> Clients \union {Nobody}]
  /\ queue \in [Slots -> Seq(Numbers)]
  /\ \A s \in Slots : /\ Len(queue[s]) <= Cap
                      /\ stage[s] # "unused" => owner[s] # Nobody
  /\ refused \in [Slots -> SUBSET Numbers]
  /\ session \in [Clients -> Slots \union {Nobody}]
  /\ got \in [Clients -> Seq([via : Slots, number : Numbers])]
  /\ since \in [Slots -> Numbers]

\* A client reads each command at most once and in the order of dispatch,
\* across all its subscriptions, also when an old one is still listed beside
\* the new one (service.rs 172-197 under the list lock).
Later(m, n) == n = Ready \/ m < n
InOrder ==
  \A c \in Clients : \A i, j \in DOMAIN got[c] :
    i < j => Later(got[c][i].number, got[c][j].number)

\* A client only reads commands that name it, unless it asked for all.
OnlyAddressed ==
  \A c \in Clients : \A i \in DOMAIN got[c] :
    \/ got[c][i].number = Ready
    \/ Filter[c] \in {log[got[c][i].number], Every}

\* The greeting precedes every command on its stream: tests/smoke.rs 259-263
\* waits for it before it sends.
ReadyFirst ==
  \A c \in Clients : \A i \in DOMAIN got[c] :
    got[c][i].number # Ready =>
      \E j \in 1..(i - 1) : got[c][j] = [via |-> got[c][i].via, number |-> Ready]

\* What a client reads is in order, its own, and after the greeting.
ReadsRight == InOrder /\ OnlyAddressed /\ ReadyFirst

\* Once a client has read the greeting, nothing dispatched to it is lost while
\* it keeps the stream, except what its full channel refused.
Complete ==
  \A c \in Clients, s \in Slots :
    (Reads(c, s) /\ HasGot(c, s, Ready)) =>
      \A n \in (since[s] + 1)..Len(log) :
        Filter[c] \in {log[n], Every} =>
          \/ HasGot(c, s, n)
          \/ \E i \in DOMAIN queue[s] : queue[s][i] = n
          \/ n \in refused[s]
=============================================================================
