-------------------------- MODULE CommandBusProofs --------------------------
(***************************************************************************)
(* Theorems about the command fan-out for every number of clients,         *)
(* subscriptions and commands and every capacity.  What a client has read  *)
(* is in order only because its channel is in order and lies wholly after  *)
(* what it has read through earlier subscriptions: Channels and Sessions   *)
(* say so and make the invariant inductive.                                *)
(***************************************************************************)
EXTENDS CommandBus, TLAPS

\* A channel is in order, holds only what its owner may read, and is empty
\* unless its receiver is alive.
Channels ==
  \A s \in Slots :
    /\ \A i, j \in DOMAIN queue[s] : i < j => queue[s][i] < queue[s][j]
    /\ \A i \in DOMAIN queue[s] :
         queue[s][i] = Ready \/ Filter[owner[s]] \in {log[queue[s][i]], Every}
    /\ stage[s] = "opening" => queue[s] = <<Ready>>
    /\ stage[s] \in {"unused", "closed", "gone"} => queue[s] = <<>>

\* The subscription that a client reads is its own, and live; what waits in it
\* comes after all that the client has read, and the greeting comes first.
Sessions ==
  \A c \in Clients, s \in Slots : Reads(c, s) =>
    /\ owner[s] = c
    /\ stage[s] \in {"opening", "listed"}
    /\ \A i \in DOMAIN queue[s], k \in DOMAIN got[c] :
         queue[s][i] = Ready \/ got[c][k].number < queue[s][i]
    /\ HasGot(c, s, Ready) \/ (queue[s] # <<>> /\ queue[s][1] = Ready)

\* Nothing has been read through a subscription that is not in the list yet.
Unread ==
  \A c \in Clients, s \in Slots, n \in Nat :
    stage[s] \in {"unused", "opening"} => ~HasGot(c, s, n)

IInv ==
  /\ TypeOK
  /\ Channels
  /\ Sessions
  /\ Unread
  /\ InOrder
  /\ OnlyAddressed
  /\ ReadyFirst

-----------------------------------------------------------------------------
LEMMA SeqMono ==
  ASSUME NEW S, NEW T, S \subseteq T, NEW q \in Seq(S)
  PROVE  q \in Seq(T)
OBVIOUS

LEMMA SeqElement ==
  ASSUME NEW S, NEW q \in Seq(S), NEW i \in DOMAIN q
  PROVE  q[i] \in S
OBVIOUS

LEMMA InitIInv == Init => IInv
<1> SUFFICES ASSUME Init PROVE IInv
  OBVIOUS
<1> USE DEF Init
<1>1. TypeOK
  BY CapAssumption DEF TypeOK, Stages, Numbers
<1>2. Channels /\ Unread
  BY DEF Channels, Unread, HasGot
<1>3. Sessions
  BY NobodyAssumption DEF Sessions, Reads
<1>4. InOrder /\ OnlyAddressed /\ ReadyFirst
  BY DEF InOrder, OnlyAddressed, ReadyFirst
<1>. QED BY <1>1, <1>2, <1>3, <1>4 DEF IInv

\* Steps that dispatch nothing and read nothing leave what was read alone.
LEMMA Untouched ==
  ASSUME IInv, UNCHANGED <<log, got>>
  PROVE  InOrder' /\ OnlyAddressed' /\ ReadyFirst'
BY DEF IInv, InOrder, OnlyAddressed, ReadyFirst, Later, HasGot

LEMMA OpenInv ==
  ASSUME IInv, NEW c \in Clients, NEW s \in Slots, Open(c, s)
  PROVE  IInv'
<1> USE DEF IInv
<1>1. /\ UNCHANGED <<log, refused, got, since>>
      /\ stage' = [stage EXCEPT ![s] = "opening"]
      /\ owner' = [owner EXCEPT ![s] = c]
      /\ queue' = [queue EXCEPT ![s] = <<Ready>>]
      /\ session' = [session EXCEPT ![c] = s]
      /\ session[c] = Nobody /\ stage[s] = "unused"
  BY DEF Open, Greeting
<1>2. <<Ready>> \in Seq(Numbers) /\ Len(<<Ready>>) = 1
  BY DEF TypeOK, Numbers, Ready
<1>3. \A t \in Slots : t # s => queue'[t] = queue[t] /\ owner'[t] = owner[t]
                                /\ stage'[t] = stage[t]
  BY <1>1 DEF TypeOK
<1>4. queue'[s] = <<Ready>> /\ owner'[s] = c /\ stage'[s] = "opening"
  BY <1>1 DEF TypeOK
<1>5. TypeOK'
  <2>1. /\ stage' \in [Slots -> Stages]
        /\ owner' \in [Slots -> Clients \union {Nobody}]
        /\ session' \in [Clients -> Slots \union {Nobody}]
    BY <1>1 DEF TypeOK, Stages
  <2>2. queue' \in [Slots -> Seq(Numbers)]
    BY <1>1, <1>2 DEF TypeOK
  <2>3. \A t \in Slots : /\ Len(queue'[t]) <= Cap
                         /\ stage'[t] # "unused" => owner'[t] # Nobody
    <3>1. \A t \in Slots : Len(queue[t]) <= Cap /\ (stage[t] # "unused" => owner[t] # Nobody)
      BY DEF TypeOK
    <3>2. 1 <= Cap /\ c # Nobody
      BY CapAssumption, NobodyAssumption
    <3>. QED BY ONLY <1>2, <1>3, <1>4, <3>1, <3>2
  <2>4. Numbers' = Numbers
    BY <1>1 DEF Numbers
  <2>5. /\ log' \in Seq(Targets)
        /\ refused' \in [Slots -> SUBSET Numbers']
        /\ got' \in [Clients -> Seq([via : Slots, number : Numbers'])]
        /\ since' \in [Slots -> Numbers']
    BY <1>1, <2>4 DEF TypeOK
  <2>6. queue' \in [Slots -> Seq(Numbers')]
    BY <2>2, <2>4
  <2>. QED BY ONLY <2>1, <2>3, <2>5, <2>6 DEF TypeOK
<1>6. Channels'
  BY <1>1, <1>3, <1>4 DEF Channels, Ready
<1>7. Unread'
  <2>1. \A d \in Clients, t \in Slots, n \in Nat : HasGot(d, t, n)' <=> HasGot(d, t, n)
    BY <1>1 DEF HasGot
  <2>2. \A t \in Slots : stage'[t] \in {"unused", "opening"} => stage[t] \in {"unused", "opening"}
    BY <1>1, <1>3, <1>4
  <2>. QED BY <2>1, <2>2 DEF Unread
<1>8. Sessions'
  <2>1. SUFFICES ASSUME NEW d \in Clients, NEW t \in Slots, Reads(d, t)'
                 PROVE  /\ owner'[t] = d
                        /\ stage'[t] \in {"opening", "listed"}
                        /\ \A i \in DOMAIN queue'[t], k \in DOMAIN got[d] :
                             queue'[t][i] = Ready \/ got[d][k].number < queue'[t][i]
                        /\ HasGot(d, t, Ready) \/ (queue'[t] # <<>> /\ queue'[t][1] = Ready)
    BY <1>1 DEF Sessions, HasGot
  <2>2. CASE d = c
    BY <1>1, <1>4, <2>1, <2>2 DEF Reads, TypeOK
  <2>3. CASE d # c
    <3>1. Reads(d, t) /\ t # s
      BY <1>1, <2>1, <2>3 DEF Reads, TypeOK, Sessions
    <3>. QED BY <1>1, <1>3, <3>1 DEF Sessions
  <2>. QED BY <2>2, <2>3
<1>. QED BY <1>1, <1>5, <1>6, <1>7, <1>8, Untouched

LEMMA EnlistInv ==
  ASSUME IInv, NEW s \in Slots, Enlist(s)
  PROVE  IInv'
<1> USE DEF IInv
<1>1. /\ UNCHANGED <<log, owner, queue, refused, session, got, since>>
      /\ stage' = [stage EXCEPT ![s] = "listed"]
      /\ stage[s] = "opening"
  BY DEF Enlist
<1>2. TypeOK'
  BY <1>1 DEF TypeOK, Stages, Numbers
<1>3. Channels' /\ Unread'
  BY <1>1 DEF Channels, Unread, HasGot, TypeOK
<1>4. Sessions'
  BY <1>1 DEF Sessions, Reads, HasGot, TypeOK
<1>. QED BY <1>1, <1>2, <1>3, <1>4, Untouched

LEMMA LeaveInv ==
  ASSUME IInv, NEW c \in Clients, Leave(c)
  PROVE  IInv'
<1> USE DEF IInv
<1>1. /\ UNCHANGED <<log, stage, owner, queue, refused, got, since>>
      /\ session' = [session EXCEPT ![c] = Nobody]
  BY DEF Leave, busVars
<1>2. TypeOK'
  BY <1>1 DEF TypeOK, Numbers
<1>3. Channels' /\ Unread'
  BY <1>1 DEF Channels, Unread, HasGot
<1>4. Sessions'
  BY <1>1, NobodyAssumption DEF Sessions, Reads, HasGot, TypeOK
<1>. QED BY <1>1, <1>2, <1>3, <1>4, Untouched

LEMMA NoticeInv ==
  ASSUME IInv, NEW s \in Slots, Notice(s)
  PROVE  IInv'
<1> USE DEF IInv
<1>1. /\ UNCHANGED <<log, owner, refused, session, got, since>>
      /\ stage'[s] \in {"closed", "gone"} /\ stage[s] \in {"opening", "listed"}
      /\ stage' \in [Slots -> Stages]
      /\ queue' = [queue EXCEPT ![s] = <<>>]
      /\ ~Reads(owner[s], s)
  BY DEF Notice, TypeOK, Stages
<1>2. \A t \in Slots : t # s => stage'[t] = stage[t] /\ queue'[t] = queue[t]
  BY DEF Notice, TypeOK
<1>3. TypeOK'
  <2>1. queue' \in [Slots -> Seq(Numbers)]
    BY <1>1 DEF TypeOK
  <2>2. \A t \in Slots : /\ Len(queue'[t]) <= Cap
                         /\ stage'[t] # "unused" => owner'[t] # Nobody
    BY <1>1, <1>2, CapAssumption DEF TypeOK
  <2>3. Numbers' = Numbers
    BY <1>1 DEF Numbers
  <2>4. /\ log' \in Seq(Targets)
        /\ owner' \in [Slots -> Clients \union {Nobody}]
        /\ refused' \in [Slots -> SUBSET Numbers']
        /\ session' \in [Clients -> Slots \union {Nobody}]
        /\ got' \in [Clients -> Seq([via : Slots, number : Numbers'])]
        /\ since' \in [Slots -> Numbers']
    BY <1>1, <2>3 DEF TypeOK
  <2>5. queue' \in [Slots -> Seq(Numbers')]
    BY <2>1, <2>3
  <2>6. stage' \in [Slots -> Stages]
    BY <1>1
  <2>. QED BY ONLY <2>2, <2>4, <2>5, <2>6 DEF TypeOK
<1>4. queue'[s] = <<>>
  BY <1>1 DEF TypeOK
<1>5. Channels'
  BY <1>1, <1>2, <1>4 DEF Channels
<1>6. Unread'
  <2> SUFFICES ASSUME NEW c \in Clients, NEW t \in Slots, NEW k \in Nat,
                      stage'[t] \in {"unused", "opening"}
               PROVE  ~HasGot(c, t, k)
    BY <1>1 DEF Unread, HasGot
  <2>1. stage[t] \in {"unused", "opening"}
    BY <1>1, <1>2
  <2>. QED BY <2>1 DEF Unread
<1>7. Sessions'
  <2> SUFFICES ASSUME NEW c \in Clients, NEW t \in Slots, Reads(c, t)
               PROVE  /\ owner[t] = c
                      /\ stage'[t] \in {"opening", "listed"}
                      /\ \A i \in DOMAIN queue'[t], k \in DOMAIN got[c] :
                           queue'[t][i] = Ready \/ got[c][k].number < queue'[t][i]
                      /\ HasGot(c, t, Ready) \/ (queue'[t] # <<>> /\ queue'[t][1] = Ready)
    BY <1>1 DEF Sessions, Reads, HasGot
  <2>1. t # s
    BY <1>1 DEF Sessions
  <2>2. stage'[t] = stage[t] /\ queue'[t] = queue[t]
    BY <1>2, <2>1
  <2>. QED BY ONLY Sessions, Reads(c, t), <2>2 DEF Sessions
<1>. QED BY <1>1, <1>3, <1>5, <1>6, <1>7, Untouched

LEMMA RestartInv ==
  ASSUME IInv, Restart
  PROVE  IInv'
<1> USE DEF IInv
<1>1. /\ UNCHANGED <<log, owner, refused, got, since>>
      /\ stage' = [s \in Slots |-> IF stage[s] = "unused" THEN "unused" ELSE "gone"]
      /\ queue' = [s \in Slots |-> <<>>]
      /\ session' = [c \in Clients |-> Nobody]
  BY DEF Restart
<1>2. TypeOK'
  <2>1. Numbers' = Numbers
    BY <1>1 DEF Numbers
  <2>2. queue' \in [Slots -> Seq(Numbers)] /\ \A s \in Slots : Len(queue'[s]) <= Cap
    BY <1>1, CapAssumption
  <2>3. stage' \in [Slots -> Stages] /\ session' \in [Clients -> Slots \union {Nobody}]
    BY <1>1 DEF Stages
  <2>4. \A s \in Slots : stage'[s] # "unused" => owner'[s] # Nobody
    BY <1>1 DEF TypeOK
  <2>. QED BY <1>1, <2>1, <2>2, <2>3, <2>4 DEF TypeOK
<1>3. Channels' /\ Unread'
  BY <1>1 DEF Channels, Unread, HasGot
<1>4. Sessions'
  BY <1>1, NobodyAssumption DEF Sessions, Reads
<1>. QED BY <1>1, <1>2, <1>3, <1>4, Untouched

\* What a dispatch does to the log and to one channel.
LEMMA SendEffect ==
  ASSUME IInv, NEW target \in Targets, Send(target)
  PROVE  /\ log' \in Seq(Targets)
         /\ Len(log') = Len(log) + 1
         /\ log'[Len(log) + 1] = target
         /\ \A k \in 1..Len(log) : log'[k] = log[k]
         /\ Numbers \subseteq Numbers' /\ Len(log) + 1 \in Numbers'
         /\ UNCHANGED <<owner, session, got, since>>
         /\ \A s \in Slots :
              \/ queue'[s] = queue[s]
              \/ /\ queue'[s] = Append(queue[s], Len(log) + 1)
                 /\ stage[s] = "listed" /\ Filter[owner[s]] \in {target, Every}
                 /\ Len(queue[s]) < Cap
         /\ \A s \in Slots : stage'[s] = stage[s] \/ (stage[s] = "closed" /\ stage'[s] = "gone")
<1>1. log \in Seq(Targets) /\ queue \in [Slots -> Seq(Numbers)]
  BY DEF IInv, TypeOK
<1>2. log' = Append(log, target)
  BY DEF Send
<1>3. \A s \in Slots : Len(queue[s]) \in Nat
  BY <1>1
<1>. QED BY <1>1, <1>2, <1>3, CapAssumption DEF Send, Counted, Addressed, Full, Numbers

LEMMA SendInv ==
  ASSUME IInv, NEW target \in Targets, Send(target)
  PROVE  IInv'
<1> USE DEF IInv
<1> DEFINE n == Len(log) + 1
<1>a. \A s \in Slots : queue[s] \in Seq(Numbers) /\ Len(queue[s]) <= Cap
  BY DEF TypeOK
<1>b. Len(log) \in Nat /\ Numbers \subseteq Nat /\ \A k \in Numbers : k < n
  BY DEF TypeOK, Numbers
<1>c. \A c \in Clients : got[c] \in Seq([via : Slots, number : Numbers])
  BY DEF TypeOK
<1>0. /\ \A s \in Slots : queue[s] \in Seq(Numbers) /\ Len(queue[s]) <= Cap
      /\ Len(log) \in Nat
      /\ \A c \in Clients : got[c] \in Seq([via : Slots, number : Numbers])
  BY <1>a, <1>b, <1>c
<1>1. TypeOK'
  <2>1. /\ queue' \in [Slots -> Seq(Numbers')]
        /\ \A s \in Slots : Len(queue'[s]) <= Cap
    <3>1. \A s \in Slots : queue'[s] \in Seq(Numbers') /\ Len(queue'[s]) <= Cap
      <4> TAKE s \in Slots
      <4>1. queue[s] \in Seq(Numbers')
        BY <1>0, SendEffect DEF Numbers
      <4>2. CASE queue'[s] = queue[s]
        BY <1>0, <4>1, <4>2
      <4>3. CASE queue'[s] = Append(queue[s], n) /\ Len(queue[s]) < Cap
        <5>1. Len(queue'[s]) = Len(queue[s]) + 1
          BY <4>1, <4>3
        <5>2. Len(queue[s]) \in Nat
          BY <4>1
        <5>. QED BY <4>1, <4>3, <5>1, <5>2, SendEffect, CapAssumption
      <4>. QED BY <4>2, <4>3, SendEffect
    <3>2. DOMAIN queue' = Slots /\ queue' = [s \in Slots |-> queue'[s]]
      BY DEF Send
    <3>. QED BY <3>1, <3>2
  <2>2. refused' \in [Slots -> SUBSET Numbers']
    <3>1. refused \in [Slots -> SUBSET Numbers']
      BY SendEffect DEF TypeOK
    <3>. QED BY <3>1, SendEffect DEF Send
  <2>3. got' \in [Clients -> Seq([via : Slots, number : Numbers'])]
    <3>1. [via : Slots, number : Numbers] \subseteq [via : Slots, number : Numbers']
      BY SendEffect
    <3>2. \A c \in Clients : got[c] \in Seq([via : Slots, number : Numbers'])
      <4> TAKE c \in Clients
      <4>1. got[c] \in Seq([via : Slots, number : Numbers])
        BY <1>0
      <4>. QED BY ONLY <3>1, <4>1, SeqMono
    <3>. QED BY <3>2, SendEffect DEF TypeOK
  <2>4. stage' \in [Slots -> Stages]
    BY DEF Send, TypeOK, Stages
  <2>5. since' \in [Slots -> Numbers']
    BY SendEffect DEF TypeOK
  <2>6. \A s \in Slots : stage'[s] # "unused" => owner'[s] # Nobody
    BY SendEffect DEF TypeOK
  <2>. QED BY <2>1, <2>2, <2>3, <2>4, <2>5, <2>6, SendEffect DEF TypeOK
<1>2. \A s \in Slots : \A i \in DOMAIN queue[s] : queue[s][i] \in Nat /\ queue[s][i] < n
  BY <1>0 DEF Numbers
<1>3. \A c \in Clients : \A k \in DOMAIN got[c] : got[c][k].number \in Nat /\ got[c][k].number < n
  <2>1. \A c \in Clients : \A k \in DOMAIN got[c] : got[c][k] \in [via : Slots, number : Numbers]
    BY <1>0, SeqElement
  <2>. QED BY <1>b, <2>1
<1>4. Channels'
  <2> SUFFICES ASSUME NEW s \in Slots
               PROVE  /\ \A i, j \in DOMAIN queue'[s] : i < j => queue'[s][i] < queue'[s][j]
                      /\ \A i \in DOMAIN queue'[s] :
                           queue'[s][i] = Ready \/ Filter[owner[s]] \in {log'[queue'[s][i]], Every}
                      /\ stage'[s] = "opening" => queue'[s] = <<Ready>>
                      /\ stage'[s] \in {"unused", "closed", "gone"} => queue'[s] = <<>>
    BY SendEffect DEF Channels
  <2>1. \A i \in DOMAIN queue[s] :
          queue[s][i] = Ready \/ Filter[owner[s]] \in {log'[queue[s][i]], Every}
    <3> TAKE i \in DOMAIN queue[s]
    <3>1. queue[s][i] = Ready \/ queue[s][i] \in 1..Len(log)
      BY <1>0, <1>2 DEF Ready
    <3>. QED BY <3>1, SendEffect DEF Channels
  <2>2. CASE queue'[s] = queue[s]
    BY <2>1, <2>2, SendEffect DEF Channels
  <2>3. CASE /\ queue'[s] = Append(queue[s], n)
             /\ stage[s] = "listed" /\ Filter[owner[s]] \in {target, Every}
    <3>1. /\ DOMAIN queue'[s] = 1..(Len(queue[s]) + 1)
          /\ DOMAIN queue[s] = 1..Len(queue[s]) /\ Len(queue[s]) \in Nat
          /\ \A i \in 1..Len(queue[s]) : queue'[s][i] = queue[s][i]
          /\ queue'[s][Len(queue[s]) + 1] = n
      BY <1>0, <2>3
    <3>2. stage'[s] = "listed"
      BY <2>3, SendEffect
    <3>3. \A i, j \in DOMAIN queue'[s] : i < j => queue'[s][i] < queue'[s][j]
      BY <1>2, <3>1 DEF Channels
    <3>4. \A i \in DOMAIN queue'[s] :
            queue'[s][i] = Ready \/ Filter[owner[s]] \in {log'[queue'[s][i]], Every}
      BY <2>1, <2>3, <3>1, SendEffect
    <3>. QED BY <3>2, <3>3, <3>4
  <2>. QED BY <2>2, <2>3, SendEffect
<1>5. Unread'
  <2>1. \A d \in Clients, t \in Slots, k \in Nat : HasGot(d, t, k)' <=> HasGot(d, t, k)
    BY SendEffect DEF HasGot
  <2>2. \A t \in Slots : stage'[t] \in {"unused", "opening"} => stage[t] \in {"unused", "opening"}
    BY SendEffect
  <2>. QED BY <2>1, <2>2 DEF Unread
<1>6. Sessions'
  <2> SUFFICES ASSUME NEW c \in Clients, NEW s \in Slots, Reads(c, s)
               PROVE  /\ owner[s] = c
                      /\ stage'[s] \in {"opening", "listed"}
                      /\ \A i \in DOMAIN queue'[s], k \in DOMAIN got[c] :
                           queue'[s][i] = Ready \/ got[c][k].number < queue'[s][i]
                      /\ HasGot(c, s, Ready) \/ (queue'[s] # <<>> /\ queue'[s][1] = Ready)
    BY SendEffect DEF Sessions, Reads, HasGot
  <2>1. CASE queue'[s] = queue[s]
    BY <2>1, SendEffect DEF Sessions
  <2>2. CASE queue'[s] = Append(queue[s], n)
    <3>1. /\ DOMAIN queue'[s] = 1..(Len(queue[s]) + 1)
          /\ DOMAIN queue[s] = 1..Len(queue[s]) /\ Len(queue[s]) \in Nat
          /\ \A i \in 1..Len(queue[s]) : queue'[s][i] = queue[s][i]
          /\ queue'[s][Len(queue[s]) + 1] = n
          /\ queue'[s] # <<>>
          /\ queue[s] # <<>> => 1 \in 1..Len(queue[s])
      <4>1. queue[s] \in Seq(Nat) /\ n \in Nat
        <5>1. queue[s] \in Seq(Numbers) /\ Numbers \subseteq Nat /\ n \in Nat
          BY <1>0, <1>b
        <5>. QED BY ONLY <5>1, SeqMono
      <4>2. queue'[s] \in Seq(Nat) /\ Len(queue'[s]) = Len(queue[s]) + 1
        BY <2>2, <4>1
      <4>3. DOMAIN queue'[s] = 1..(Len(queue[s]) + 1) /\ DOMAIN queue[s] = 1..Len(queue[s])
        BY <4>1, <4>2
      <4>4. /\ \A i \in 1..Len(queue[s]) : queue'[s][i] = queue[s][i]
            /\ queue'[s][Len(queue[s]) + 1] = n
        BY <2>2, <4>1
      <4>5. queue[s] # <<>> => 1 \in 1..Len(queue[s])
        BY <4>1
      <4>6. queue'[s] # <<>> /\ Len(queue[s]) \in Nat
        BY <4>1, <4>2
      <4>. QED BY <4>3, <4>4, <4>5, <4>6
    <3>2. \A i \in DOMAIN queue'[s], k \in DOMAIN got[c] :
            queue'[s][i] = Ready \/ got[c][k].number < queue'[s][i]
      BY <1>3, <3>1 DEF Sessions
    <3>. QED BY <3>1, <3>2, SendEffect DEF Sessions
  <2>. QED BY <2>1, <2>2, SendEffect
<1>7. InOrder' /\ ReadyFirst'
  BY SendEffect DEF InOrder, ReadyFirst, Later
<1>8. OnlyAddressed'
  <2> SUFFICES ASSUME NEW c \in Clients, NEW i \in DOMAIN got[c]
               PROVE  got[c][i].number = Ready \/ Filter[c] \in {log'[got[c][i].number], Every}
    BY SendEffect DEF OnlyAddressed
  <2>1. got[c][i].number = Ready \/ got[c][i].number \in 1..Len(log)
    BY <1>0, <1>3 DEF Ready
  <2>. QED BY <2>1, SendEffect DEF OnlyAddressed
<1>. QED BY <1>1, <1>4, <1>5, <1>6, <1>7, <1>8

LEMMA PullInv ==
  ASSUME IInv, NEW s \in Slots, Pull(s)
  PROVE  IInv'
<1> USE DEF IInv
<1> DEFINE n == Head(queue[s])
           c == owner[s]
<1>0. /\ queue[s] \in Seq(Numbers) /\ queue[s] # <<>> /\ stage[s] = "listed"
      /\ queue' = [queue EXCEPT ![s] = Tail(queue[s])]
      /\ UNCHANGED <<log, stage, owner, refused, session>>
  BY DEF Pull, TypeOK
<1>1. /\ n \in Numbers /\ n = queue[s][1]
      /\ Tail(queue[s]) \in Seq(Numbers)
      /\ Len(queue[s]) \in Nat \ {0}
      /\ Len(Tail(queue[s])) = Len(queue[s]) - 1
      /\ DOMAIN queue[s] = 1..Len(queue[s])
      /\ DOMAIN Tail(queue[s]) = 1..(Len(queue[s]) - 1)
      /\ \A i \in 1..(Len(queue[s]) - 1) : Tail(queue[s])[i] = queue[s][i + 1]
  BY <1>0
<1>2. /\ queue'[s] = Tail(queue[s])
      /\ \A t \in Slots : t # s => queue'[t] = queue[t]
  BY <1>0 DEF TypeOK
<1>3. c \in Clients
  BY <1>0 DEF TypeOK
<1>4. \A i \in DOMAIN queue'[s] : queue'[s][i] \in Nat /\ n < queue'[s][i]
                                /\ i + 1 \in DOMAIN queue[s] /\ queue'[s][i] = queue[s][i + 1]
  <2> TAKE i \in DOMAIN queue'[s]
  <2>1. /\ i \in 1..(Len(queue[s]) - 1) /\ queue'[s][i] = queue[s][i + 1]
        /\ 1 \in DOMAIN queue[s] /\ i + 1 \in DOMAIN queue[s] /\ 1 < i + 1
    BY <1>1, <1>2
  <2>2. queue[s][1] < queue[s][i + 1]
    BY <2>1 DEF Channels
  <2>3. queue[s][i + 1] \in Nat
    BY <1>0, <2>1 DEF Numbers
  <2>. QED BY <1>1, <2>1, <2>2, <2>3
<1>5. Channels'
  <2>1. \A i, j \in DOMAIN queue'[s] : i < j => queue'[s][i] < queue'[s][j]
    <3> TAKE i, j \in DOMAIN queue'[s]
    <3>1. i \in Nat /\ j \in Nat
      BY <1>1, <1>2
    <3>. QED BY <1>4, <3>1 DEF Channels
  <2>. QED BY <1>0, <1>2, <1>4, <2>1 DEF Channels
<1>6. CASE ~Reads(c, s)
  <2>1. UNCHANGED <<got, since>>
    BY <1>6 DEF Pull, Deliver
  <2>2. TypeOK'
    <3>1. queue' \in [Slots -> Seq(Numbers)]
      BY <1>0, <1>1 DEF TypeOK
    <3>2. \A t \in Slots : Len(queue'[t]) <= Cap
      BY <1>1, <1>2, CapAssumption DEF TypeOK
    <3>. QED BY <1>0, <2>1, <3>1, <3>2 DEF TypeOK, Numbers
  <2>3. Unread'
    BY <1>0, <2>1 DEF Unread, HasGot
  <2>4. Sessions'
    BY <1>0, <1>2, <1>6, <2>1 DEF Sessions, Reads, HasGot
  <2>. QED BY <1>0, <1>5, <2>1, <2>2, <2>3, <2>4, Untouched
<1>7. CASE Reads(c, s)
  <2> DEFINE item == [via |-> s, number |-> n]
  <2>1. /\ got' = [got EXCEPT ![c] = Append(got[c], item)]
        /\ since' \in [Slots -> Numbers]
    <3>1. /\ got' = [got EXCEPT ![c] = Append(@, item)]
          /\ since' = IF n = Ready THEN [since EXCEPT ![s] = Len(log)] ELSE since
      BY <1>7 DEF Pull, Deliver
    <3>2. Len(log) \in Numbers /\ since \in [Slots -> Numbers]
      BY DEF TypeOK, Numbers
    <3>3. got' = [got EXCEPT ![c] = Append(got[c], item)]
      BY <3>1
    <3>. QED BY <3>1, <3>2, <3>3
  <2>2. /\ got[c] \in Seq([via : Slots, number : Numbers])
        /\ item \in [via : Slots, number : Numbers]
    BY <1>1, <1>3 DEF TypeOK
  <2>3. /\ got'[c] = Append(got[c], item)
        /\ \A d \in Clients : d # c => got'[d] = got[d]
    BY <1>3, <2>1 DEF TypeOK
  <2>4. /\ Len(got[c]) \in Nat /\ DOMAIN got[c] = 1..Len(got[c])
        /\ DOMAIN got'[c] = 1..(Len(got[c]) + 1)
        /\ \A k \in 1..Len(got[c]) : got'[c][k] = got[c][k]
        /\ got'[c][Len(got[c]) + 1] = item
    BY <2>2, <2>3
  <2>5. TypeOK'
    <3>1. queue' \in [Slots -> Seq(Numbers)]
      BY <1>0, <1>1 DEF TypeOK
    <3>2. \A t \in Slots : Len(queue'[t]) <= Cap
      BY <1>1, <1>2, CapAssumption DEF TypeOK
    <3>3. got' \in [Clients -> Seq([via : Slots, number : Numbers])]
      <4>1. Append(got[c], item) \in Seq([via : Slots, number : Numbers])
        BY <2>2
      <4>. QED BY <1>3, <2>1, <4>1 DEF TypeOK
    <3>. QED BY <1>0, <2>1, <3>1, <3>2, <3>3 DEF TypeOK, Numbers
  <2>6. \A k \in DOMAIN got[c] : n = Ready \/ got[c][k].number < n
    BY <1>1, <1>3, <1>7 DEF Sessions
  <2>7. \A d \in Clients, t \in Slots, k \in Nat :
          HasGot(d, t, k)' <=> HasGot(d, t, k) \/ (d = c /\ t = s /\ k = n)
    <3> TAKE d \in Clients, t \in Slots, k \in Nat
    <3>1. CASE d = c
      <4>. DEFINE L == Len(got[c])
                  read == [via |-> t, number |-> k]
      <4>1. HasGot(d, t, k) <=> \E i \in 1..L : got[c][i] = read
        BY <2>4, <3>1 DEF HasGot
      <4>2. HasGot(d, t, k)' <=> \E i \in 1..(L + 1) : got'[c][i] = read
        BY <2>4, <3>1 DEF HasGot
      <4>3. item = read <=> t = s /\ k = n
        OBVIOUS
      <4>4. /\ L \in Nat
            /\ \A i \in 1..L : got'[c][i] = got[c][i]
            /\ got'[c][L + 1] = item
        BY <2>4
      <4>5. (\E i \in 1..(L + 1) : got'[c][i] = read)
              <=> (\E i \in 1..L : got[c][i] = read) \/ item = read
        <5>. HIDE DEF L, read, item
        <5>. QED BY ONLY <4>4
      <4>. QED BY ONLY <3>1, <4>1, <4>2, <4>3, <4>5
    <3>2. CASE d # c
      BY <2>3, <3>2 DEF HasGot
    <3>. QED BY <3>1, <3>2
  <2>8. Unread'
    BY <1>0, <2>7 DEF Unread
  <2>9. Sessions'
    <3> SUFFICES ASSUME NEW d \in Clients, NEW t \in Slots, Reads(d, t)
                 PROVE  /\ owner[t] = d
                        /\ stage[t] \in {"opening", "listed"}
                        /\ \A i \in DOMAIN queue'[t], k \in DOMAIN got'[d] :
                             queue'[t][i] = Ready \/ got'[d][k].number < queue'[t][i]
                        /\ HasGot(d, t, Ready)' \/ (queue'[t] # <<>> /\ queue'[t][1] = Ready)
      BY <1>0 DEF Sessions, Reads, HasGot
    <3>1. CASE t = s
      <4>1. d = c
        BY <3>1 DEF Sessions
      <4>2. \A i \in DOMAIN queue'[s], k \in DOMAIN got'[c] :
              queue'[s][i] = Ready \/ got'[c][k].number < queue'[s][i]
        <5> TAKE i \in DOMAIN queue'[s], k \in DOMAIN got'[c]
        <5>1. CASE k = Len(got[c]) + 1
          BY <1>4, <2>4, <5>1
        <5>2. CASE k \in DOMAIN got[c]
          BY <1>3, <1>4, <1>7, <2>4, <5>2 DEF Sessions
        <5>. QED BY <2>4, <5>1, <5>2
      <4>3. HasGot(c, s, Ready)'
        <5>1. HasGot(c, s, Ready) \/ n = Ready
          BY <1>1, <1>3, <1>7 DEF Sessions
        <5>2. CASE HasGot(c, s, Ready)
          BY <1>0, <2>4, <5>2 DEF HasGot
        <5>3. CASE n = Ready
          BY <1>0, <2>4, <5>3 DEF HasGot
        <5>. QED BY <5>1, <5>2, <5>3
      <4>. QED BY <1>0, <1>3, <3>1, <4>1, <4>2, <4>3
    <3>2. CASE t # s
      <4>1. d # c
        BY <1>7, <3>2 DEF Reads
      <4>. QED BY <1>2, <2>3, <2>7, <3>2, <4>1 DEF Sessions, Ready
    <3>. QED BY <3>1, <3>2
  <2>10. InOrder'
    <3> SUFFICES ASSUME NEW d \in Clients, NEW i \in DOMAIN got'[d], NEW j \in DOMAIN got'[d],
                        i < j
                 PROVE  Later(got'[d][i].number, got'[d][j].number)
      BY DEF InOrder, Later
    <3>1. CASE d # c
      BY <2>3, <3>1 DEF InOrder
    <3>2. CASE d = c /\ j \in DOMAIN got[c]
      <4>1. i \in DOMAIN got[c] /\ got'[c][i] = got[c][i] /\ got'[c][j] = got[c][j]
        BY <2>4, <3>2
      <4>2. Later(got[c][i].number, got[c][j].number)
        BY <1>3, <3>2, <4>1 DEF InOrder
      <4>. QED BY <3>2, <4>1, <4>2
    <3>3. CASE d = c /\ j = Len(got[c]) + 1
      <4>1. i \in DOMAIN got[c] /\ got'[c][i] = got[c][i] /\ got'[c][j].number = n
        BY <2>4, <3>3
      <4>. QED BY <2>6, <3>3, <4>1 DEF Later
    <3>. QED BY <2>4, <3>1, <3>2, <3>3
  <2>11. OnlyAddressed'
    <3> SUFFICES ASSUME NEW d \in Clients, NEW i \in DOMAIN got'[d]
                 PROVE  got'[d][i].number = Ready \/ Filter[d] \in {log[got'[d][i].number], Every}
      BY <1>0 DEF OnlyAddressed
    <3>1. CASE d # c \/ i \in DOMAIN got[c]
      BY <2>3, <2>4, <3>1 DEF OnlyAddressed
    <3>2. CASE d = c /\ i = Len(got[c]) + 1
      BY <1>1, <2>4, <3>2 DEF Channels
    <3>. QED BY <2>4, <3>1, <3>2
  <2>12. ReadyFirst'
    <3> SUFFICES ASSUME NEW d \in Clients, NEW i \in DOMAIN got'[d], got'[d][i].number # Ready
                 PROVE  \E j \in 1..(i - 1) : got'[d][j] = [via |-> got'[d][i].via, number |-> Ready]
      BY DEF ReadyFirst
    <3>1. CASE d # c
      BY <2>3, <3>1 DEF ReadyFirst
    <3>2. CASE d = c /\ i \in DOMAIN got[c]
      <4>1. PICK j \in 1..(i - 1) : got[c][j] = [via |-> got[c][i].via, number |-> Ready]
        BY <1>3, <2>4, <3>2 DEF ReadyFirst
      <4>2. j \in 1..Len(got[c]) /\ i \in 1..Len(got[c])
        BY <2>4, <3>2
      <4>3. got'[d][j] = got[c][j] /\ got'[d][i] = got[c][i]
        BY <2>4, <3>2, <4>2
      <4>. QED BY ONLY <4>1, <4>3
    <3>3. CASE d = c /\ i = Len(got[c]) + 1
      <4>1. HasGot(c, s, Ready)
        BY <1>1, <1>3, <1>7, <2>4, <3>3 DEF Sessions
      <4>. QED BY <2>4, <3>3, <4>1 DEF HasGot
    <3>. QED BY <2>4, <3>1, <3>2, <3>3
  <2>. QED BY <1>5, <2>5, <2>8, <2>9, <2>10, <2>11, <2>12
<1>. QED BY <1>6, <1>7

LEMMA NextIInv == IInv /\ [Next]_vars => IInv'
<1> SUFFICES ASSUME IInv, [Next]_vars PROVE IInv'
  OBVIOUS
<1>1. CASE UNCHANGED vars
  <2>1. /\ UNCHANGED <<log, stage, owner, queue, refused, session, got, since>>
        /\ Numbers' = Numbers
    BY <1>1 DEF vars, busVars, Numbers
  <2>2. TypeOK'
    BY <2>1 DEF IInv, TypeOK
  <2>3. Channels' /\ Sessions' /\ Unread'
    BY <2>1 DEF IInv, Channels, Sessions, Unread, Reads, HasGot
  <2>. QED BY <2>1, <2>2, <2>3, Untouched DEF IInv
<1>. QED BY <1>1, OpenInv, EnlistInv, LeaveInv, NoticeInv, RestartInv, SendInv, PullInv
         DEF Next

LEMMA Invariance == Spec => []IInv
BY InitIInv, NextIInv, PTL DEF Spec

\* No channel ever holds more than its capacity, and the types hold.
THEOREM BusTypes == Spec => []TypeOK
<1>1. IInv => TypeOK
  BY DEF IInv
<1>. QED BY Invariance, <1>1, PTL

\* A client reads each command at most once and in the order of dispatch,
\* across every subscription it ever holds (service.rs 172-197).
THEOREM Ordered == Spec => []InOrder
<1>1. IInv => InOrder
  BY DEF IInv
<1>. QED BY Invariance, <1>1, PTL

\* A client reads only commands that its filter asks for.
THEOREM Private == Spec => []OnlyAddressed
<1>1. IInv => OnlyAddressed
  BY DEF IInv
<1>. QED BY Invariance, <1>1, PTL

\* The greeting is the first message of every stream.
THEOREM Greeted == Spec => []ReadyFirst
<1>1. IInv => ReadyFirst
  BY DEF IInv
<1>. QED BY Invariance, <1>1, PTL

\* All three together: what a client reads over all its streams.
THEOREM ReadsAreRight == Spec => []ReadsRight
<1>1. InOrder /\ OnlyAddressed /\ ReadyFirst => ReadsRight
  BY DEF ReadsRight
<1>. QED BY Ordered, Private, Greeted, <1>1, PTL

-----------------------------------------------------------------------------
(* Nothing dispatched to a greeted client is lost, except to overflow.     *)

Waits(s, n) == \E i \in DOMAIN queue[s] : queue[s][i] = n
Accounted(c, s) ==
  \A n \in (since[s] + 1)..Len(log) :
    Filter[c] \in {log[n], Every} => HasGot(c, s, n) \/ Waits(s, n) \/ n \in refused[s]

LEMMA CompleteDef ==
  Complete <=> \A c \in Clients, s \in Slots :
                 (Reads(c, s) /\ HasGot(c, s, Ready)) => Accounted(c, s)
BY DEF Complete, Accounted, Waits

\* A step that dispatches, refuses and reads nothing, and keeps the channels of
\* the clients that read theirs already.
LEMMA CompleteKept ==
  ASSUME Complete, UNCHANGED <<log, refused, got, since>>,
         \A c \in Clients, s \in Slots : (Reads(c, s)' /\ HasGot(c, s, Ready)) =>
           Reads(c, s) /\ queue'[s] = queue[s]
  PROVE  Complete'
BY DEF Complete, HasGot

LEMMA CompleteSend ==
  ASSUME IInv, Complete, NEW target \in Targets, Send(target)
  PROVE  Complete'
<1> DEFINE m == Len(log) + 1
<1> SUFFICES ASSUME NEW c \in Clients, NEW s \in Slots, Reads(c, s)', HasGot(c, s, Ready)',
                    NEW n \in (since'[s] + 1)..Len(log'), Filter[c] \in {log'[n], Every}
             PROVE  HasGot(c, s, n)' \/ (\E i \in DOMAIN queue'[s] : queue'[s][i] = n)
                      \/ n \in refused'[s]
  BY DEF Complete
<1>1. /\ Reads(c, s) /\ HasGot(c, s, Ready) /\ UNCHANGED <<got, since, owner>>
      /\ \A k \in Nat : HasGot(c, s, k)' <=> HasGot(c, s, k)
  BY SendEffect DEF Reads, HasGot
<1>2. stage[s] = "listed" /\ owner[s] = c
  BY <1>1 DEF IInv, Sessions, Unread, Ready
<1>3. /\ queue[s] \in Seq(Nat) /\ m \in Nat /\ Len(log) \in Nat
      /\ since[s] \in Nat
  <2>1. queue[s] \in Seq(Numbers) /\ Numbers \subseteq Nat /\ m \in Nat /\ Len(log) \in Nat
        /\ since[s] \in Nat
    BY DEF IInv, TypeOK, Numbers
  <2>. QED BY ONLY <2>1, SeqMono
<1>4. /\ queue'[s] = IF s \in Counted(target) /\ ~Full(s) THEN Append(queue[s], m) ELSE queue[s]
      /\ refused'[s] = IF s \in Counted(target) /\ Full(s) THEN refused[s] \union {m} ELSE refused[s]
  BY DEF Send
<1>5. CASE n = m
  <2>1. s \in Counted(target)
    BY <1>2, <1>5, SendEffect DEF Counted, Addressed
  <2>2. CASE Full(s)
    BY <1>4, <1>5, <2>1, <2>2
  <2>3. CASE ~Full(s)
    <3>1. queue'[s] = Append(queue[s], m)
      BY <1>4, <2>1, <2>3
    <3>2. Len(queue[s]) + 1 \in DOMAIN queue'[s] /\ queue'[s][Len(queue[s]) + 1] = m
      BY <1>3, <3>1
    <3>. QED BY <1>5, <3>2
  <2>. QED BY <2>2, <2>3
<1>6. CASE n # m
  <2>1. n \in (since[s] + 1)..Len(log) /\ log'[n] = log[n] /\ n \in Nat
    BY <1>1, <1>3, <1>6, SendEffect
  <2>2. HasGot(c, s, n) \/ (\E i \in DOMAIN queue[s] : queue[s][i] = n) \/ n \in refused[s]
    BY <1>1, <2>1 DEF Complete
  <2>3. CASE HasGot(c, s, n)
    BY <1>1, <2>1, <2>3
  <2>4. ASSUME NEW i \in DOMAIN queue[s], queue[s][i] = n
        PROVE  \E k \in DOMAIN queue'[s] : queue'[s][k] = n
    <3>1. i \in DOMAIN queue'[s] /\ queue'[s][i] = queue[s][i]
      BY <1>3, <1>4
    <3>. QED BY <2>4, <3>1
  <2>5. CASE n \in refused[s]
    BY <1>4, <2>5
  <2>. QED BY <2>2, <2>3, <2>4, <2>5
<1>. QED BY <1>5, <1>6

LEMMA CompletePull ==
  ASSUME IInv, Complete, NEW s \in Slots, Pull(s)
  PROVE  Complete'
<1> DEFINE h == Head(queue[s])
<1> SUFFICES ASSUME NEW c \in Clients, NEW t \in Slots, Reads(c, t)', HasGot(c, t, Ready)'
             PROVE  \A n \in (since'[t] + 1)..Len(log) : Filter[c] \in {log[n], Every} =>
                      \/ HasGot(c, t, n)'
                      \/ \E i \in DOMAIN queue'[t] : queue'[t][i] = n
                      \/ n \in refused[t]
  BY DEF Complete, Pull
<1>1. /\ UNCHANGED <<log, stage, owner, refused, session>> /\ Reads(c, t)
      /\ queue[s] \in Seq(Numbers) /\ queue[s] # <<>>
      /\ queue' = [queue EXCEPT ![s] = Tail(queue[s])]
  BY DEF Pull, IInv, TypeOK, Reads
<1>2. owner[t] = c
  BY <1>1 DEF IInv, Sessions
<1>3. CASE t # s
  <2>1. queue'[t] = queue[t]
    BY <1>1, <1>3 DEF IInv, TypeOK
  <2>2. got'[c] = got[c] /\ since'[t] = since[t]
    <3>1. CASE UNCHANGED <<got, since>>
      BY <3>1
    <3>2. CASE Reads(owner[s], s)
      <4>1. owner[s] # c
        BY <1>1, <1>3, <3>2 DEF Reads
      <4>. QED BY <1>3, <3>2, <4>1 DEF Pull, Deliver, IInv, TypeOK
    <3>. QED BY <3>1, <3>2 DEF Pull, Deliver
  <2>3. \A n \in Nat : HasGot(c, t, n)' <=> HasGot(c, t, n)
    BY <2>2 DEF HasGot
  <2>4. HasGot(c, t, Ready)
    BY <2>3 DEF Ready
  <2>5. since[t] \in Nat /\ Len(log) \in Nat
    BY DEF IInv, TypeOK, Numbers
  <2>6. Accounted(c, t)
    BY <1>1, <2>4, CompleteDef
  <2>. QED BY ONLY <2>1, <2>2, <2>3, <2>5, <2>6 DEF Accounted, Waits
<1>4. CASE t = s
  <2> DEFINE item == [via |-> s, number |-> h]
  <2>1. /\ got'[c] = Append(got[c], item)
        /\ since' = IF h = Ready THEN [since EXCEPT ![s] = Len(log)] ELSE since
    BY <1>1, <1>2, <1>4 DEF Pull, Deliver, IInv, TypeOK
  <2>2. got[c] \in Seq([via : Slots, number : Numbers]) /\ item \in [via : Slots, number : Numbers]
    <3>1. h \in Numbers
      BY <1>1
    <3>. QED BY <3>1 DEF IInv, TypeOK
  <2>3. /\ DOMAIN got[c] = 1..Len(got[c]) /\ Len(got[c]) \in Nat
        /\ DOMAIN got'[c] = 1..(Len(got[c]) + 1)
        /\ \A k \in 1..Len(got[c]) : got'[c][k] = got[c][k]
        /\ got'[c][Len(got[c]) + 1] = item
    BY <2>1, <2>2
  <2>4. \A n \in Nat : HasGot(c, s, n)' <=> HasGot(c, s, n) \/ n = h
    <3> TAKE n \in Nat
    <3>1. HasGot(c, s, n)' => HasGot(c, s, n) \/ n = h
      BY <2>3 DEF HasGot
    <3>2. HasGot(c, s, n) => HasGot(c, s, n)'
      BY <2>3 DEF HasGot
    <3>3. n = h => HasGot(c, s, n)'
      BY <2>3 DEF HasGot
    <3>. QED BY <3>1, <3>2, <3>3
  <2>5. since[s] \in Nat /\ Len(log) \in Nat /\ since \in [Slots -> Numbers]
    BY DEF IInv, TypeOK, Numbers
  <2>6. CASE h = Ready
    <3>1. since'[s] = Len(log)
      BY <2>1, <2>5, <2>6
    <3>. QED BY <1>4, <2>5, <3>1
  <2>7. CASE h # Ready
    <3>1. since'[s] = since[s] /\ HasGot(c, s, Ready)
      BY <1>4, <2>1, <2>4, <2>7 DEF Ready
    <3>2. \A n \in Nat : Waits(s, n) => n = h \/ Waits(s, n)'
      <4>1. queue'[s] = Tail(queue[s])
        BY <1>1 DEF IInv, TypeOK
      <4>2. /\ DOMAIN queue[s] = 1..Len(queue[s]) /\ Len(queue[s]) \in Nat
            /\ DOMAIN queue'[s] = 1..(Len(queue[s]) - 1)
            /\ \A i \in 1..(Len(queue[s]) - 1) : queue'[s][i] = queue[s][i + 1]
            /\ queue[s][1] = h
        <5>1. /\ DOMAIN queue[s] = 1..Len(queue[s]) /\ Len(queue[s]) \in Nat \ {0}
              /\ queue[s][1] = h
          BY <1>1
        <5>2. /\ Len(Tail(queue[s])) = Len(queue[s]) - 1
              /\ Tail(queue[s]) \in Seq(Numbers)
              /\ \A i \in 1..(Len(queue[s]) - 1) : Tail(queue[s])[i] = queue[s][i + 1]
          BY <1>1, <5>1
        <5>3. DOMAIN Tail(queue[s]) = 1..(Len(queue[s]) - 1)
          BY <5>2
        <5>. QED BY ONLY <4>1, <5>1, <5>2, <5>3
      <4>3. \A i \in DOMAIN queue[s] : i = 1 \/ (i - 1 \in DOMAIN queue'[s] /\ queue'[s][i - 1] = queue[s][i])
        BY <4>2
      <4>. QED BY <4>2, <4>3 DEF Waits
    <3>3. Accounted(c, s)
      BY <1>1, <1>4, <3>1, CompleteDef
    <3>4. \A n \in (since[s] + 1)..Len(log) : n \in Nat
      BY <2>5
    <3>5. \A n \in (since[s] + 1)..Len(log) : Filter[c] \in {log[n], Every} =>
            HasGot(c, s, n)' \/ Waits(s, n)' \/ n \in refused[s]
      BY <2>4, <3>2, <3>3, <3>4 DEF Accounted
    <3>. QED BY <1>4, <3>1, <3>5 DEF Waits
  <2>. QED BY <2>6, <2>7
<1>. QED BY <1>3, <1>4

LEMMA NextComplete == IInv /\ Complete /\ [Next]_vars => Complete'
<1> SUFFICES ASSUME IInv, Complete, [Next]_vars PROVE Complete'
  OBVIOUS
<1>1. CASE UNCHANGED vars
  BY <1>1, CompleteKept DEF vars, busVars, Reads
<1>2. ASSUME NEW c \in Clients, NEW s \in Slots, Open(c, s)
      PROVE  Complete'
  <2>1. ~HasGot(c, s, Ready) /\ stage[s] = "unused"
    BY <1>2 DEF Open, IInv, Unread, Ready
  <2>2. \A d \in Clients, t \in Slots : (Reads(d, t)' /\ HasGot(d, t, Ready)) =>
          Reads(d, t) /\ queue'[t] = queue[t]
    <3> SUFFICES ASSUME NEW d \in Clients, NEW t \in Slots, Reads(d, t)', HasGot(d, t, Ready)
                 PROVE  Reads(d, t) /\ queue'[t] = queue[t]
      OBVIOUS
    <3>1. d # c
      BY <1>2, <2>1 DEF Open, Reads, IInv, TypeOK
    <3>2. Reads(d, t)
      BY <1>2, <3>1 DEF Open, Reads, IInv, TypeOK
    <3>3. t # s
      BY <2>1, <3>2 DEF IInv, Sessions
    <3>. QED BY <1>2, <3>2, <3>3 DEF Open, IInv, TypeOK
  <2>. QED BY <1>2, <2>2, CompleteKept DEF Open
<1>3. ASSUME NEW s \in Slots, Enlist(s)
      PROVE  Complete'
  BY <1>3, CompleteKept DEF Enlist, Reads
<1>4. ASSUME NEW s \in Slots, Notice(s)
      PROVE  Complete'
  <2>1. \A d \in Clients, t \in Slots : Reads(d, t)' => Reads(d, t) /\ queue'[t] = queue[t]
    BY <1>4 DEF Notice, Reads, IInv, TypeOK, Sessions
  <2>. QED BY <1>4, <2>1, CompleteKept DEF Notice
<1>5. ASSUME NEW c \in Clients, Leave(c)
      PROVE  Complete'
  <2>1. \A d \in Clients, t \in Slots : Reads(d, t)' => Reads(d, t) /\ queue'[t] = queue[t]
    BY <1>5, NobodyAssumption DEF Leave, Reads, busVars, IInv, TypeOK
  <2>. QED BY <1>5, <2>1, CompleteKept DEF Leave, busVars
<1>6. CASE Restart
  <2>1. \A d \in Clients, t \in Slots : ~Reads(d, t)'
    BY <1>6, NobodyAssumption DEF Restart, Reads
  <2>. QED BY <1>6, <2>1, CompleteKept DEF Restart
<1>. QED BY <1>1, <1>2, <1>3, <1>4, <1>5, <1>6, CompleteSend, CompletePull DEF Next

\* Once greeted, a client that keeps its stream loses no command but those
\* that its full channel refused (service.rs 183-190).
THEOREM NothingLost == Spec => []Complete
<1>1. Init => Complete
  BY DEF Init, Complete, HasGot
<1>. QED BY Invariance, <1>1, NextComplete, PTL DEF Spec
=============================================================================
