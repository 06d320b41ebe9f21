------------------------ MODULE SocketLifecycleProofs ------------------------
(***************************************************************************)
(* Proofs about the socket file, for any number of instances: what the     *)
(* probe before the removal gives when starts and stops overlap, and that  *)
(* it gives everything when they do not.                                   *)
(***************************************************************************)
EXTENDS SocketLifecycle, TLAPS

LEMMA TypeInit == Init => TypeOK
BY DEF Init, TypeOK, Phases

LEMMA TypeStep == TypeOK /\ [Next]_vars => TypeOK'
<1> SUFFICES ASSUME TypeOK, [Next]_vars PROVE TypeOK'
  OBVIOUS
<1> USE DEF TypeOK, Goto, Phases
<1>1. ASSUME NEW i \in Instances, Start(i) PROVE TypeOK'
  BY <1>1 DEF Start, Disturb
<1>2. ASSUME NEW i \in Instances, Look(i) PROVE TypeOK'
  BY <1>2 DEF Look
<1>3. ASSUME NEW i \in Instances, Connect(i) PROVE TypeOK'
  BY <1>3 DEF Connect
<1>4. ASSUME NEW i \in Instances, RemoveStale(i) PROVE TypeOK'
  BY <1>4 DEF RemoveStale
<1>5. ASSUME NEW i \in Instances, Bind(i) PROVE TypeOK'
  BY <1>5 DEF Bind
<1>6. ASSUME NEW i \in Instances, BindFails(i) PROVE TypeOK'
  BY <1>6 DEF BindFails
<1>7. ASSUME NEW i \in Instances, Shutdown(i) PROVE TypeOK'
  BY <1>7 DEF Shutdown, Disturb
<1>8. ASSUME NEW i \in Instances, Stopping(i) PROVE TypeOK'
  BY <1>8 DEF Stopping, Close, RemoveOwn
<1>9. ASSUME NEW i \in Instances, Kill(i) PROVE TypeOK'
  BY <1>9 DEF Kill
<1>10. CASE UNCHANGED vars
  BY <1>10 DEF vars
<1> QED BY <1>1, <1>2, <1>3, <1>4, <1>5, <1>6, <1>7, <1>8, <1>9, <1>10 DEF Next, Starting

\* Type correctness, and that listeners are open from the bind to the end of
\* the gRPC task.
THEOREM SocketTypes == Spec => []TypeOK
BY TypeInit, TypeStep, PTL DEF Spec

-----------------------------------------------------------------------------
(* Starts and stops that overlap                                           *)

\* Who is about to remove a living socket found none, or none alive, before.
Probed ==
  \A i \in Instances : pc[i] = "remove" /\ file \in listening => file \in since[i]

LEMMA ProbedStep == TypeOK /\ Probed /\ [Next]_vars => Probed'
<1> SUFFICES ASSUME TypeOK, Probed, [Next]_vars,
                    NEW j \in Instances, (pc[j] = "remove" /\ file \in listening)'
             PROVE  (file \in since[j])'
  BY DEF Probed
<1> USE AbsentAssumption DEF TypeOK, Probed, Goto
<1>1. ASSUME NEW i \in Instances, Start(i) PROVE (file \in since[j])'
  BY <1>1 DEF Start, Disturb
<1>2. ASSUME NEW i \in Instances, Look(i) PROVE (file \in since[j])'
  BY <1>2 DEF Look
<1>3. ASSUME NEW i \in Instances, Connect(i) PROVE (file \in since[j])'
  BY <1>3 DEF Connect
<1>4. ASSUME NEW i \in Instances, RemoveStale(i) \/ RemoveOwn(i) PROVE (file \in since[j])'
  BY <1>4 DEF RemoveStale, RemoveOwn
<1>5. ASSUME NEW i \in Instances, Bind(i) PROVE (file \in since[j])'
  BY <1>5 DEF Bind
<1>6. ASSUME NEW i \in Instances, BindFails(i) \/ Shutdown(i) PROVE (file \in since[j])'
  BY <1>6 DEF BindFails, Shutdown
<1>7. ASSUME NEW i \in Instances, Close(i) \/ Kill(i) PROVE (file \in since[j])'
  BY <1>7 DEF Close, Kill
<1>8. CASE UNCHANGED vars
  BY <1>8 DEF vars
<1> QED BY <1>1, <1>2, <1>3, <1>4, <1>5, <1>6, <1>7, <1>8 DEF Next, Starting, Stopping

\* A start removes the socket of a living instance only if that instance has
\* bound it since the start looked for one (lib.rs 61-80).
THEOREM ProbeKept == Spec => ProbeHonoured
<1> DEFINE Step == \A i \in Instances : RemoveStale(i) /\ file \in listening => file \in since[i]
<1>1. Init => Probed
  BY DEF Init, Probed
<1>2. Probed /\ [Next]_vars => [Step]_vars
  BY DEF Probed, RemoveStale
<1> QED BY <1>1, <1>2, TypeInit, TypeStep, ProbedStep, PTL DEF Spec, ProbeHonoured

-----------------------------------------------------------------------------
(* Starts and stops one after the other                                    *)

\* While no two instances change at the same time, an instance that is about to
\* remove, to bind or to end is alone with a path that nobody serves.
Alone ==
  /\ \A i, j \in Changing : i = j
  /\ \A i \in Instances : pc[i] \in {"remove", "bind", "stopping", "closed"} => Serving = {}
  /\ \A i, j \in Serving : i = j
  /\ \A i \in Serving : file = i
  /\ \A i \in Instances : pc[i] = "bind" => file = Absent

LEMMA AloneStep == TypeOK /\ Alone /\ [Next]_vars /\ ~overlapped' => Alone'
<1> SUFFICES ASSUME TypeOK, Alone, [Next]_vars, ~overlapped' PROVE Alone'
  OBVIOUS
<1> USE AbsentAssumption DEF TypeOK, Alone, Changing, Serving, Goto, Phases
<1>1. ASSUME NEW i \in Instances, Start(i) PROVE Alone'
  <2>1. /\ Changing \subseteq {i} /\ pc[i] = "off" /\ pc' = [pc EXCEPT ![i] = "look"]
        /\ UNCHANGED <<file, listening, since>>
    BY <1>1 DEF Start, Disturb
  <2>2. Serving' = Serving /\ Changing' \subseteq {i}
    BY <2>1
  <2>3. \A j \in Instances : pc'[j] \notin {"remove", "bind", "stopping", "closed"}
    BY <2>1, <2>2
  <2> QED BY <2>1, <2>2, <2>3
<1>2. ASSUME NEW i \in Instances, Look(i) PROVE Alone'
  BY <1>2 DEF Look
<1>3. ASSUME NEW i \in Instances, Connect(i) PROVE Alone'
  BY <1>3 DEF Connect
<1>4. ASSUME NEW i \in Instances, RemoveStale(i) PROVE Alone'
  BY <1>4 DEF RemoveStale
<1>5. ASSUME NEW i \in Instances, Bind(i) PROVE Alone'
  <2>1. /\ Serving = {} /\ file' = i
        /\ pc[i] = "bind" /\ pc' = [pc EXCEPT ![i] = "serving"]
    BY <1>5 DEF Bind
  <2>2. \A j \in Instances : pc[j] \notin {"off", "serving"} => j = i
    BY <2>1
  <2>3. Serving' = {i} /\ Changing' = {}
    BY <2>1, <2>2
  <2> QED BY <2>1, <2>3
<1>6. ASSUME NEW i \in Instances, BindFails(i) PROVE Alone'
  BY <1>6 DEF BindFails
<1>7. ASSUME NEW i \in Instances, Shutdown(i) PROVE Alone'
  <2>1. /\ Changing \subseteq {i} /\ pc[i] = "serving" /\ pc' = [pc EXCEPT ![i] = "stopping"]
        /\ UNCHANGED <<file, listening, since>>
    BY <1>7 DEF Shutdown, Disturb
  <2>2. Serving' = {} /\ Changing' \subseteq {i}
    BY <2>1
  <2>3. \A j \in Instances : pc'[j] # "bind"
    BY <2>1
  <2> QED BY <2>2, <2>3
<1>8. ASSUME NEW i \in Instances, Stopping(i) PROVE Alone'
  <2>1. /\ Serving = {} /\ pc[i] \in {"stopping", "closed"}
        /\ pc' = [pc EXCEPT ![i] = "closed"] \/ pc' = [pc EXCEPT ![i] = "off"]
    BY <1>8 DEF Stopping, Close, RemoveOwn
  <2>2. \A j \in Instances : pc[j] \notin {"off", "serving"} => j = i
    BY <2>1
  <2>3. Serving' = {} /\ Changing' \subseteq {i}
    BY <2>1, <2>2
  <2>4. \A j \in Instances : pc'[j] # "bind"
    BY <2>1, <2>2
  <2> QED BY <2>3, <2>4
<1>9. ASSUME NEW i \in Instances, Kill(i) PROVE Alone'
  BY <1>9 DEF Kill
<1>10. CASE UNCHANGED vars
  BY <1>10 DEF vars
<1> QED BY <1>1, <1>2, <1>3, <1>4, <1>5, <1>6, <1>7, <1>8, <1>9, <1>10 DEF Next, Starting

\* What was overlapped once stays so.
LEMMA OverlapStays == TypeOK /\ [Next]_vars /\ overlapped => overlapped'
BY DEF TypeOK, Next, Starting, Stopping, Start, Look, Connect, RemoveStale, Bind, BindFails,
       Shutdown, Close, RemoveOwn, Kill, Disturb, vars

Solo == ~overlapped => Alone

LEMMA SoloAlways == Spec => []Solo
<1>1. Init => Solo
  BY DEF Init, Solo, Alone, Changing, Serving
<1>2. TypeOK /\ Solo /\ [Next]_vars => Solo'
  <2> SUFFICES ASSUME TypeOK, Solo, [Next]_vars, ~overlapped' PROVE Alone'
    BY DEF Solo
  <2>1. Alone
    BY OverlapStays DEF Solo
  <2> QED BY <2>1, AloneStep
<1> QED BY <1>1, <1>2, TypeInit, TypeStep, PTL DEF Spec

\* One instance serves at a time, whatever was killed at whatever point.
THEOREM OneServer == Spec => []Exclusive
<1>1. Solo => Exclusive
  BY DEF Solo, Alone, Exclusive
<1> QED BY <1>1, SoloAlways, PTL

\* The instance that serves is the one at the path.
THEOREM ServerReachable == Spec => []Reachable
<1>1. Solo => Reachable
  BY DEF Solo, Alone, Reachable
<1> QED BY <1>1, SoloAlways, PTL

\* No leftover of a killed instance makes a start fail at its bind.
THEOREM StartRecovers == Spec => []BindSucceeds
<1>1. Solo => BindSucceeds
  BY DEF Solo, Alone, BindSucceeds
<1> QED BY <1>1, SoloAlways, PTL

\* All three together: the path goes from one instance to the next.
THEOREM HandedOver == Spec => []Handover
<1>1. Exclusive /\ Reachable /\ BindSucceeds => Handover
  BY DEF Handover
<1> QED BY <1>1, OneServer, ServerReachable, StartRecovers, PTL
=============================================================================
