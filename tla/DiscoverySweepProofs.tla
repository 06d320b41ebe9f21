------------------------ MODULE DiscoverySweepProofs ------------------------
(***************************************************************************)
(* Proofs about DiscoverySweep.  Settled is not inductive: while a list is *)
(* on its way to the supervisor it must be a listing of the history,       *)
(* unless a forgotten device has put a token into the trigger channel.     *)
(***************************************************************************)
EXTENDS DiscoverySweep, TLAPS

Pending == pc \in {"first_publish", "publishing"} /\ ~trigger

\* The list on its way is a listing of the history as it is now.
UpdateFresh == Pending => Lists(update, store)

IInv == TypeOK /\ RequestKept /\ UpdateFresh /\ Settled

-----------------------------------------------------------------------------
\* Every operator on histories yields a history.
LEMMA HistoryTypes ==
  /\ NoDevice \in History
  /\ NoListing \in Listing
  /\ \A file \in History \union {Broken} : Loaded(file) \in History
<1>1. NoDevice \in History /\ NoListing \in Listing
  BY DEF NoDevice, History, NoListing, Listing
<1>. QED  BY <1>1 DEF Loaded

LEMMA ReconciledType ==
  ASSUME NEW seen \in History, NEW absorbed, NEW ids \in Matched(seen, absorbed),
         store \in History
  PROVE  Reconciled(seen, absorbed, ids) \in History
<1>. SUFFICES ASSUME NEW d \in Devices
     PROVE  Reconciled(seen, absorbed, ids)[d] \in Record \union {None}
  BY DEF Reconciled, History
<1>1. CASE seen[d] # None
  <2>1. seen[d] \in Record /\ ids[d] \in Ids
    BY <1>1 DEF History, Matched, Reported
  <2>. QED  BY <1>1, <2>1 DEF Reconciled, Record
<1>2. CASE seen[d] = None
  BY <1>2 DEF Reconciled, History, Record
<1>. QED  BY <1>1, <1>2

\* What a save leaves behind.
LEMMA SaveType ==
  ASSUME NEW new \in History, disk \in History \union {Broken},
         faults \in 0..MaxFaults, Save(new)
  PROVE  disk' \in History \union {Broken} /\ faults' \in 0..MaxFaults
BY BoundAssumption DEF Save

LEMMA InitIInv == Init => IInv
<1>. SUFFICES ASSUME Init PROVE IInv
  OBVIOUS
<1>1. NoDevice \in History /\ NoListing \in Listing
  BY HistoryTypes
<1>2. starts \in 0..MaxStarts /\ faults \in 0..MaxFaults /\ edits \in 0..MaxEdits
  BY BoundAssumption DEF Init
<1>3. TypeOK
  BY <1>1, <1>2 DEF Init, TypeOK, Phases
<1>4. RequestKept /\ UpdateFresh /\ Settled
  BY DEF Init, RequestKept, UpdateFresh, Pending, Settled
<1>. QED  BY <1>3, <1>4 DEF IInv

-----------------------------------------------------------------------------
LEMMA NextIInv == IInv /\ [Next]_vars => IInv'
<1>. SUFFICES ASSUME IInv, [Next]_vars PROVE IInv'
  OBVIOUS
<1>. USE DEF IInv
<1>1. CASE Start
  <2>1. store' \in History
    BY <1>1 DEF Start, Seeded
  <2>2. inventory' \in Listing
    BY <1>1, HistoryTypes DEF Start, Listed
  <2>3. TypeOK'
    BY <1>1, <2>1, <2>2, BoundAssumption DEF Start, TypeOK, Phases
  <2>. QED
    BY <1>1, <2>3 DEF Start, RequestKept, UpdateFresh, Pending, Settled
<1>2. CASE Tick
  BY <1>2 DEF Tick, counters, TypeOK, Phases, RequestKept, UpdateFresh, Pending, Settled
<1>3. CASE Receive
  BY <1>3 DEF Receive, counters, TypeOK, Phases, RequestKept, UpdateFresh, Pending, Settled
<1>4. CASE Publish
  <2>1. TypeOK'
    BY <1>4, HistoryTypes DEF Publish, counters, TypeOK, Phases
  <2>2. Settled'
    <3>. SUFFICES ASSUME ~trigger PROVE Lists(inventory', store')
      BY <1>4 DEF Publish, Settled
    <3>. QED  BY <1>4 DEF Publish, UpdateFresh, Pending
  <2>. QED
    BY <1>4, <2>1, <2>2 DEF Publish, RequestKept, UpdateFresh, Pending
<1>5. CASE PublishFails
  <2>1. faults' \in 0..MaxFaults
    BY <1>5, BoundAssumption DEF PublishFails, TypeOK
  <2>2. TypeOK'
    BY <1>5, <2>1, HistoryTypes DEF PublishFails, TypeOK, Phases
  <2>. QED
    BY <1>5, <2>2 DEF PublishFails, RequestKept, UpdateFresh, Pending, Settled
<1>6. ASSUME NEW seen \in Sweeps, FinishScan(seen) PROVE IInv'
  <2>1. store' \in History
    BY <1>6, ReconciledType, SweepAssumption DEF FinishScan, TypeOK
  <2>2. disk' \in History \union {Broken} /\ faults' \in 0..MaxFaults
    BY <1>6, <2>1, SaveType DEF FinishScan, TypeOK
  <2>3. update' \in Listing /\ Lists(update', store')
    BY <1>6 DEF FinishScan, Listed
  <2>4. pc' = AfterScan(update')
    BY <1>6 DEF FinishScan
  <2>5. pc' \in {"first_publish", "publishing"} \/ (pc' = "idle" /\ update' = NoListing)
    BY <2>4 DEF AfterScan
  <2>6. TypeOK'
    BY <1>6, <2>1, <2>2, <2>3, <2>5 DEF FinishScan, TypeOK, Phases
  <2>7. RequestKept'
    BY <1>6 DEF FinishScan, RequestKept
  <2>8. UpdateFresh'
    BY <2>3 DEF UpdateFresh
  <2>9. Settled'
    <3>. SUFFICES ASSUME pc' = "idle" PROVE Lists(NoListing, store')
      BY DEF Settled
    <3>. QED  BY <2>3, <2>5
  <2>. QED  BY <2>6, <2>7, <2>8, <2>9
<1>7. CASE Die
  <2>1. TypeOK'
    BY <1>7, HistoryTypes DEF Die, counters, TypeOK, Phases
  <2>. QED
    BY <1>7, <2>1 DEF Die, RequestKept, UpdateFresh, Pending, Settled
<1>8. CASE HandleScan
  BY <1>8 DEF HandleScan, counters, TypeOK, Phases, RequestKept, UpdateFresh, Pending, Settled
<1>9. ASSUME NEW needle \in Devices \union Ids, HandleForget(needle) PROVE IInv'
  <2>1. store' \in History
    BY <1>9 DEF HandleForget, Without, TypeOK, History
  <2>2. disk' \in History \union {Broken} /\ faults' \in 0..MaxFaults
    BY <1>9, <2>1, SaveType DEF HandleForget, TypeOK
  <2>3. TypeOK'
    BY <1>9, <2>1, <2>2 DEF HandleForget, Meant, TypeOK
  <2>. QED
    BY <1>9, <2>3 DEF HandleForget, RequestKept, UpdateFresh, Pending, Settled
<1>10. CASE WebRead
  <2>1. TypeOK'
    BY <1>10, BoundAssumption DEF WebRead, TypeOK
  <2>. QED
    BY <1>10, <2>1 DEF WebRead, RequestKept, UpdateFresh, Pending, Settled, Lists
<1>11. CASE WebWrite
  <2>1. disk' \in History \union {Broken}
    BY <1>11 DEF WebWrite, TypeOK, History, Record
  <2>2. TypeOK'
    BY <1>11, <2>1 DEF WebWrite, counters, TypeOK
  <2>. QED
    BY <1>11, <2>2 DEF WebWrite, counters, RequestKept, UpdateFresh, Pending, Settled, Lists
<1>12. CASE UNCHANGED vars
  BY <1>12 DEF vars, counters, TypeOK, RequestKept, UpdateFresh, Pending, Settled, Lists
<1>. QED
  BY <1>1, <1>2, <1>3, <1>4, <1>5, <1>6, <1>7, <1>8, <1>9, <1>10, <1>11, <1>12
     DEF Next, SweepNext

LEMMA Invariance == Spec => []IInv
<1>. QED  BY InitIInv, NextIInv, PTL DEF Spec

-----------------------------------------------------------------------------
\* Types, with the capacity of the trigger channel.
THEOREM SweepTypes == Spec => []TypeOK
<1>1. IInv => TypeOK
  BY DEF IInv
<1>. QED  BY <1>1, Invariance, PTL

\* A request for a sweep is never taken as served by an earlier sweep.
THEOREM RequestsKept == Spec => []RequestKept
<1>1. IInv => RequestKept
  BY DEF IInv
<1>. QED  BY <1>1, Invariance, PTL

\* When the loop has settled, the supervisor lists the ids of the history, each
\* with the state of a record that has it.
THEOREM ListSettled == Spec => []Settled
<1>1. IInv => Settled
  BY DEF IInv
<1>. QED  BY <1>1, Invariance, PTL

-----------------------------------------------------------------------------
\* Without failed saves and edits of the web module, a forgotten device that is
\* not documented is neither in the history nor in a file that can be read.
Away ==
  faults = 0 /\ edits = 0 =>
    /\ web = Broken
    /\ \A d \in forgotten \ Documented :
         store[d] = None /\ (disk # Broken => disk[d] = None)

\* With no fault a save is one that has succeeded.
LEMMA CleanSave ==
  ASSUME faults \in Nat, NEW new, Save(new), faults' = 0
  PROVE  faults = 0 /\ disk' = new
BY DEF Save

LEMMA AwayStep == TypeOK /\ TypeOK' /\ Away /\ [Next]_vars => Away'
<1>. SUFFICES ASSUME TypeOK, TypeOK', Away, [Next]_vars, faults' = 0, edits' = 0
              PROVE  /\ web' = Broken
                     /\ \A d \in forgotten' \ Documented :
                          store'[d] = None /\ (disk' # Broken => disk'[d] = None)
  BY DEF Away
<1>. DEFINE Goal == /\ web' = Broken
                    /\ \A d \in forgotten' \ Documented :
                         store'[d] = None /\ (disk' # Broken => disk'[d] = None)
<1>0. faults \in Nat /\ edits \in Nat /\ forgotten \subseteq Devices
  BY BoundAssumption DEF TypeOK
<1>1. CASE Start
  <2>1. faults = 0 /\ edits = 0 /\ UNCHANGED <<disk, web, forgotten>> /\ store' \in Seeded(Loaded(disk))
    BY <1>1 DEF Start
  <2>2. \A d \in forgotten \ Documented : Loaded(disk)[d] = None
    BY <1>0, <2>1 DEF Away, Loaded, NoDevice
  <2> QED BY <1>0, <2>1, <2>2 DEF Away, Seeded
<1>2. CASE Die
  BY <1>0, <1>2 DEF Die, Away, counters, NoDevice
<1>3. CASE Tick \/ Receive \/ HandleScan \/ Publish
  BY <1>3 DEF Tick, Receive, HandleScan, Publish, Away, counters
<1>4. CASE PublishFails
  BY <1>0, <1>4 DEF PublishFails
<1>5. ASSUME NEW seen \in Sweeps, FinishScan(seen)
      PROVE  Goal
  <2>1. PICK absorbed, ids : store' = Reconciled(seen, absorbed, ids)
    BY <1>5 DEF FinishScan
  <2>2. faults = 0 /\ disk' = store' /\ edits = 0 /\ web' = web
    BY <1>0, <1>5, CleanSave DEF FinishScan
  <2>3. \A d \in forgotten' : d \in forgotten /\ seen[d] = None
    BY <1>0, <1>5 DEF FinishScan, Reported
  <2> QED BY <1>0, <2>1, <2>2, <2>3 DEF Away, Reconciled
<1>6. ASSUME NEW needle \in Devices \union Ids, HandleForget(needle)
      PROVE  Goal
  <2>1. faults = 0 /\ disk' = store' /\ edits = 0 /\ web' = web
    BY <1>0, <1>6, CleanSave DEF HandleForget
  <2>2. /\ store' = Without(Meant(needle))
        /\ forgotten' = forgotten \union Meant(needle)
        /\ Meant(needle) \subseteq Devices
    BY <1>6 DEF HandleForget, Meant
  <2> QED BY <1>0, <2>1, <2>2 DEF Away, Without
<1>7. CASE WebRead
  BY <1>0, <1>7 DEF WebRead
<1>8. CASE WebWrite
  BY <1>8 DEF WebWrite, Away, counters
<1>9. CASE UNCHANGED vars
  BY <1>9 DEF vars, Away
<1>. QED  BY <1>1, <1>2, <1>3, <1>4, <1>5, <1>6, <1>7, <1>8, <1>9 DEF Next, SweepNext

\* A device that was forgotten stays away over any number of restarts, until a
\* sweep reports it (main.rs 239-249, history.rs 66-127).
THEOREM StaysAway == Spec => []ForgottenStaysAway
<1>1. Init => Away
  BY DEF Init, Away
<1>2. IInv => TypeOK
  BY DEF IInv
<1>3. Away => ForgottenStaysAway
  BY DEF Away, ForgottenStaysAway
<1>. QED  BY <1>1, <1>2, <1>3, Invariance, AwayStep, PTL DEF Spec
=============================================================================
