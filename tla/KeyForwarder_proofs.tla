------------------------ MODULE KeyForwarder_proofs ------------------------
(***************************************************************************)
(* KeyForwarder: the hand-over between main and the thread, for every      *)
(* number of changes of the file.                                          *)
(***************************************************************************)
EXTENDS KeyForwarder, TLAPS

LEMMA HandshakeInv_Next ==
    ASSUME TypeOK, HandshakeInv, [Next]_vars
    PROVE  HandshakeInv'
<1> USE DEF TypeOK, HandshakeInv, FrameOutlivesThread, file, process, thread
<1>1. CASE Change
  BY <1>1 DEF Change
<1>2. CASE Launch
  BY <1>2 DEF Launch
<1>3. CASE OpenPatchFile
  BY <1>3 DEF OpenPatchFile
<1>4. CASE CreateThread
  BY <1>4 DEF CreateThread
<1>5. CASE Loop
  BY <1>5 DEF Loop
<1>6. CASE Join
  BY <1>6 DEF Join
<1>7. CASE Return
  BY <1>7 DEF Return
<1>8. CASE OpenHost
  BY <1>8 DEF OpenHost
<1>9. CASE PutOneFile
  BY <1>9 DEF PutOneFile
<1>10. CASE CloseHost
  BY <1>10 DEF CloseHost
<1>11. CASE RaiseFlag
  BY <1>11 DEF RaiseFlag
<1>12. CASE ThreadReturns
  BY <1>12 DEF ThreadReturns
<1>13. CASE UNCHANGED vars
  BY <1>13 DEF vars
<1> QED
  BY <1>1, <1>2, <1>3, <1>4, <1>5, <1>6, <1>7, <1>8, <1>9, <1>10, <1>11, <1>12, <1>13
     DEF Next, Main, Worker

\* Every variable stays in its type.
THEOREM TypeCorrect == Spec => []TypeOK
<1>1. Init => TypeOK
  <2> SUFFICES ASSUME Init PROVE TypeOK
    OBVIOUS
  <2>1. changes \in 0 .. MaxChanges
    BY ChangesAssumption DEF Init
  <2> QED
    BY <2>1, Zenon DEF Init, TypeOK
<1>2. TypeOK /\ [Next]_vars => TypeOK'
  <2> SUFFICES ASSUME TypeOK, [Next]_vars PROVE TypeOK'
    OBVIOUS
  <2>1. changes \in 0 .. MaxChanges
    BY DEF TypeOK
  <2>2. CASE Change
    <3>1. changes' \in 0 .. MaxChanges
      BY <2>1, <2>2, ChangesAssumption DEF Change
    <3>2. exists' \in BOOLEAN /\ changed' \in BOOLEAN
      BY <2>2, Zenon DEF TypeOK, Change
    <3>3. UNCHANGED <<main, patchFile, said, worker, session, sent, finishedFlag>>
      BY <2>2 DEF Change, process, thread
    <3> QED
      BY <3>1, <3>2, <3>3, Zenon DEF TypeOK
  <2>3. CASE Launch
    BY <2>1, <2>3, Zenon DEF TypeOK, Launch, file, process, thread
  <2>4. CASE OpenPatchFile
    BY <2>1, <2>4, Zenon DEF TypeOK, OpenPatchFile, file, process, thread
  <2>5. CASE CreateThread
    BY <2>1, <2>5, Zenon DEF TypeOK, CreateThread, file, process, thread
  <2>6. CASE Loop
    BY <2>1, <2>6, Zenon DEF TypeOK, Loop, file, process, thread
  <2>7. CASE Join
    BY <2>1, <2>7, Zenon DEF TypeOK, Join, file, process, thread
  <2>8. CASE Return
    BY <2>1, <2>8, Zenon DEF TypeOK, Return, file, process, thread
  <2>9. CASE OpenHost
    BY <2>1, <2>9, Zenon DEF TypeOK, OpenHost, file, process, thread
  <2>10. CASE PutOneFile
    BY <2>1, <2>10, Zenon DEF TypeOK, PutOneFile, file, process, thread
  <2>11. CASE CloseHost
    BY <2>1, <2>11, Zenon DEF TypeOK, CloseHost, file, process, thread
  <2>12. CASE RaiseFlag
    BY <2>1, <2>12, Zenon DEF TypeOK, RaiseFlag, file, process, thread
  <2>13. CASE ThreadReturns
    BY <2>1, <2>13, Zenon DEF TypeOK, ThreadReturns, file, process, thread
  <2>14. CASE UNCHANGED vars
    <3>1. /\ exists' = exists /\ changes' = changes /\ changed' = changed
          /\ main' = main /\ patchFile' = patchFile /\ said' = said
          /\ worker' = worker /\ session' = session /\ sent' = sent
          /\ finishedFlag' = finishedFlag
      BY <2>14 DEF vars, file, process, thread
    <3> QED
      BY <3>1 DEF TypeOK
  <2> QED
    BY <2>2, <2>3, <2>4, <2>5, <2>6, <2>7, <2>8, <2>9, <2>10, <2>11, <2>12, <2>13, <2>14
       DEF Next, Main, Worker
<1> QED
  BY <1>1, <1>2, PTL DEF Spec

\* How far main and the thread can be apart: what each line of transferFile may
\* assume of main, and main of transferFile.
THEOREM HandshakeInvHolds == Spec => []HandshakeInv
<1>1. Init => HandshakeInv
  BY DEF Init, HandshakeInv, FrameOutlivesThread
<1>2. TypeOK /\ HandshakeInv /\ [Next]_vars => HandshakeInv'
  BY HandshakeInv_Next
<1> QED
  BY <1>1, <1>2, TypeCorrect, PTL DEF Spec

\* The thread never writes to, or runs in, the frame of a main that has returned.
THEOREM FrameOutlivesThreadHolds == Spec => []FrameOutlivesThread
<1>1. HandshakeInv => FrameOutlivesThread
  BY DEF HandshakeInv
<1> QED
  BY <1>1, HandshakeInvHolds, PTL

\* When "Done" has been said, and when the process has ended, the connection is closed.
THEOREM DoneAfterCloseHolds == Spec => []DoneAfterClose
<1>1. TypeOK /\ HandshakeInv => DoneAfterClose
  BY DEF TypeOK, HandshakeInv, FrameOutlivesThread, DoneAfterClose
<1> QED
  BY <1>1, TypeCorrect, HandshakeInvHolds, PTL

=============================================================================
