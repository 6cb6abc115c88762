------------------------- MODULE CurlDownloadProofs -------------------------
(***************************************************************************)
(* What CurlDownload's run shows for three bytes, for a file of any length *)
(* and any number of crashes: the types, Delivered and Kept, and what there is *)
(* of progress.                                                            *)
(***************************************************************************)
EXTENDS CurlDownload, TLAPS

Transferring == pc \in {"open", "perform", "remove", "rename"}

\* While no call appends to a .part file left over, that file is a beginning of
\* the file served: of the length the transfer has reached, empty if it does not
\* resume, and all of it once curl has said so.
PartIsBeginning ==
    ~appended =>
        /\ Len(part) <= Length /\ part = Bytes(Len(part))
        /\ target \in {<<>>, Old, Remote}
        /\ pc = "idle" /\ result /\ ~refused /\ ~misled => target = Remote
        /\ pc = "open" /\ ~resumeDownload => part = <<>>
        /\ pc = "perform" => Len(part) = resumeByte + dlnow
        /\ pc \in {"remove", "rename"} => part = Remote

\* A transfer runs only when the file is not there, or the HEAD was misleading.
TransferIsNeeded ==
    /\ Transferring /\ ~misled => target # Remote
    /\ pc = "perform" => dlnow <= Len(part)

IInv == TypeOK /\ PartIsBeginning /\ TransferIsNeeded

\* The bytes of the file served, and of the file that was there before.
LEMMA BytesAreSequence ==
    ASSUME NEW n \in Nat, n <= Length
    PROVE  Bytes(n) \in Seq(1..Length) /\ Len(Bytes(n)) = n
BY DownloadAssumption DEF Bytes

\* The file to download, what an earlier version left behind and an empty file are sequences.
LEMMA FilesAreSequences ==
    /\ Remote \in Seq(0..Length) /\ Len(Remote) = Length
    /\ Old \in Seq(0..Length) /\ Len(Old) = Length + 1
    /\ <<>> \in Seq(0..Length) /\ <<>> \in Seq(1..Length) /\ Len(<<>>) = 0
    /\ Bytes(0) = <<>>
    /\ Remote # <<>>
BY DownloadAssumption DEF Remote, Old, Bytes

\* Receiving the next byte makes the next longer beginning.
LEMMA AppendByte ==
    ASSUME NEW n \in Nat
    PROVE  Append(Bytes(n), n + 1) = Bytes(n + 1)
BY DEF Bytes

\* A beginning cut short is a shorter beginning.
LEMMA CutBytes ==
    ASSUME NEW n \in Nat, NEW k \in 0..n
    PROVE  SubSeq(Bytes(n), 1, n - k) = Bytes(n - k)
BY DEF Bytes

\* A sequence cut short has the elements it had.
LEMMA CutSequence ==
    ASSUME NEW S, NEW s \in Seq(S), NEW k \in 0..Len(s)
    PROVE  SubSeq(s, 1, Len(s) - k) \in Seq(S) /\ Len(SubSeq(s, 1, Len(s) - k)) = Len(s) - k
OBVIOUS
-----------------------------------------------------------------------------
\* When a call has returned nothing of it is left but its result.
LEMMA NothingOfTheCall ==
    ASSUME NEW ok \in BOOLEAN, Return(ok)
    PROVE  /\ pc' = "idle" /\ result' = ok /\ result' \in BOOLEAN
           /\ breakContinue' \in BOOLEAN /\ resumeDownload' \in BOOLEAN
           /\ resumeByte' \in Nat /\ dlnow' \in 0..Length /\ resumeByte' + dlnow' <= Length
<1>1. pc' = "idle" /\ result' = ok /\ resumeByte' = 0 /\ dlnow' = 0
  BY DEF Return
<1>2. breakContinue' = FALSE /\ resumeDownload' = FALSE
  BY DEF Return
<1>3. 0 \in Nat /\ 0 \in 0..Length /\ 0 + 0 <= Length
  BY DownloadAssumption
<1>4. resumeByte' \in Nat /\ dlnow' \in 0..Length /\ resumeByte' + dlnow' <= Length
  <2> HIDE DEF Return
  <2>1. resumeByte' = 0 /\ dlnow' = 0
    BY <1>1
  <2>2. QED
    BY <1>3, <2>1
<1>5. QED
  BY <1>1, <1>2, <1>4

\* Before the first call there is no .part file, and no result.
LEMMA InitInvariant == Init => IInv
<1> SUFFICES ASSUME Init PROVE IInv
    OBVIOUS
<1>1. target \in Seq(0..Length) /\ part \in Seq(1..Length)
    BY FilesAreSequences DEF Init
<1>2. TypeOK
  <2>1. resumeByte = 0 /\ dlnow = 0 /\ resumeByte + dlnow <= Length
    BY DownloadAssumption DEF Init
  <2>2. faults \in 0..MaxFaults /\ resumeByte \in Nat /\ dlnow \in 0..Length
    BY DownloadAssumption DEF Init
  <2>3. QED
    BY <1>1, <2>1, <2>2 DEF Init, TypeOK
<1>3. PartIsBeginning
    BY DownloadAssumption, FilesAreSequences DEF Init, PartIsBeginning
<1>4. TransferIsNeeded
    BY DEF Init, TransferIsNeeded, Transferring
<1>5. QED
    BY <1>2, <1>3, <1>4 DEF IInv

\* Every step of DownloadFile, of the network and of a crash keeps the .part file
\* a beginning.
LEMMA NextInvariant == IInv /\ [Next]_vars => IInv'
<1> SUFFICES ASSUME TypeOK, PartIsBeginning, TransferIsNeeded, [Next]_vars
             PROVE  TypeOK' /\ PartIsBeginning' /\ TransferIsNeeded'
    BY DEF IInv
<1> USE DownloadAssumption
    DEF TypeOK, PartIsBeginning, TransferIsNeeded, Transferring,
        vars, files, call, transfer, told, ghosts
<1>1. ASSUME NEW b \in BOOLEAN, DownloadFile(b)
      PROVE  TypeOK' /\ PartIsBeginning' /\ TransferIsNeeded'
    BY <1>1 DEF DownloadFile
<1>2. CASE LengthUnknown
    BY <1>2, NothingOfTheCall DEF LengthUnknown
<1>3. CASE AlreadyThere
  <2>1. ~misled' => Len(target) = Length
    BY <1>3 DEF AlreadyThere, Lengths
  <2>2. misled' \in BOOLEAN
    BY <1>3 DEF AlreadyThere, Lengths
  <2>3. QED
    <3>1. Return(TRUE) /\ UNCHANGED <<files, ranges, appended, refused, faults>>
      BY <1>3 DEF AlreadyThere
    <3>2. TypeOK'
      BY <2>2, <3>1, NothingOfTheCall
    <3>3. PartIsBeginning'
      <4>1. pc' = "idle" /\ UNCHANGED <<target, part, appended>>
        BY <3>1, NothingOfTheCall
      <4>2. ~appended /\ ~misled' => target = Remote
        BY <2>1, FilesAreSequences
      <4>3. QED
        BY <4>1, <4>2
    <3>4. TransferIsNeeded'
      BY <3>1, NothingOfTheCall
    <3>5. QED
      BY <3>2, <3>3, <3>4
<1>4. CASE Begin
  <2>1. ~misled' => Len(target) # Length
    BY <1>4 DEF Begin, Lengths
  <2>2. misled' \in BOOLEAN
    BY <1>4 DEF Begin, Lengths
  <2>3. QED
    BY <1>4, <2>1, <2>2, FilesAreSequences DEF Begin
<1>5. CASE Open
  <2>1. target' \in Seq(0..Length) /\ target' \in {target, <<>>} /\ part' = part
    BY <1>5, FilesAreSequences DEF Open, RemoveUnlessResumed, Remove
  <2>2. resumeByte' \in Nat /\ dlnow' = 0 /\ resumeByte' <= Len(part)
    BY <1>5 DEF Open
  <2>3. ~appended => resumeByte' = Len(part)
    BY <1>5, FilesAreSequences DEF Open
  <2>4. TypeOK' /\ TransferIsNeeded'
    BY <1>5, <2>1, <2>2, <2>3, FilesAreSequences DEF Open
  <2>5. PartIsBeginning'
    <3>1. ~appended => Len(part) <= Length /\ part = Bytes(Len(part))
      OBVIOUS
    <3>2. ~appended => target' \in {<<>>, Old, Remote}
      BY <2>1
    <3>3. pc' = "perform" /\ UNCHANGED <<appended, part>>
      BY <1>5 DEF Open
    <3>4. Len(part) \in Nat /\ part' = part
      BY <1>5 DEF Open
    <3> HIDE DEF TypeOK, TransferIsNeeded, Transferring, vars, files, call, transfer, ghosts
    <3>5. ~appended => Len(part') <= Length /\ part' = Bytes(Len(part'))
      BY <3>1, <3>4
    <3>6. ASSUME ~appended PROVE Len(part') = resumeByte' + dlnow'
      <4>1. resumeByte' = Len(part) /\ resumeByte' \in Nat /\ dlnow' = 0
        BY <2>2, <2>3, <3>6
      <4>2. resumeByte' + dlnow' = resumeByte'
        BY <4>1
      <4>3. QED
        BY <3>4, <4>1, <4>2
    <3>7. QED
      BY <3>2, <3>3, <3>5, <3>6
  <2>6. QED
    BY <2>4, <2>5
<1>6. CASE OpenFails
    BY <1>6, FilesAreSequences, NothingOfTheCall DEF OpenFails, RemoveUnlessResumed, Remove
<1>7. CASE Receive
  <2>1. resumeByte + dlnow + 1 \in 1..Length
    BY <1>7 DEF Receive, Served
  <2>2. part' \in Seq(1..Length) /\ Len(part') = Len(part) + 1
    BY <1>7, <2>1 DEF Receive
  <2>3. ASSUME ~appended PROVE part' = Bytes(Len(part'))
    <3>1. part = Bytes(Len(part)) /\ Len(part) \in Nat /\ resumeByte + dlnow = Len(part)
      BY <1>7, <2>3 DEF Receive
    <3>2. part' = Append(Bytes(Len(part)), Len(part) + 1)
      BY <1>7, <3>1 DEF Receive
    <3>3. QED
      BY <2>2, <3>1, <3>2, AppendByte
  <2>4. dlnow' \in 0..Length /\ (~appended => resumeByte + dlnow + 1 <= Length)
    BY <1>7, <2>1 DEF Receive
  <2>5. TypeOK'
    BY <1>7, <2>2, <2>4 DEF Receive
  <2>6. PartIsBeginning'
    BY <1>7, <2>1, <2>2, <2>3 DEF Receive
  <2>7. TransferIsNeeded'
    BY <1>7, <2>2 DEF Receive
  <2>8. QED
    BY <2>5, <2>6, <2>7
<1>8. CASE Complete
    BY <1>8 DEF Complete, Remote
<1>9. CASE Break
    BY <1>9, NothingOfTheCall DEF Break
<1>10. CASE NoData
  <2>1. part' \in {part, <<>>} /\ part' \in Seq(1..Length) /\ (~appended' => part' = <<>>)
    BY <1>10, FilesAreSequences DEF NoData, Remove
  <2>2. faults' \in 0..MaxFaults
    BY <1>10 DEF NoData, Silent
  <2>3. appended' \in BOOLEAN /\ (~appended' => ~appended)
    BY <1>10 DEF NoData
  <2>4. TypeOK'
    BY <1>10, <2>1, <2>2, <2>3 DEF NoData
  <2>5. PartIsBeginning'
    BY <1>10, <2>1, <2>3, FilesAreSequences DEF NoData, Silent
  <2>6. TransferIsNeeded'
    BY <1>10 DEF NoData, Silent
  <2>7. QED
    BY <2>4, <2>5, <2>6
<1>11. CASE RemoveTarget
    BY <1>11, FilesAreSequences DEF RemoveTarget, Remove
<1>12. CASE Rename
  <2>1. part \in Seq(0..Length)
    OBVIOUS
  <2>2. QED
    <3>1. Return(TRUE) /\ UNCHANGED ghosts /\ target' = part /\ part' = <<>> /\ pc = "rename"
      BY <1>12 DEF Rename
    <3>a. UNCHANGED <<ranges, appended, misled, refused, faults>>
      BY <3>1
    <3>b. target' \in Seq(0..Length) /\ part' \in Seq(1..Length) /\ Len(part') = 0
      <4> HIDE DEF TypeOK, PartIsBeginning, TransferIsNeeded, Transferring, vars, files, call,
               transfer, told, ghosts
      <4>1. target' = part /\ part' = <<>>
        BY <3>1
      <4>2. part \in Seq(0..Length) /\ <<>> \in Seq(1..Length) /\ Len(<<>>) = 0
        BY <2>1, FilesAreSequences
      <4>3. QED
        BY <4>1, <4>2
    <3>c. part' = Bytes(Len(part'))
      <4>1. part' = <<>> /\ Bytes(0) = <<>>
        BY <3>1, FilesAreSequences
      <4>2. QED
        BY <3>b, <4>1
    <3>d. ~appended => target' = Remote
      BY <3>1
    <3>2. TypeOK'
      BY <3>1, <3>a, <3>b, NothingOfTheCall
    <3>3. PartIsBeginning'
      <4>1. pc' = "idle"
        BY <3>1, NothingOfTheCall
      <4>2. ~appended' => target' = Remote
        BY <3>a, <3>d
      <4>3. QED
        BY <3>b, <3>c, <4>1, <4>2
    <3>4. TransferIsNeeded'
      BY <3>1, NothingOfTheCall
    <3>5. QED
      BY <3>2, <3>3, <3>4
<1>12a. CASE RenameFails
    BY <1>12a, NothingOfTheCall DEF RenameFails
<1>13. CASE Crash
  <2>1. PICK n \in 0..(IF pc = "perform" THEN dlnow ELSE 0) :
            part' = SubSeq(part, 1, Len(part) - n)
    BY <1>13 DEF Crash
  <2>2. n \in 0..Len(part)
    BY <1>13, <2>1 DEF Crash
  <2>3. part' \in Seq(1..Length) /\ Len(part') = Len(part) - n
    <3>1. part \in Seq(1..Length)
      OBVIOUS
    <3> HIDE DEF TypeOK, PartIsBeginning, TransferIsNeeded, Transferring, vars, files, call,
             transfer, ghosts
    <3>2. QED
      BY <2>1, <2>2, <3>1, CutSequence
  <2>4. ASSUME ~appended PROVE part' = Bytes(Len(part'))
    <3>1. part = Bytes(Len(part)) /\ Len(part) \in Nat
      BY <2>4
    <3>2. part' = SubSeq(Bytes(Len(part)), 1, Len(part) - n)
      BY <2>1, <3>1
    <3>3. QED
      BY <2>2, <2>3, <3>1, <3>2, CutBytes
  <2>5. faults' \in 0..MaxFaults
    BY <1>13 DEF Crash
  <2>6. TypeOK'
    BY <1>13, <2>3, <2>5, NothingOfTheCall DEF Crash
  <2>7. PartIsBeginning'
    <3>1. pc' = "idle" /\ result' = FALSE /\ target' = target /\ appended' = appended
      BY <1>13, NothingOfTheCall DEF Crash
    <3>2. ~appended => target \in {<<>>, Old, Remote}
      OBVIOUS
    <3>3. ~appended => Len(part') <= Length
      BY <2>2, <2>3
    <3> HIDE DEF TypeOK, TransferIsNeeded, Transferring, vars, files, call, transfer, ghosts
    <3>4. QED
      BY <2>4, <3>1, <3>2, <3>3
  <2>8. TransferIsNeeded'
    BY <1>13, NothingOfTheCall DEF Crash
  <2>9. QED
    BY <2>6, <2>7, <2>8
<1>14. CASE UNCHANGED vars
    BY <1>14
<1>15. QED
    BY <1>1, <1>2, <1>3, <1>4, <1>5, <1>6, <1>7, <1>8, <1>9, <1>10, <1>11, <1>12,
       <1>13, <1>14, <1>12a DEF Next

\* The inductive invariant holds in every reachable state.
THEOREM DownloadInvariant == Spec => []IInv
BY InitInvariant, NextInvariant, PTL DEF Spec

\* Every variable keeps its type, and a transfer never goes past the end.
THEOREM TypeCorrect == Spec => []TypeOK
BY DownloadInvariant, PTL DEF IInv

\* What appears under the name asked for is the file served, for every length and any
\* number of breaks, restarts and crashes, and TRUE means that it is there, as long as
\* nothing was appended to a .part file left over and the rename and the HEAD did not
\* fail unseen.
THEOREM DeliveredWhole == Spec => []Delivered
<1>1. IInv => Delivered
    BY DEF IInv, PartIsBeginning, Delivered
<1>2. QED
    BY <1>1, DownloadInvariant, PTL

\* A file that is there is removed only by a call that was told another length, and by
\* one that resumes only when it has the whole file to put in its place.
THEOREM FileKept == Spec => Kept
<1>1. ASSUME IInv, Next, target = Remote, target' # Remote
      PROVE  misled /\ (resumeDownload => part = Remote \/ appended)
  <2>1. CASE Open \/ OpenFails
    <3>1. ~resumeDownload /\ pc = "open"
      BY <1>1, <2>1 DEF Open, OpenFails, RemoveUnlessResumed
    <3>2. QED
      BY <1>1, <3>1 DEF IInv, TransferIsNeeded, Transferring
  <2>2. CASE RemoveTarget
    <3>1. pc = "remove"
      BY <2>2 DEF RemoveTarget
    <3>2. QED
      BY <1>1, <3>1 DEF IInv, TransferIsNeeded, Transferring, PartIsBeginning
  <2>3. CASE Rename
    BY <1>1, <2>3, FilesAreSequences DEF Rename
  <2>4. QED
    BY <1>1, <2>1, <2>2, <2>3
       DEF Next, DownloadFile, LengthUnknown, AlreadyThere, Begin, Receive, Complete, Break,
           NoData, RenameFails, Crash, files
<1>2. IInv /\ [Next]_vars =>
          [target = Remote /\ target' # Remote =>
              misled /\ (resumeDownload => part = Remote \/ appended)]_vars
  BY <1>1
<1>3. QED
  BY <1>2, DownloadInvariant, PTL DEF Spec, Kept

\* Every step of a call, and of the network and a kill under it, brings its end
\* nearer, for a file of any length: 2 * Length + 7 steps at most.
THEOREM CallComesNearer == Spec => CallShrinks
<1>1. IInv /\ [Next]_vars => [pc # "idle" => StepsLeft' < StepsLeft]_vars
  <2> SUFFICES ASSUME IInv, Next, pc # "idle" PROVE StepsLeft' < StepsLeft
    OBVIOUS
  <2>1. Length \in Nat /\ dlnow \in 0..Length
    BY DownloadAssumption DEF IInv, TypeOK
  <2>2. CASE LengthUnknown \/ AlreadyThere \/ OpenFails \/ Break \/ Rename
             \/ RenameFails \/ Crash
    <3>1. pc' = "idle"
      BY <2>2 DEF LengthUnknown, AlreadyThere, OpenFails, Break, Rename, RenameFails, Crash, Return
    <3>2. pc \in {"length", "open", "perform", "remove", "rename"}
      BY DEF IInv, TypeOK
    <3>3. QED
      BY <2>1, <3>1, <3>2 DEF StepsLeft
  <2>3. CASE Begin \/ Open
    BY <2>1, <2>3 DEF Begin, Open, call, StepsLeft
  <2>4. CASE Receive
    BY <2>1, <2>4 DEF Receive, call, StepsLeft
  <2>5. CASE Complete \/ RemoveTarget
    BY <2>1, <2>5 DEF Complete, RemoveTarget, StepsLeft
  <2>6. CASE NoData
    BY <2>1, <2>6 DEF NoData, Silent, StepsLeft
  <2>7. ASSUME NEW b \in BOOLEAN, DownloadFile(b)
        PROVE  FALSE
    BY <2>7 DEF DownloadFile
  <2>8. QED
    BY <2>2, <2>3, <2>4, <2>5, <2>6, <2>7 DEF Next
<1>2. QED
    BY <1>1, DownloadInvariant, PTL DEF Spec, CallShrinks

\* What has been received is part of what is there next, but for a fault, until it gets
\* its name.
ReceivedStays ==
    \/ Len(part') >= Len(part) /\ SubSeq(part', 1, Len(part)) = part
    \/ faults' # faults
    \/ target' = Remote

ReceivedKept == [][~appended' => ReceivedStays]_vars

\* What has been received is not lost by a break, a failure to open the files, a rename
\* that fails or a new call, but only by a kill or a silence, and a transfer continues
\* where it ends: so that trying again gets nearer to the whole file
\* (CurlClient.cpp:240-347).
THEOREM NothingReceivedIsLost == Spec => ReceivedKept
<1>1. ASSUME IInv, Next, ~appended' PROVE ReceivedStays
  <2>1. part \in Seq(1..Length) /\ Len(part) \in Nat /\ dlnow \in 0..Length /\ faults \in Nat
    BY <1>1 DEF IInv, TypeOK
  <2>2. ASSUME UNCHANGED part PROVE ReceivedStays
    BY <2>1, <2>2 DEF ReceivedStays
  <2>3. CASE Receive
    <3>1. part' = Append(part, resumeByte + dlnow + 1)
      BY <2>3 DEF Receive
    <3>2. Len(part') = Len(part) + 1 /\ SubSeq(part', 1, Len(part)) = part
      BY <2>1, <3>1
    <3>3. QED
      BY <2>1, <3>2 DEF ReceivedStays
  <2>4. CASE NoData \/ Crash
    <3>1. faults' = faults + 1
      BY <2>4 DEF NoData, Crash
    <3>2. QED
      BY <2>1, <3>1 DEF ReceivedStays
  <2>5. CASE Rename
    <3>1. ~appended /\ pc = "rename" /\ target' = part
      BY <1>1, <2>5 DEF Rename, ghosts
    <3>2. QED
      BY <1>1, <3>1 DEF IInv, PartIsBeginning, ReceivedStays
  <2>6. QED
    BY <1>1, <2>2, <2>3, <2>4, <2>5
       DEF Next, DownloadFile, LengthUnknown, AlreadyThere, Begin, Open, OpenFails, Complete,
           Break, RemoveTarget, RenameFails, files
<1>2. IInv /\ [Next]_vars => [~appended' => ReceivedStays]_vars
  BY <1>1
<1>3. QED
  BY <1>2, DownloadInvariant, PTL DEF Spec, ReceivedKept
=============================================================================
