---------------------------- MODULE CurlDownload ----------------------------
(***************************************************************************)
(* CCurlClient::DownloadFile of libProject/libcurl: a file is collected in *)
(* <name>.part, over several calls if need be, and renamed when curl says  *)
(* that it is complete.  The process may be killed at any step, and the    *)
(* connection may break, or stay silent until the progress callback aborts *)
(* it.  The caller keeps one path for one file (HttpHelper.h:22), so the   *)
(* contents served never change: byte i of the file is the number i.  The   *)
(* length is asked for by a HEAD, whose answer may be an error page, and    *)
(* which may never come.                                                    *)
(*                                                                         *)
(* curl 7.54 itself is external: it fails a resumed download the server    *)
(* answers in full, takes the answer 416 to one past the end for success,  *)
(* and fails a body that ends before its Content-Length or its last chunk. *)
(***************************************************************************)
EXTENDS Integers, Sequences

CONSTANTS
    Length,      \* of the file
    MaxFaults    \* bounds the crashes and silent answers of a behaviour

ASSUME DownloadAssumption == Length \in Nat \ {0} /\ MaxFaults \in Nat

VARIABLES
    pc,
    breakContinue,    \* the argument of the call
    resumeDownload,
    target,           \* the bytes of the file asked for, empty when it is not there
    part,             \* the bytes of the .part file, likewise
    resumeByte,
    dlnow,            \* the bytes this transfer has received
    result,           \* of the last call
    ranges,           \* whether the server can resume
    appended,         \* a transfer that does not resume has found a .part file
    misled,           \* the last call was told the length of an error page
    refused,          \* the last call could not give the file its name
    faults

files == <<target, part>>
call == <<breakContinue, resumeDownload>>
transfer == <<resumeByte, dlnow>>
told == <<misled, refused>>
ghosts == <<ranges, appended, told, faults>>
vars == <<pc, call, files, transfer, result, ghosts>>

Bytes(n) == [i \in 1..n |-> i]
Remote == Bytes(Length)

\* What may be there before: no file, or another one of another length.
Old == [i \in 1..(Length + 1) |-> 0]

\* What the HEAD may say, which does not fail on an HTTP error: the length of the
\* file, or that of an error page, which may be that of the old file.
Lengths == {Length, Length + 1}

TypeOK ==
    /\ pc \in {"idle", "length", "open", "perform", "remove", "rename"}
    /\ breakContinue \in BOOLEAN /\ resumeDownload \in BOOLEAN
    /\ target \in Seq(0..Length) /\ part \in Seq(1..Length)
    /\ resumeByte \in Nat /\ dlnow \in 0..Length
    /\ ~appended => resumeByte + dlnow <= Length
    /\ result \in BOOLEAN
    /\ ranges \in BOOLEAN /\ appended \in BOOLEAN
    /\ misled \in BOOLEAN /\ refused \in BOOLEAN /\ faults \in 0..MaxFaults

Init ==
    /\ pc = "idle"
    /\ breakContinue = FALSE /\ resumeDownload = FALSE
    /\ target \in {<<>>, Old}
    /\ part = <<>>
    /\ resumeByte = 0 /\ dlnow = 0
    /\ result = FALSE
    /\ ranges \in BOOLEAN /\ appended = FALSE
    /\ misled = FALSE /\ refused = FALSE /\ faults = 0

Return(ok) ==
    /\ pc' = "idle" /\ result' = ok
    /\ breakContinue' = FALSE /\ resumeDownload' = FALSE
    /\ resumeByte' = 0 /\ dlnow' = 0
-----------------------------------------------------------------------------
\* Bound: a .part file that has been appended to is not appended to again.
DownloadFile(b) ==
    /\ pc = "idle" /\ (b \/ ~appended \/ part = <<>>)
    /\ breakContinue' = b
    /\ result' = FALSE /\ misled' = FALSE /\ refused' = FALSE
    /\ pc' = "length"
    /\ UNCHANGED <<resumeDownload, files, transfer, ranges, appended, faults>>

\* GetDownloadFileLength has no time-out: it need not return.
LengthUnknown ==
    /\ pc = "length"
    /\ Return(FALSE)
    /\ UNCHANGED <<files, ghosts>>

\* The file that is there has the length n the HEAD has told; nothing else is compared.
AlreadyThere ==
    /\ pc = "length"
    /\ \E n \in Lengths : n = Len(target) /\ misled' = (n # Length)
    /\ Return(TRUE)
    /\ UNCHANGED <<files, ranges, appended, refused, faults>>

\* Faulty form: a file that is there is downloaded again.
BeginAlways ==
    /\ pc = "length"
    /\ \E n \in Lengths : misled' = (n # Length)
    /\ resumeDownload' = breakContinue
    /\ appended' = (appended \/ (~breakContinue /\ part # <<>>))
    /\ pc' = "open"
    /\ UNCHANGED <<breakContinue, files, transfer, result, ranges, refused, faults>>

Begin ==
    /\ pc = "length"
    /\ \E n \in Lengths : n # Len(target) /\ misled' = (n # Length)
    /\ resumeDownload' = breakContinue
    /\ appended' = (appended \/ (~breakContinue /\ part # <<>>))
    /\ pc' = "open"
    /\ UNCHANGED <<breakContinue, files, transfer, result, ranges, refused, faults>>
-----------------------------------------------------------------------------
(* tryDownloadAgain.                                                        *)

\* The result of remove is not looked at: a file in use stays.
Remove(file) == file' \in {file, <<>>}

RemoveUnlessResumed == IF resumeDownload THEN UNCHANGED target ELSE Remove(target)

Open ==
    /\ pc = "open"
    /\ RemoveUnlessResumed
    /\ resumeByte' = IF resumeDownload THEN Len(part) ELSE 0
    /\ dlnow' = 0
    /\ pc' = "perform"
    /\ UNCHANGED <<call, part, result, ghosts>>

OpenFails ==
    /\ pc = "open"
    /\ RemoveUnlessResumed
    /\ Return(FALSE)
    /\ UNCHANGED <<part, ghosts>>
-----------------------------------------------------------------------------
(* curl_easy_perform, with the write and progress callbacks.                *)

Served == resumeByte = 0 \/ ranges

Receive ==
    /\ pc = "perform" /\ Served /\ resumeByte + dlnow < Length
    /\ part' = Append(part, resumeByte + dlnow + 1)
    /\ dlnow' = dlnow + 1
    /\ UNCHANGED <<pc, call, target, resumeByte, result, ghosts>>

Complete ==
    /\ pc = "perform" /\ Served /\ resumeByte + dlnow >= Length
    /\ pc' = "remove"
    /\ UNCHANGED <<call, files, transfer, result, ghosts>>

\* Faulty form: what has been received is thrown away.
BreakRemoves ==
    /\ pc = "perform"
    /\ part' = <<>>
    /\ Return(FALSE)
    /\ UNCHANGED <<target, ghosts>>

\* The connection breaks, the server refuses, the download is cancelled, or 10 s
\* pass without data: the call fails and the .part file stays.
Break ==
    /\ pc = "perform"
    /\ Return(FALSE)
    /\ UNCHANGED <<files, ghosts>>

\* The total is not known 5 s after the start, whether data comes or not: a resumed
\* download starts again.
Silent == pc = "perform" /\ resumeDownload /\ faults < MaxFaults

\* Faulty form: the next transfer resumes too.
NoDataResumes ==
    /\ Silent
    /\ faults' = faults
    /\ pc' = "open"
    /\ UNCHANGED <<call, files, transfer, result, ranges, appended, told>>

\* Faulty form: the .part file is not removed.
NoDataKeepsPart ==
    /\ Silent
    /\ faults' = faults + 1
    /\ resumeDownload' = FALSE
    /\ pc' = "open"
    /\ UNCHANGED <<breakContinue, files, transfer, result, ranges, appended, told>>

NoData ==
    /\ Silent
    /\ faults' = faults + 1
    /\ resumeDownload' = FALSE
    /\ Remove(part) /\ (appended => part' = <<>>)
    /\ appended' = (appended \/ part' # <<>>)
    /\ pc' = "open"
    /\ UNCHANGED <<breakContinue, target, transfer, result, ranges, told>>
-----------------------------------------------------------------------------
RemoveTarget ==
    /\ pc = "remove"
    /\ Remove(target)
    /\ pc' = "rename"
    /\ UNCHANGED <<call, part, transfer, result, ghosts>>

\* Nothing can be renamed to a file that is there.
Rename ==
    /\ pc = "rename" /\ target = <<>>
    /\ target' = part /\ part' = <<>>
    /\ Return(TRUE)
    /\ UNCHANGED ghosts

RenameFails ==
    /\ pc = "rename"
    /\ refused' = TRUE
    /\ Return(TRUE)
    /\ UNCHANGED <<files, ranges, appended, misled, faults>>

\* The process is killed: of what this transfer has written, the tail may still
\* be in the buffer of fp, which is closed before the rename.
Crash ==
    /\ pc # "idle" /\ faults < MaxFaults
    /\ faults' = faults + 1
    /\ \E n \in 0..(IF pc = "perform" THEN dlnow ELSE 0) :
            part' = SubSeq(part, 1, Len(part) - n)
    /\ Return(FALSE)
    /\ UNCHANGED <<target, ranges, appended, told>>
-----------------------------------------------------------------------------
Next ==
    \/ \E b \in BOOLEAN : DownloadFile(b)
    \/ LengthUnknown \/ AlreadyThere \/ Begin
    \/ Open \/ OpenFails
    \/ Receive \/ Complete \/ Break \/ NoData
    \/ RemoveTarget \/ Rename \/ RenameFails
    \/ Crash

Spec == Init /\ [][Next]_vars

(* A call goes on once it has the length, and the progress callback runs      *)
(* every second, so that a transfer breaks some day if it does not end.  The  *)
(* caller tries again with breakContinue; what may succeed again and again,   *)
(* the HEAD, the transfer and the file system, does succeed at last.          *)
Fairness ==
    /\ WF_vars(Open \/ RemoveTarget \/ Rename \/ RenameFails)
    /\ WF_vars(Receive \/ Complete \/ Break)
    /\ SF_vars(DownloadFile(TRUE))
    /\ SF_vars(Begin /\ breakContinue)
    /\ SF_vars(Open /\ resumeDownload)
    /\ SF_vars(Receive)
    /\ SF_vars(Complete)
    /\ SF_vars(RemoveTarget /\ target' = <<>>)
    /\ SF_vars(Rename)

FairSpec == Spec /\ Fairness
-----------------------------------------------------------------------------
\* The file that appears under the name asked for is the file served, whole and
\* once, however often the download broke, was killed, resumed or started again
\* (CurlClient.cpp:302-347); and TRUE means that it is there, unless the rename has
\* failed or the HEAD has told the length of the file that was there.  It says nothing
\* once a transfer that does not resume has found a .part file: it appends to that
\* (line 256), as the default call after a break does.
Delivered ==
    ~appended =>
        /\ target \in {<<>>, Old, Remote}
        /\ pc = "idle" /\ result /\ ~refused /\ ~misled => target = Remote

\* A file that is there is removed only by a call whose HEAD has told another length
\* (lines 207-211), and by one that still resumes only when all of the file is there
\* again to take its place (lines 236-240, 346).
Kept ==
    [][target = Remote /\ target' # Remote =>
            misled /\ (resumeDownload => part = Remote \/ appended)]_vars

\* A call that has been told the length returns, whatever the network does: a silent
\* server is tried again only once, and then without a resume (lines 302-314).  The
\* HEAD before has neither a time-out nor a progress callback, and need not return.
Returns == pc \notin {"idle", "length"} ~> pc = "idle"

\* The steps that a call has still to take at most: the bytes not yet received, and
\* a second transfer while it resumes.
StepsLeft ==
    LET again == IF resumeDownload THEN Length + 2 ELSE 0 IN
    IF pc = "length" THEN 2 * Length + 7
    ELSE IF pc = "open" THEN Length + 4 + again
    ELSE IF pc = "perform" THEN Length - dlnow + 3 + again
    ELSE IF pc = "remove" THEN 2
    ELSE IF pc = "rename" THEN 1 ELSE 0

\* Every step of a call is one nearer to its end: the way back to the open, line
\* 314, is taken once at most, and no transfer receives more than the file.
CallShrinks == [][pc # "idle" => StepsLeft' < StepsLeft]_vars

\* With a server that can resume and leaves no HEAD without an answer, trying again
\* ends with the file: what has been received is not lost in between, nor is what could
\* not be renamed.
Completes == ranges /\ []<>(pc # "length") => <>(target = Remote \/ appended)
=============================================================================
