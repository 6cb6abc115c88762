------------------------------- MODULE LogParser -------------------------------
(***************************************************************************)
(* CLogParser::ParseLog: a log is cut into the runs of a service, each with *)
(* the images the service reported.  A run keeps how long ago it started,   *)
(* so that it can be replayed at the pace at which it was logged.           *)
(*                                                                         *)
(* The time of a line is its place in the log.  A detail names the game of  *)
(* the image it is one of; its area and its text are not there.             *)
(***************************************************************************)
EXTENDS Integers, Sequences

CONSTANT MaxCount      \* the details an image announces, at most

ASSUME CountAssumption == MaxCount \in Nat \ {0}

Line ==
    [kind : {"start", "detail", "other"}] \cup [kind : {"image"}, cnt : 1..MaxCount]

VARIABLES
    now,           \* UtilsTools::GetTimestamp
    strList,       \* the lines of the log
    it,            \* the line ParseLog is at, 0 outside it
    st,            \* the run that is being read
    m_Services,
    parsedAt,      \* history: when each of m_Services was read
    known,         \* history: how many of them are of earlier logs
    readAt         \* history: when the last log was read

logVars == <<strList, known, readAt>>
serviceVars == <<m_Services, parsedAt>>
parseVars == <<logVars, it, st, serviceVars>>

NewService == [m_timeGap |-> 0, m_vecData |-> <<>>]

Entry == [m_time : Nat, m_type : {"Unknown", "TrigHL"}]

ServiceTimer == [m_timeGap : Int, m_vecData : Seq(Entry)]

ParserTypeOK ==
    /\ now \in Nat
    /\ strList \in Seq(Line) /\ it \in 0..Len(strList) + 2
    /\ st \in ServiceTimer /\ m_Services \in Seq(ServiceTimer)
    /\ parsedAt \in Seq(Nat) /\ known \in 0..Len(m_Services) /\ readAt \in Nat

ParserInit ==
    /\ strList = <<>> /\ it = 0
    /\ st = NewService
    /\ m_Services = <<>> /\ parsedAt = <<>> /\ known = 0 /\ readAt = 0

GetPastTime(time) == now - time

\* The services of earlier logs are not cleared.
ParseLog(log) ==
    /\ it = 0
    /\ strList' = log /\ it' = 1 /\ st' = NewService
    /\ known' = Len(m_Services) /\ readAt' = now
    /\ UNCHANGED serviceVars

PushService ==
    IF st.m_timeGap > 0
    THEN /\ m_Services' = Append(m_Services, st)
         /\ parsedAt' = Append(parsedAt, now)
    ELSE UNCHANGED serviceVars

Add(service, type) ==
    [service EXCEPT !.m_vecData = Append(@, [m_time |-> it, m_type |-> type])]

AtLine(kinds) == it \in 1..Len(strList) /\ strList[it].kind \in kinds

\* Faulty form: the run is pushed, and what it holds is kept for the next one.
ParseStartNoReset ==
    /\ AtLine({"start"})
    /\ PushService
    /\ st' = Add([st EXCEPT !.m_timeGap = GetPastTime(it)], "Unknown")
    /\ it' = it + 1
    /\ UNCHANGED logVars

\* Faulty form: the time is taken before the last run is pushed.
ParseStartTimeFirst ==
    /\ AtLine({"start"})
    /\ IF st.m_timeGap > 0
       THEN /\ m_Services' = Append(m_Services, [st EXCEPT !.m_timeGap = GetPastTime(it)])
            /\ parsedAt' = Append(parsedAt, now)
       ELSE UNCHANGED serviceVars
    /\ LET kept == IF st.m_timeGap > 0 THEN NewService ELSE st
       IN st' = Add([kept EXCEPT !.m_timeGap = GetPastTime(it)], "Unknown")
    /\ it' = it + 1
    /\ UNCHANGED logVars

\* A run that has started in the past is pushed.  One that has not, or what was read
\* before any start, becomes part of the next one.
ParseStart ==
    /\ AtLine({"start"})
    /\ PushService
    /\ LET kept == IF st.m_timeGap > 0 THEN NewService ELSE st
       IN st' = Add([kept EXCEPT !.m_timeGap = GetPastTime(it)], "Unknown")
    /\ it' = it + 1
    /\ UNCHANGED logVars

\* The lines after an image are taken for its details, whatever they are.
Details(i) == {j \in i + 1..i + strList[i].cnt : j <= Len(strList)}

\* The last detail says which game it is.  A line of another kind may say nothing, or
\* have the fields of a detail and no game in them; that of an image has them.
GameKnown(i) ==
    \E j \in Details(i) :
        /\ strList[j].kind = "detail"
        /\ \A k \in Details(i) : k > j => strList[k].kind \in {"start", "other"}

GameUnknown(i) ==
    \A j \in Details(i) :
        strList[j].kind = "detail" => \E k \in Details(i) : k > j

\* Faulty form: an image takes a line more than it announces.
ParseImageOneMore ==
    /\ AtLine({"image"})
    /\ \/ GameKnown(it) /\ st' = Add(st, "TrigHL")
       \/ GameUnknown(it) /\ UNCHANGED st
    /\ it' = IF it + strList[it].cnt >= Len(strList) THEN Len(strList) + 2
             ELSE it + strList[it].cnt + 2
    /\ UNCHANGED <<logVars, serviceVars>>

\* The inner loop stops at the end of the log, and the outer one steps past it.
ParseImage ==
    /\ AtLine({"image"})
    /\ \/ GameKnown(it) /\ st' = Add(st, "TrigHL")
       \/ GameUnknown(it) /\ UNCHANGED st
    /\ it' = IF it + strList[it].cnt > Len(strList) THEN Len(strList) + 2
             ELSE it + strList[it].cnt + 1
    /\ UNCHANGED <<logVars, serviceVars>>

ParseUnknown ==
    /\ AtLine({"detail", "other"})
    /\ it' = it + 1
    /\ UNCHANGED <<logVars, st, serviceVars>>

ParseLine == ParseStart \/ ParseImage \/ ParseUnknown

ParseEnd ==
    /\ it = Len(strList) + 1
    /\ PushService
    /\ it' = 0
    /\ UNCHANGED <<logVars, st>>

PastEnd == it = Len(strList) + 2
=============================================================================
