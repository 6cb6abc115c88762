--------------------------- MODULE HlTestDlgProofs ---------------------------
(***************************************************************************)
(* A log dropped on the dialog is cut into the runs that have started, and  *)
(* its images are replayed no sooner than they were logged: for logs of any *)
(* length, images of any number of details, and whatever calls of the SDK   *)
(* are on the way.                                                          *)
(***************************************************************************)
EXTENDS HlTestDlg, WellFoundedInduction, TLAPS

Runs == known + 1..Len(m_Services)

Starts(S) == {i \in S : strList[i].kind = "start"}
Images(S) == {i \in S : strList[i].kind = "image"}

IsLatest(t, times) == t \in times /\ \A u \in times : u <= t

\* The lines before the one ParseLog is at are heads if they are in S, and none of
\* these takes the rest for its details.
HeadsSoFar(S) ==
    /\ S \in SUBSET (1..Len(strList)) /\ \A j \in S : j < it
    /\ \A i \in 1..Len(strList) :
        IF i < it THEN i \in S <=> \A j \in S : ~Covers(j, i)
                  ELSE \A j \in S : ~Covers(j, i)

\* A run holds heads only, in order, each image after its own start.
Sorted(service, starts, images) ==
    /\ InOrder(service)
    /\ Times(service, "Unknown") \subseteq starts
    /\ Times(service, "TrigHL") \subseteq images
    /\ \A t \in Times(service, "TrigHL"), l \in starts :
        IsLatest(l, {s \in starts : s < t}) => l \in Times(service, "Unknown")

Precedes(service, other) == \A t \in AllTimes(service), u \in AllTimes(other) : t < u

\* The time of a run is that of its last start.
Paced(service, time) ==
    \E t \in Nat :
        IsLatest(t, Times(service, "Unknown")) /\ service.m_timeGap = time - t

\* A run that has been pushed has one start, in the past.
Pushed(service, time) ==
    \E s \in Nat :
        /\ s < time
        /\ service.m_timeGap = time - s /\ Times(service, "Unknown") = {s}

AllSorted(S) ==
    /\ Sorted(st, Starts(S), Images(S))
    /\ \A r \in Runs :
        /\ Sorted(m_Services[r], Starts(S), Images(S))
        /\ Precedes(m_Services[r], st) /\ Pushed(m_Services[r], now)
    /\ \A r, q \in Runs : r < q => Precedes(m_Services[r], m_Services[q])

\* Nothing is lost while the log is read.
Recorded(S) ==
    /\ \A h \in Starts(S) :
        \/ h \in Times(st, "Unknown")
        \/ \E r \in Runs : h \in Times(m_Services[r], "Unknown")
    /\ \A h \in Images(S) : ~GameUnknown(h) =>
        \/ h \in Times(st, "TrigHL")
        \/ \E r \in Runs : h \in Times(m_Services[r], "TrigHL")

\* The last start is that of the run being read; all others in it are in the future.
LastStart(S) ==
    /\ \A l \in Nat : IsLatest(l, Starts(S)) => l \in Times(st, "Unknown")
    /\ \/ Times(st, "Unknown") = {} /\ st.m_timeGap = 0
       \/ Paced(st, now)
    /\ \A s, l \in Times(st, "Unknown") : s < l => s >= now

Parsing(S) == HeadsSoFar(S) /\ AllSorted(S) /\ Recorded(S) /\ LastStart(S)

Reading ==
    /\ main = "parse" => it >= 1 /\ readAt = now
    /\ main \notin {"parse", "undefined"} => it = 0
    /\ main = "parse" /\ it <= Len(strList) + 1 => \E S : Parsing(S)

AllPaced ==
    /\ Len(parsedAt) = Len(m_Services)
    /\ \A r \in 1..Len(m_Services) : Paced(m_Services[r], parsedAt[r])

LogIsRead == RunsAre(HeadsOf("start"), HeadsOf("image"))

\* The replay is at an entry, or past the last one.
AtEntry ==
    main = "replay" \/ (main = "send" /\ after = "replay") =>
        /\ LogIsRead
        /\ pos[1] >= 1 /\ pos[2] >= 1
        /\ pos[1] <= Len(m_Services) => pos[2] <= Len(m_Services[pos[1]].m_vecData)

IInv == TypeOK /\ Reading /\ AllPaced /\ AtEntry
-----------------------------------------------------------------------------
(* Least and greatest numbers.                                              *)

\* A set of naturals that is not empty has a least element.
LEMMA MinExists ==
    ASSUME NEW T \in SUBSET Nat, T # {}
    PROVE  \E m \in T : \A u \in T : m <= u
<1> DEFINE less == {p \in Nat \X Nat : p[1] < p[2]}
<1>1. OpToRel(<, Nat) = less
  BY DEF OpToRel
<1>2. IsWellFoundedOn(less, Nat)
  BY <1>1, NatLessThanWellFounded
<1> HIDE DEF less
<1>3. PICK m \in T : \A u \in T : ~(<<u, m>> \in less)
  BY <1>2, WFMin
<1>4. ASSUME NEW u \in T PROVE m <= u
  <2>1. <<u, m>> \in Nat \X Nat /\ <<u, m>>[1] = u /\ <<u, m>>[2] = m
    OBVIOUS
  <2>2. ~(u < m)
    BY <1>3, <2>1 DEF less
  <2>3. QED
    BY <2>2
<1>5. QED
  BY <1>4

\* If it is bounded it has a greatest one.
LEMMA MaxExists ==
    ASSUME NEW T \in SUBSET Nat, T # {}, NEW n \in Nat, \A t \in T : t <= n
    PROVE  \E m \in T : IsLatest(m, T)
<1> DEFINE bounds == {u \in Nat : \A t \in T : t <= u}
<1>1. PICK m \in bounds : \A u \in bounds : m <= u
  <2>1. bounds \in SUBSET Nat /\ bounds # {}
    OBVIOUS
  <2> HIDE DEF bounds
  <2>2. QED
    BY <2>1, MinExists
<1>2. m \in T
  <2> SUFFICES ASSUME m \notin T PROVE FALSE
    OBVIOUS
  <2>1. m \in Nat /\ \A t \in T : t \in Nat /\ t <= m /\ t # m
    OBVIOUS
  <2>2. m - 1 \in Nat
    <3>1. PICK t \in T : TRUE
      OBVIOUS
    <3>2. QED
      BY <2>1, <3>1
  <2>3. \A t \in T : t <= m - 1
    BY <2>1
  <2>4. QED
    BY <1>1, <2>1, <2>2, <2>3
<1>3. QED
  BY <1>2 DEF IsLatest

\* Latest chooses it.
LEMMA LatestIs ==
    ASSUME NEW T \in SUBSET Nat, NEW m \in T, IsLatest(m, T)
    PROVE  Latest(T) = m
<1>1. IsLatest(Latest(T), T)
  BY DEF Latest, IsLatest
<1>2. Latest(T) \in Nat /\ m \in Nat /\ Latest(T) <= m /\ m <= Latest(T)
  BY <1>1 DEF IsLatest
<1>3. QED
  BY <1>2

\* A bounded set that is not empty has a latest member, and Latest chooses it.
LEMMA LatestExists ==
    ASSUME NEW T \in SUBSET Nat, T # {}, NEW n \in Nat, \A t \in T : t <= n
    PROVE  IsLatest(Latest(T), T)
<1>1. PICK m \in T : IsLatest(m, T)
  BY MaxExists
<1>2. QED
  BY <1>1, LatestIs

\* Which lines are heads is decided from the first line on.
LEMMA HeadsAreUnique ==
    ASSUME strList \in Seq(Line), NEW S \in SUBSET (1..Len(strList)), IsHeads(S)
    PROVE  Heads = S
<1>1. Heads \in SUBSET (1..Len(strList)) /\ IsHeads(Heads)
  BY DEF Heads
<1> DEFINE wrong == {i \in 1..Len(strList) : ~(i \in S <=> i \in Heads)}
<1> SUFFICES ASSUME wrong # {} PROVE FALSE
  BY <1>1
<1>2. PICK m \in wrong : \A u \in wrong : m <= u
  <2>1. wrong \in SUBSET Nat
    OBVIOUS
  <2> HIDE DEF wrong
  <2>2. QED
    BY <2>1, MinExists
<1>3. m \in 1..Len(strList) /\ ~(m \in S <=> m \in Heads)
  BY <1>2
<1>4. \A j \in 1..Len(strList) : Covers(j, m) => j < m
  BY <1>3 DEF Covers
<1>5. \A j \in 1..Len(strList) : j < m => (j \in S <=> j \in Heads)
  <2> SUFFICES ASSUME NEW j \in 1..Len(strList), j < m PROVE j \in S <=> j \in Heads
    OBVIOUS
  <2>1. j \notin wrong
    BY <1>2, <1>3
  <2>2. QED
    BY <2>1
<1>6. (\A j \in S : ~Covers(j, m)) <=> (\A j \in Heads : ~Covers(j, m))
  BY <1>1, <1>4, <1>5
<1>7. (m \in S <=> \A j \in S : ~Covers(j, m)) /\ (m \in Heads <=> \A j \in Heads : ~Covers(j, m))
  BY <1>1, <1>3 DEF IsHeads
<1>8. QED
  BY <1>3, <1>6, <1>7
-----------------------------------------------------------------------------
(* The entries of a run.                                                    *)

\* The times of a run are naturals, and every entry has its own among them.
LEMMA TimesAre ==
    ASSUME NEW service \in ServiceTimer
    PROVE  /\ \A type \in {"Unknown", "TrigHL"} : Times(service, type) \in SUBSET Nat
           /\ \A i \in 1..Len(service.m_vecData) :
                /\ service.m_vecData[i] \in Entry
                /\ service.m_vecData[i].m_time
                        \in Times(service, service.m_vecData[i].m_type)
           /\ \A type \in {"Unknown", "TrigHL"} : \A t \in Times(service, type) :
                \E i \in 1..Len(service.m_vecData) :
                    service.m_vecData[i] = [m_time |-> t, m_type |-> type]
<1>1. \A i \in 1..Len(service.m_vecData) : service.m_vecData[i] \in Entry
  BY DEF ServiceTimer
<1>2. \A type \in {"Unknown", "TrigHL"} : Times(service, type) \in SUBSET Nat
  BY <1>1 DEF Times, Entry
<1>3. \A i \in 1..Len(service.m_vecData) :
        service.m_vecData[i].m_time \in Times(service, service.m_vecData[i].m_type)
  BY DEF Times
<1>4. ASSUME NEW type \in {"Unknown", "TrigHL"}, NEW t \in Times(service, type)
      PROVE  \E i \in 1..Len(service.m_vecData) :
                service.m_vecData[i] = [m_time |-> t, m_type |-> type]
  <2>1. PICK i \in 1..Len(service.m_vecData) :
            service.m_vecData[i].m_type = type /\ service.m_vecData[i].m_time = t
    BY DEF Times
  <2>2. QED
    BY <1>1, <2>1 DEF Entry
<1>5. QED
  BY <1>1, <1>2, <1>3, <1>4

\* A run that has just been reset has none.
LEMMA NewServiceIsEmpty ==
    /\ NewService \in ServiceTimer /\ NewService.m_timeGap = 0
    /\ \A type : Times(NewService, type) = {}
    /\ InOrder(NewService)
BY DEF NewService, ServiceTimer, Times, InOrder

\* An entry is added at the end, later than all others.
LEMMA AddsEntry ==
    ASSUME NEW service \in ServiceTimer, NEW type \in {"Unknown", "TrigHL"}, it \in Nat,
           \A t \in AllTimes(service) : t < it, InOrder(service)
    PROVE  LET new == Add(service, type)
           IN /\ new \in ServiceTimer /\ new.m_timeGap = service.m_timeGap
              /\ Times(new, type) = Times(service, type) \cup {it}
              /\ \A other : other # type => Times(new, other) = Times(service, other)
              /\ InOrder(new)
<1> DEFINE e == [m_time |-> it, m_type |-> type]
           data == service.m_vecData
           new == Add(service, type)
<1>1. e \in Entry /\ data \in Seq(Entry) /\ service.m_timeGap \in Int
  BY DEF Entry, ServiceTimer
<1>2. new = [m_timeGap |-> service.m_timeGap, m_vecData |-> Append(data, e)]
  <2>1. new = [service EXCEPT !.m_vecData = Append(data, e)]
    BY Zenon DEF Add
  <2>2. service = [m_timeGap |-> service.m_timeGap, m_vecData |-> data]
    BY DEF ServiceTimer
  <2> HIDE DEF new, data, e
  <2>3. QED
    BY <2>1, <2>2
<1>3. new \in ServiceTimer
  BY <1>1, <1>2 DEF ServiceTimer
<1>4. new.m_timeGap = service.m_timeGap /\ new.m_vecData = Append(data, e)
  BY <1>2
<1> HIDE DEF new
<1>5. /\ Len(new.m_vecData) = Len(data) + 1 /\ new.m_vecData[Len(data) + 1] = e
      /\ \A i \in 1..Len(data) : new.m_vecData[i] = data[i]
      /\ Len(data) \in Nat
  BY <1>1, <1>4
<1> HIDE DEF e
<1>6. e.m_time = it /\ e.m_type = type
  BY DEF e
<1> HIDE DEF data
<1>7. \A other : Times(new, other) = {data[i].m_time : i \in {j \in 1..Len(data) : data[j].m_type = other}}
                    \cup (IF other = type THEN {it} ELSE {})
  <2> SUFFICES ASSUME NEW other
               PROVE  Times(new, other) =
                        {data[i].m_time : i \in {j \in 1..Len(data) : data[j].m_type = other}}
                            \cup (IF other = type THEN {it} ELSE {})
    OBVIOUS
  <2>1. {j \in 1..Len(data) + 1 : new.m_vecData[j].m_type = other} =
            {j \in 1..Len(data) : data[j].m_type = other}
                \cup (IF other = type THEN {Len(data) + 1} ELSE {})
    BY <1>5, <1>6
  <2>2. QED
    BY <1>5, <1>6, <2>1 DEF Times
<1>8. InOrder(new)
  <2>1. \A i \in 1..Len(data) : data[i].m_time \in Nat /\ data[i].m_time < it
    <3>1. \A i \in 1..Len(data) : data[i] \in Entry /\ data[i].m_time \in AllTimes(service)
      BY TimesAre DEF data, AllTimes, Entry
    <3>2. QED
      BY <3>1 DEF Entry
  <2>2. \A i, j \in 1..Len(data) : i < j => data[i].m_time < data[j].m_time
    BY DEF InOrder, data
  <2>3. SUFFICES ASSUME NEW i \in 1..Len(data) + 1, NEW j \in 1..Len(data) + 1, i < j
                 PROVE  new.m_vecData[i].m_time < new.m_vecData[j].m_time
    BY <1>5 DEF InOrder
  <2>4. i \in 1..Len(data) /\ new.m_vecData[i] = data[i]
    BY <1>5, <2>3
  <2>5. CASE j \in 1..Len(data)
    BY <1>5, <2>2, <2>3, <2>4, <2>5
  <2>6. CASE j = Len(data) + 1
    BY <1>5, <1>6, <2>1, <2>4, <2>6
  <2>7. QED
    BY <1>5, <2>5, <2>6
<1>9. Times(new, type) = Times(service, type) \cup {it}
  BY <1>7 DEF data, Times
<1>10. \A other : other # type => Times(new, other) = Times(service, other)
  BY <1>7 DEF data, Times
<1>11. QED
  BY <1>3, <1>4, <1>8, <1>9, <1>10 DEF new

\* The time of a run says nothing of its entries.
LEMMA GapKeepsEntries ==
    ASSUME NEW service \in ServiceTimer, NEW gap \in Int
    PROVE  LET new == [service EXCEPT !.m_timeGap = gap]
           IN /\ new \in ServiceTimer /\ new.m_timeGap = gap
              /\ \A type : Times(new, type) = Times(service, type)
              /\ InOrder(new) <=> InOrder(service)
<1> DEFINE new == [service EXCEPT !.m_timeGap = gap]
<1>1. new \in ServiceTimer /\ new.m_timeGap = gap /\ new.m_vecData = service.m_vecData
  BY DEF ServiceTimer
<1> HIDE DEF new
<1>2. QED
  BY <1>1 DEF Times, InOrder, new
-----------------------------------------------------------------------------
(* ParseLog: one head after the other.                                      *)

\* The line ParseLog is at is a head, and the next one is where it goes.
LEMMA HeadsGrow ==
    ASSUME TypeOK, NEW S, HeadsSoFar(S), NEW T, T = S \cup {it}, it \in 1..Len(strList),
           strList' = strList,
           it' = it + 1 + (IF strList[it].kind = "image" THEN strList[it].cnt ELSE 0)
    PROVE  HeadsSoFar(T)'
<1>1. /\ strList \in Seq(Line) /\ Len(strList) \in Nat /\ MaxCount \in Nat
      /\ strList[it].kind = "image" => strList[it].cnt \in Nat
  <2>1. strList \in Seq(Line) /\ Len(strList) \in Nat /\ MaxCount \in Nat
    BY CountAssumption DEF TypeOK, ParserTypeOK
  <2>2. strList[it] \in Line
    BY <2>1
  <2>3. strList[it].kind = "image" => strList[it] \in [kind : {"image"}, cnt : 1..MaxCount]
    BY <2>2 DEF Line
  <2>4. QED
    BY <2>1, <2>3
<1>2. \A j \in 1..Len(strList), i \in 1..Len(strList) : Covers(j, i)' <=> Covers(j, i)
  BY DEF Covers
<1>3. it' \in Nat /\ it < it'
  BY <1>1
<1>4. T \in SUBSET (1..Len(strList)) /\ \A j \in T : j < it'
  BY <1>1, <1>3 DEF HeadsSoFar
<1>5. \A i \in 1..Len(strList) : Covers(it, i) <=> it < i /\ i < it'
  BY <1>1 DEF Covers
<1>6. ASSUME NEW i \in 1..Len(strList), i < it'
      PROVE  i \in T <=> \A j \in T : ~Covers(j, i)
  <2>1. CASE i < it
    BY <1>1, <1>5, <2>1 DEF HeadsSoFar
  <2>2. CASE i = it
    BY <1>1, <1>5, <2>2 DEF HeadsSoFar
  <2>3. CASE it < i
    BY <1>1, <1>5, <1>6, <2>3 DEF HeadsSoFar
  <2>4. QED
    BY <1>1, <2>1, <2>2, <2>3
<1>7. ASSUME NEW i \in 1..Len(strList), ~(i < it'), NEW j \in T
      PROVE  ~Covers(j, i)
  <2>1. ~(i < it)
    BY <1>1, <1>3, <1>7
  <2>2. CASE j \in S
    BY <2>1, <2>2 DEF HeadsSoFar
  <2>3. CASE j = it
    BY <1>5, <1>7, <2>3
  <2>4. QED
    BY <2>2, <2>3
<1>8. QED
  BY <1>2, <1>4, <1>6, <1>7 DEF HeadsSoFar

\* The log stays as it is.
LEMMA SameLog ==
    ASSUME strList' = strList, NEW S
    PROVE  /\ Starts(S)' = Starts(S) /\ Images(S)' = Images(S)
           /\ \A h : GameUnknown(h)' <=> GameUnknown(h)
BY DEF Starts, Images, GameUnknown, Details

\* What is read so far is made of naturals before the line ParseLog is at.
LEMMA ReadBefore ==
    ASSUME TypeOK, NEW S, HeadsSoFar(S), AllSorted(S)
    PROVE  /\ Starts(S) \in SUBSET Nat /\ Images(S) \in SUBSET Nat
           /\ \A s \in Starts(S) \cup Images(S) : s < it
           /\ \A t \in AllTimes(st) : t \in Nat /\ t < it
           /\ \A r \in Runs : \A t \in AllTimes(m_Services[r]) : t \in Nat /\ t < it
<1>1. S \in SUBSET Nat /\ \A j \in S : j < it
  BY DEF HeadsSoFar, TypeOK, ParserTypeOK
<1>2. Starts(S) \subseteq S /\ Images(S) \subseteq S
  BY DEF Starts, Images
<1>3. AllTimes(st) \subseteq Starts(S) \cup Images(S)
  BY DEF AllSorted, Sorted, AllTimes
<1>4. \A r \in Runs : AllTimes(m_Services[r]) \subseteq Starts(S) \cup Images(S)
  BY DEF AllSorted, Sorted, AllTimes
<1>5. QED
  BY <1>1, <1>2, <1>3, <1>4

\* A run stays sorted when later heads are found.
LEMMA SortedGrows ==
    ASSUME NEW A, NEW B, NEW C, NEW D, NEW n \in Nat, NEW service \in ServiceTimer,
           Sorted(service, A, B), A \subseteq Nat, B \subseteq Nat, \A s \in A \cup B : s < n,
           C \in {A, A \cup {n}}, D \in {B, B \cup {n}}
    PROVE  Sorted(service, C, D)
<1>1. /\ InOrder(service)
      /\ Times(service, "Unknown") \subseteq C
      /\ Times(service, "TrigHL") \subseteq D
  BY DEF Sorted
<1>2. ASSUME NEW t \in Times(service, "TrigHL"), NEW l \in C,
             IsLatest(l, {s \in C : s < t})
      PROVE  l \in Times(service, "Unknown")
  <2>1. t \in Nat /\ t < n
    BY DEF Sorted
  <2>2. {s \in C : s < t} = {s \in A : s < t}
    BY <2>1
  <2>3. l \in A
    BY <1>2, <2>2 DEF IsLatest
  <2>4. QED
    BY <1>2, <2>2, <2>3 DEF Sorted
<1>3. QED
  BY <1>1, <1>2 DEF Sorted

\* A line that is neither a start nor an image.
LEMMA UnknownKeeps ==
    ASSUME TypeOK, NEW S, Parsing(S), NEW T, T = S \cup {it}, ParseUnknown, now' = now
    PROVE  Parsing(T)'
<1>1. /\ it \in 1..Len(strList) /\ strList[it].kind \in {"detail", "other"}
      /\ it' = it + 1 /\ strList' = strList /\ known' = known /\ readAt' = readAt
      /\ st' = st /\ m_Services' = m_Services /\ parsedAt' = parsedAt
  BY DEF ParseUnknown, AtLine, logVars, serviceVars
<1>2. HeadsSoFar(T)'
  <2>1. it' = it + 1 + (IF strList[it].kind = "image" THEN strList[it].cnt ELSE 0)
    BY <1>1 DEF TypeOK, ParserTypeOK
  <2>2. QED
    BY <1>1, <2>1, HeadsGrow DEF Parsing
<1>3. Starts(T)' = Starts(S) /\ Images(T)' = Images(S)
  BY <1>1 DEF Starts, Images
<1>4. \A h : GameUnknown(h)' <=> GameUnknown(h)
  BY <1>1, SameLog
<1>5. Runs' = Runs
  BY <1>1 DEF Runs
<1>6. AllSorted(T)'
  BY <1>1, <1>3, <1>5 DEF Parsing, AllSorted
<1>7. Recorded(T)'
  BY <1>1, <1>3, <1>4, <1>5 DEF Parsing, Recorded
<1>8. LastStart(T)'
  BY <1>1, <1>3 DEF Parsing, LastStart
<1>9. QED
  BY <1>2, <1>6, <1>7, <1>8 DEF Parsing

\* An image: it joins the run being read, if its game is known.
LEMMA ImageKeeps ==
    ASSUME TypeOK, NEW S, Parsing(S), NEW T, T = S \cup {it}, ParseImage, now' = now,
           it' <= Len(strList) + 1
    PROVE  Parsing(T)' /\ st' \in ServiceTimer
<1>1. /\ it \in 1..Len(strList) /\ strList[it].kind = "image"
      /\ strList' = strList /\ known' = known /\ readAt' = readAt
      /\ m_Services' = m_Services /\ parsedAt' = parsedAt
  BY DEF ParseImage, AtLine, logVars, serviceVars
<1>2. HeadsSoFar(T)'
  <2>1. strList[it].cnt \in Nat /\ Len(strList) \in Nat /\ it \in Nat
    <3>1. strList[it] \in Line /\ MaxCount \in Nat
      BY <1>1, CountAssumption DEF TypeOK, ParserTypeOK
    <3>2. strList[it] \in [kind : {"image"}, cnt : 1..MaxCount]
      BY <1>1, <3>1 DEF Line
    <3>3. strList[it].cnt \in Nat
      BY <3>1, <3>2
    <3>4. Len(strList) \in Nat /\ it \in Nat
      BY <1>1 DEF TypeOK, ParserTypeOK
    <3>5. QED
      BY <3>3, <3>4
  <2>2. it' = it + strList[it].cnt + 1
    BY <2>1 DEF ParseImage
  <2>3. QED
    BY <1>1, <2>1, <2>2, HeadsGrow DEF Parsing
<1>3. Starts(T)' = Starts(S) /\ Images(T)' = Images(S) \cup {it}
  BY <1>1 DEF Starts, Images
<1>4. \A h : GameUnknown(h)' <=> GameUnknown(h)
  BY <1>1, SameLog
<1>5. Runs' = Runs
  BY <1>1 DEF Runs
<1>6. /\ st \in ServiceTimer /\ it \in Nat
      /\ \A r \in Runs : m_Services[r] \in ServiceTimer
  BY DEF TypeOK, ParserTypeOK, Runs
<1>7. /\ Starts(S) \in SUBSET Nat /\ Images(S) \in SUBSET Nat
      /\ \A s \in Starts(S) \cup Images(S) : s < it
      /\ \A t \in AllTimes(st) : t \in Nat /\ t < it
      /\ \A r \in Runs : \A t \in AllTimes(m_Services[r]) : t \in Nat /\ t < it
  BY ReadBefore DEF Parsing
<1>8. \/ st' = Add(st, "TrigHL")
      \/ GameUnknown(it) /\ st' = st
  BY DEF ParseImage
<1>9. st' = Add(st, "TrigHL") =>
        /\ st' \in ServiceTimer /\ st'.m_timeGap = st.m_timeGap
        /\ Times(st', "TrigHL") = Times(st, "TrigHL") \cup {it}
        /\ Times(st', "Unknown") = Times(st, "Unknown")
        /\ InOrder(st')
  <2>1. InOrder(st)
    BY DEF Parsing, AllSorted, Sorted
  <2>2. LET new == Add(st, "TrigHL")
        IN /\ new \in ServiceTimer /\ new.m_timeGap = st.m_timeGap
           /\ Times(new, "TrigHL") = Times(st, "TrigHL") \cup {it}
           /\ \A other : other # "TrigHL" => Times(new, other) = Times(st, other)
           /\ InOrder(new)
    BY <1>6, <1>7, <2>1, AddsEntry
  <2>3. QED
    BY <2>2
<1>10. /\ st' \in ServiceTimer /\ st'.m_timeGap = st.m_timeGap /\ InOrder(st')
       /\ Times(st', "Unknown") = Times(st, "Unknown")
       /\ \/ Times(st', "TrigHL") = Times(st, "TrigHL") \cup {it}
          \/ Times(st', "TrigHL") = Times(st, "TrigHL") /\ GameUnknown(it)
  BY <1>6, <1>8, <1>9 DEF Parsing, AllSorted, Sorted
<1>11. Sorted(st', Starts(S), Images(S) \cup {it})
  <2>1. Sorted(st, Starts(S), Images(S))
    BY DEF Parsing, AllSorted
  <2>2. /\ Times(st', "Unknown") \subseteq Starts(S)
        /\ Times(st', "TrigHL") \subseteq Images(S) \cup {it}
    BY <1>10, <2>1 DEF Sorted
  <2>3. ASSUME NEW t \in Times(st', "TrigHL"), NEW l \in Starts(S),
               IsLatest(l, {s \in Starts(S) : s < t})
        PROVE  l \in Times(st', "Unknown")
    <3>1. CASE t \in Times(st, "TrigHL")
      BY <1>10, <2>1, <2>3, <3>1 DEF Sorted
    <3>2. CASE t = it
      <4>1. {s \in Starts(S) : s < t} = Starts(S)
        BY <1>7, <3>2
      <4>2. IsLatest(l, Starts(S)) /\ l \in Nat
        BY <1>7, <2>3, <4>1
      <4>3. QED
        BY <1>10, <4>2 DEF Parsing, LastStart
    <3>3. QED
      BY <1>10, <3>1, <3>2
  <2>4. QED
    BY <1>10, <2>2, <2>3 DEF Sorted
<1>12. \A r \in Runs : Sorted(m_Services[r], Starts(S), Images(S) \cup {it})
  <2> TAKE r \in Runs
  <2>1. Sorted(m_Services[r], Starts(S), Images(S))
    BY DEF Parsing, AllSorted
  <2>2. QED
    BY <1>6, <1>7, <2>1, SortedGrows
<1>13. \A r \in Runs : Precedes(m_Services[r], st')
  <2> TAKE r \in Runs
  <2>1. Precedes(m_Services[r], st) /\ \A t \in AllTimes(m_Services[r]) : t < it
    BY <1>7 DEF Parsing, AllSorted
  <2>2. AllTimes(st') \subseteq AllTimes(st) \cup {it}
    BY <1>10 DEF AllTimes
  <2>3. QED
    BY <2>1, <2>2 DEF Precedes
<1>14. AllSorted(T)'
  BY <1>1, <1>3, <1>5, <1>11, <1>12, <1>13 DEF Parsing, AllSorted
<1>15. Recorded(T)'
  <2>1. ASSUME NEW h \in Starts(S)
        PROVE  \/ h \in Times(st', "Unknown")
               \/ \E r \in Runs : h \in Times(m_Services[r], "Unknown")
    BY <1>10 DEF Parsing, Recorded
  <2>2. ASSUME NEW h \in Images(S) \cup {it}, ~GameUnknown(h)
        PROVE  \/ h \in Times(st', "TrigHL")
               \/ \E r \in Runs : h \in Times(m_Services[r], "TrigHL")
    BY <1>10, <2>2 DEF Parsing, Recorded
  <2>3. QED
    BY <1>1, <1>3, <1>4, <1>5, <2>1, <2>2 DEF Recorded
<1>16. LastStart(T)'
  BY <1>1, <1>3, <1>10 DEF Parsing, LastStart, Paced
<1>17. QED
  BY <1>2, <1>10, <1>14, <1>15, <1>16 DEF Parsing

\* The time of a run that is pushed is that of its last start.
LEMMA PushKeepsPaced ==
    ASSUME TypeOK, AllPaced, PushService, st.m_timeGap > 0 => Paced(st, now)
    PROVE  /\ AllPaced'
           /\ m_Services' \in Seq(ServiceTimer) /\ parsedAt' \in Seq(Nat)
           /\ Len(m_Services) \in Nat /\ Len(m_Services) <= Len(m_Services')
           /\ \A r \in 1..Len(m_Services) : m_Services'[r] = m_Services[r]
           /\ IF st.m_timeGap > 0
              THEN /\ Len(m_Services') = Len(m_Services) + 1
                   /\ m_Services'[Len(m_Services) + 1] = st
              ELSE m_Services' = m_Services
<1>1. /\ m_Services \in Seq(ServiceTimer) /\ parsedAt \in Seq(Nat) /\ now \in Nat
      /\ st \in ServiceTimer /\ Len(parsedAt) = Len(m_Services) /\ Len(m_Services) \in Nat
  BY DEF TypeOK, ParserTypeOK, AllPaced
<1>2. CASE st.m_timeGap > 0
  <2>1. m_Services' = Append(m_Services, st) /\ parsedAt' = Append(parsedAt, now)
    BY <1>2 DEF PushService
  <2>2. /\ m_Services' \in Seq(ServiceTimer) /\ parsedAt' \in Seq(Nat)
        /\ Len(m_Services') = Len(m_Services) + 1 /\ Len(parsedAt') = Len(m_Services) + 1
        /\ \A r \in 1..Len(m_Services) :
            m_Services'[r] = m_Services[r] /\ parsedAt'[r] = parsedAt[r]
        /\ m_Services'[Len(m_Services) + 1] = st /\ parsedAt'[Len(m_Services) + 1] = now
    BY <1>1, <2>1
  <2>3. AllPaced'
    <3>1. ASSUME NEW r \in 1..Len(m_Services) + 1 PROVE Paced(m_Services'[r], parsedAt'[r])
      <4>1. CASE r \in 1..Len(m_Services)
        BY <2>2, <4>1 DEF AllPaced
      <4>2. CASE r = Len(m_Services) + 1
        BY <1>2, <2>2, <4>2
      <4>3. QED
        BY <1>1, <4>1, <4>2
    <3>2. QED
      BY <2>2, <3>1 DEF AllPaced
  <2>4. QED
    BY <1>1, <1>2, <2>2, <2>3
<1>3. CASE ~(st.m_timeGap > 0)
  BY <1>1, <1>3 DEF PushService, serviceVars, AllPaced
<1>4. QED
  BY <1>2, <1>3

\* A run that is pushed has one start: if there were others, they would be in the future.
LEMMA PushedIsPast ==
    ASSUME TypeOK, NEW S, Parsing(S), st.m_timeGap > 0
    PROVE  Pushed(st, now)
<1>1. PICK t \in Nat : IsLatest(t, Times(st, "Unknown")) /\ st.m_timeGap = now - t
  BY DEF Parsing, LastStart, Paced
<1>2. now \in Nat /\ t < now
  BY <1>1 DEF TypeOK, ParserTypeOK
<1>3. Times(st, "Unknown") \in SUBSET Nat
  BY TimesAre DEF TypeOK, ParserTypeOK
<1>4. ASSUME NEW s \in Times(st, "Unknown") PROVE s = t
  <2>1. s \in Nat /\ s <= t /\ (s < t => s >= now)
    BY <1>1, <1>3 DEF Parsing, LastStart, IsLatest
  <2>2. QED
    BY <1>2, <2>1
<1>5. Times(st, "Unknown") = {t}
  BY <1>1, <1>4 DEF IsLatest
<1>6. QED
  BY <1>1, <1>2, <1>5 DEF Pushed

\* A start: the run being read is pushed if it has started, and else goes on.
LEMMA StartKeeps ==
    ASSUME TypeOK, AllPaced, readAt = now, NEW S, Parsing(S), NEW T, T = S \cup {it},
           ParseStart, now' = now
    PROVE  Parsing(T)' /\ st' \in ServiceTimer
<1> DEFINE kept == IF st.m_timeGap > 0 THEN NewService ELSE st
           gap == now - it
<1>1. /\ it \in 1..Len(strList) /\ strList[it].kind = "start"
      /\ it' = it + 1 /\ strList' = strList /\ known' = known /\ readAt' = readAt
      /\ PushService /\ st' = Add([kept EXCEPT !.m_timeGap = gap], "Unknown")
  BY DEF ParseStart, AtLine, logVars, GetPastTime
<1>2. /\ st \in ServiceTimer /\ it \in Nat /\ now \in Nat /\ known \in Nat
      /\ known <= Len(m_Services) /\ Len(m_Services) \in Nat
      /\ \A r \in Runs : m_Services[r] \in ServiceTimer /\ r \in 1..Len(m_Services)
      /\ st.m_timeGap \in Int
  <2>1. /\ st \in ServiceTimer /\ now \in Nat /\ m_Services \in Seq(ServiceTimer)
        /\ Len(m_Services) \in Nat /\ known \in 0..Len(m_Services)
    BY DEF TypeOK, ParserTypeOK
  <2>2. it \in Nat
    BY <1>1
  <2>3. st.m_timeGap \in Int
    BY <2>1 DEF ServiceTimer
  <2>4. \A r \in Runs : m_Services[r] \in ServiceTimer /\ r \in 1..Len(m_Services)
    BY <2>1 DEF Runs
  <2>5. QED
    BY <2>1, <2>2, <2>3, <2>4
<1>3. HeadsSoFar(T)'
  <2>1. it' = it + 1 + (IF strList[it].kind = "image" THEN strList[it].cnt ELSE 0)
    BY <1>1, <1>2
  <2>2. QED
    BY <1>1, <2>1, HeadsGrow DEF Parsing
<1>4. Starts(T)' = Starts(S) \cup {it} /\ Images(T)' = Images(S)
  BY <1>1 DEF Starts, Images
<1>5. \A h : GameUnknown(h)' <=> GameUnknown(h)
  BY <1>1, SameLog
<1>6. /\ Starts(S) \in SUBSET Nat /\ Images(S) \in SUBSET Nat
      /\ \A s \in Starts(S) \cup Images(S) : s < it
      /\ \A t \in AllTimes(st) : t \in Nat /\ t < it
      /\ \A r \in Runs : \A t \in AllTimes(m_Services[r]) : t \in Nat /\ t < it
  BY ReadBefore DEF Parsing
<1>7. /\ kept \in ServiceTimer /\ InOrder(kept) /\ \A t \in AllTimes(kept) : t < it
      /\ st.m_timeGap > 0 => \A type : Times(kept, type) = {}
      /\ ~(st.m_timeGap > 0) => kept = st
  <2>1. InOrder(st)
    BY DEF Parsing, AllSorted, Sorted
  <2>2. QED
    BY <1>2, <1>6, <2>1, NewServiceIsEmpty DEF AllTimes
<1>8. /\ st' \in ServiceTimer /\ st'.m_timeGap = gap /\ InOrder(st')
      /\ Times(st', "Unknown") = Times(kept, "Unknown") \cup {it}
      /\ Times(st', "TrigHL") = Times(kept, "TrigHL")
  <2> HIDE DEF kept
  <2>1. PICK mid : mid = [kept EXCEPT !.m_timeGap = gap]
    OBVIOUS
  <2>2. gap \in Int
    BY <1>2
  <2>3. /\ mid \in ServiceTimer /\ mid.m_timeGap = gap /\ InOrder(mid)
        /\ \A type : Times(mid, type) = Times(kept, type)
    BY <1>7, <2>1, <2>2, GapKeepsEntries
  <2>4. \A t \in AllTimes(mid) : t < it
    BY <1>7, <2>3 DEF AllTimes
  <2>5. LET new == Add(mid, "Unknown")
        IN /\ new \in ServiceTimer /\ new.m_timeGap = mid.m_timeGap
           /\ Times(new, "Unknown") = Times(mid, "Unknown") \cup {it}
           /\ \A other : other # "Unknown" => Times(new, other) = Times(mid, other)
           /\ InOrder(new)
    BY <1>2, <2>3, <2>4, AddsEntry
  <2>6. st' = Add(mid, "Unknown")
    BY <1>1, <2>1
  <2>7. QED
    BY <2>3, <2>5, <2>6
<1> HIDE DEF kept
<1>9. st.m_timeGap > 0 => Paced(st, now)
  BY DEF Parsing, LastStart
<1>10. /\ Len(m_Services) <= Len(m_Services')
       /\ \A r \in 1..Len(m_Services) : m_Services'[r] = m_Services[r]
       /\ IF st.m_timeGap > 0
          THEN /\ Len(m_Services') = Len(m_Services) + 1
               /\ m_Services'[Len(m_Services) + 1] = st
          ELSE m_Services' = m_Services
  BY <1>1, <1>9, PushKeepsPaced
<1> DEFINE last == Len(m_Services) + 1
<1>11. IF st.m_timeGap > 0
       THEN Runs' = Runs \cup {last} /\ m_Services'[last] = st
       ELSE Runs' = Runs
  BY <1>1, <1>2, <1>10 DEF Runs
<1>12. /\ \A r \in Runs : m_Services'[r] = m_Services[r] /\ r < last
       /\ last \in Nat /\ last \notin Runs
  BY <1>2, <1>10 DEF Runs
<1> HIDE DEF last
<1> DEFINE A == Starts(S) \cup {it}
           B == Images(S)
<1>13. Sorted(st, A, B) /\ \A r \in Runs : Sorted(m_Services[r], A, B)
  <2>1. Sorted(st, A, B)
    <3>1. Sorted(st, Starts(S), Images(S))
      BY DEF Parsing, AllSorted
    <3>2. QED
      BY <1>2, <1>6, <3>1, SortedGrows
  <2>2. ASSUME NEW r \in Runs PROVE Sorted(m_Services[r], A, B)
    <3>1. Sorted(m_Services[r], Starts(S), Images(S))
      BY DEF Parsing, AllSorted
    <3>2. QED
      BY <1>2, <1>6, <3>1, SortedGrows
  <2>3. QED
    BY <2>1, <2>2
<1>14. Sorted(st', A, B)
  <2>1. CASE st.m_timeGap > 0
    BY <1>7, <1>8, <2>1 DEF Sorted
  <2>2. CASE ~(st.m_timeGap > 0)
    BY <1>7, <1>8, <1>13, <2>2 DEF Sorted
  <2>3. QED
    BY <2>1, <2>2
<1>15. /\ \A r \in Runs' : Sorted(m_Services'[r], A, B)
       /\ \A r \in Runs' : Precedes(m_Services'[r], st')
       /\ \A r, q \in Runs' : r < q => Precedes(m_Services'[r], m_Services'[q])
       /\ \A r \in Runs' : Pushed(m_Services'[r], now)
  <2>1. /\ \A r \in Runs : Precedes(m_Services[r], st) /\ Pushed(m_Services[r], now)
        /\ \A r, q \in Runs : r < q => Precedes(m_Services[r], m_Services[q])
    BY DEF Parsing, AllSorted
  <2>2. AllTimes(st') \subseteq AllTimes(st) \cup {it}
    BY <1>7, <1>8 DEF AllTimes
  <2>3. CASE st.m_timeGap > 0
    <3>1. AllTimes(st') = {it}
      BY <1>7, <1>8, <2>3 DEF AllTimes
    <3>2. \A r \in Runs : Precedes(m_Services[r], st')
      BY <1>6, <3>1 DEF Precedes
    <3>3. Precedes(st, st')
      BY <1>6, <3>1 DEF Precedes
    <3>4. \A r \in Runs : r \in Nat
      BY <1>2
    <3>5. Runs' = Runs \cup {last} /\ m_Services'[last] = st
      BY <1>11, <2>3
    <3>6. \A r \in Runs' : Sorted(m_Services'[r], A, B) /\ Precedes(m_Services'[r], st')
      BY <1>12, <1>13, <3>2, <3>3, <3>5
    <3>7. \A r, q \in Runs' : r < q => Precedes(m_Services'[r], m_Services'[q])
      BY <1>12, <2>1, <3>4, <3>5
    <3>8. Pushed(st, now)
      BY <2>3, PushedIsPast
    <3>9. \A r \in Runs' : Pushed(m_Services'[r], now)
      BY <1>12, <2>1, <3>5, <3>8
    <3>10. QED
      BY <3>6, <3>7, <3>9
  <2>4. CASE ~(st.m_timeGap > 0)
    <3>1. Runs' = Runs /\ m_Services' = m_Services
      BY <1>10, <1>11, <2>4
    <3>2. \A r \in Runs : Precedes(m_Services[r], st')
      BY <1>6, <2>1, <2>2 DEF Precedes
    <3>3. QED
      BY <1>13, <2>1, <3>1, <3>2
  <2>5. QED
    BY <2>3, <2>4
<1>16. AllSorted(T)'
  BY <1>4, <1>14, <1>15 DEF AllSorted
<1>17. Recorded(T)'
  <2>1. ASSUME NEW h \in Starts(S) \cup {it}
        PROVE  \/ h \in Times(st', "Unknown")
               \/ \E r \in Runs' : h \in Times(m_Services'[r], "Unknown")
    BY <1>7, <1>8, <1>11, <1>12, <1>10 DEF Parsing, Recorded
  <2>2. ASSUME NEW h \in Images(S), ~GameUnknown(h)
        PROVE  \/ h \in Times(st', "TrigHL")
               \/ \E r \in Runs' : h \in Times(m_Services'[r], "TrigHL")
    BY <1>7, <1>8, <1>11, <1>12, <1>10, <2>2 DEF Parsing, Recorded
  <2>3. QED
    BY <1>4, <1>5, <2>1, <2>2 DEF Recorded
<1>18. LastStart(T)'
  <2>1. \A l \in Nat : IsLatest(l, Starts(S) \cup {it}) => l \in Times(st', "Unknown")
    <3> SUFFICES ASSUME NEW l \in Nat, IsLatest(l, Starts(S) \cup {it})
                 PROVE  l \in Times(st', "Unknown")
      OBVIOUS
    <3>1. l = it
      BY <1>2, <1>6 DEF IsLatest
    <3>2. QED
      BY <1>8, <3>1
  <2>2. Times(kept, "Unknown") \subseteq AllTimes(st)
    BY <1>7 DEF AllTimes
  <2>3. Paced(st', now)
    <3>1. IsLatest(it, Times(st', "Unknown"))
      BY <1>2, <1>6, <1>8, <2>2 DEF IsLatest
    <3>2. QED
      BY <1>2, <1>8, <3>1 DEF Paced
  <2>4. \A s, l \in Times(st', "Unknown") : s < l => s >= now
    <3> SUFFICES ASSUME NEW s \in Times(st', "Unknown"), NEW l \in Times(st', "Unknown"), s < l
                 PROVE  s >= now
      OBVIOUS
    <3>1. s \in Times(kept, "Unknown")
      BY <1>2, <1>6, <1>8, <2>2
    <3>2. kept = st /\ ~(st.m_timeGap > 0)
      BY <1>7, <3>1
    <3>3. Paced(st, now)
      BY <3>1, <3>2 DEF Parsing, LastStart
    <3>4. PICK t \in Nat : IsLatest(t, Times(st, "Unknown")) /\ st.m_timeGap = now - t
      BY <3>3 DEF Paced
    <3>5. t >= now
      BY <1>2, <3>2, <3>4
    <3>6. s \in Nat /\ s <= t /\ (s < t => s >= now)
      BY <1>6, <2>2, <3>1, <3>2, <3>4 DEF Parsing, LastStart, IsLatest
    <3>7. QED
      BY <1>2, <3>5, <3>6
  <2>5. QED
    BY <1>4, <2>1, <2>3, <2>4 DEF LastStart
<1>19. QED
  BY <1>3, <1>8, <1>16, <1>17, <1>18 DEF Parsing
-----------------------------------------------------------------------------
(* The end of the log.                                                      *)

\* The heads that were found are all of them.
LEMMA HeadsFound ==
    ASSUME TypeOK, NEW S, HeadsSoFar(S), it = Len(strList) + 1
    PROVE  HeadsOf("start") = Starts(S) /\ HeadsOf("image") = Images(S)
<1>1. strList \in Seq(Line) /\ Len(strList) \in Nat
  BY DEF TypeOK, ParserTypeOK
<1>2. S \in SUBSET (1..Len(strList)) /\ IsHeads(S)
  BY <1>1 DEF HeadsSoFar, IsHeads
<1>3. Heads = S
  BY <1>1, <1>2, HeadsAreUnique
<1>4. QED
  BY <1>3 DEF HeadsOf, Starts, Images

\* What is left in a run that is not pushed is in the future.
LEMMA LeftIsFuture ==
    ASSUME TypeOK, NEW S, Parsing(S), ~(st.m_timeGap > 0), NEW s \in Times(st, "Unknown")
    PROVE  s >= now
<1>1. s \in Nat /\ now \in Nat
  BY TimesAre DEF TypeOK, ParserTypeOK
<1>2. PICK t \in Nat : IsLatest(t, Times(st, "Unknown")) /\ st.m_timeGap = now - t
  BY DEF Parsing, LastStart, Paced
<1>3. t >= now /\ s <= t /\ (s < t => s >= now)
  BY <1>1, <1>2 DEF Parsing, LastStart, IsLatest
<1>4. QED
  BY <1>1, <1>3

\* The start before an image, if there is one, is in its run.
LEMMA StartBefore ==
    ASSUME NEW A \in SUBSET Nat, NEW B \in SUBSET Nat, NEW service,
           Sorted(service, A, B), NEW i \in Times(service, "TrigHL"), NEW u \in A, u < i
    PROVE  \E l \in A : l \in Times(service, "Unknown") /\ u <= l /\ l < i
<1> DEFINE before == {s \in A : s < i}
<1>1. i \in Nat
  BY DEF Sorted
<1>2. PICK l \in before : IsLatest(l, before)
  <2>1. before \in SUBSET Nat /\ u \in before
    OBVIOUS
  <2>2. \A s \in before : s <= i
    BY <1>1
  <2> HIDE DEF before
  <2>3. QED
    BY <1>1, <2>1, <2>2, MaxExists, Zenon
<1>3. l \in Times(service, "Unknown")
  BY <1>2 DEF Sorted
<1>4. u <= l
  BY <1>2 DEF IsLatest
<1>5. QED
  BY <1>2, <1>3, <1>4

\* The last run is pushed, and the log has been read.
LEMMA EndReads ==
    ASSUME TypeOK, AllPaced, readAt = now, NEW S, Parsing(S), ParseEnd, now' = now
    PROVE  LogIsRead'
<1>1. /\ it = Len(strList) + 1 /\ PushService /\ strList' = strList /\ known' = known
      /\ readAt' = readAt /\ st' = st
  BY DEF ParseEnd, logVars
<1>2. HeadsOf("start")' = Starts(S) /\ HeadsOf("image")' = Images(S)
  <2>1. HeadsOf("start") = Starts(S) /\ HeadsOf("image") = Images(S)
    BY <1>1, HeadsFound DEF Parsing
  <2>2. HeadsOf("start")' = HeadsOf("start") /\ HeadsOf("image")' = HeadsOf("image")
    BY <1>1 DEF HeadsOf, Heads, IsHeads, Covers
  <2>3. QED
    BY <2>1, <2>2
<1>3. \A h : GameUnknown(h)' <=> GameUnknown(h)
  BY <1>1, SameLog
<1>4. /\ Starts(S) \in SUBSET Nat /\ Images(S) \in SUBSET Nat
      /\ \A t \in AllTimes(st) : t \in Nat
      /\ \A r \in Runs : \A t \in AllTimes(m_Services[r]) : t \in Nat
      /\ \A s \in Starts(S), i \in Images(S) : s # i
  <2>1. \A s \in Starts(S), i \in Images(S) : s # i
    BY DEF Starts, Images
  <2>2. QED
    BY <2>1, ReadBefore DEF Parsing
<1>5. st.m_timeGap > 0 => Paced(st, now) /\ Pushed(st, now)
  BY PushedIsPast DEF Parsing, LastStart
<1>6. /\ Len(m_Services) \in Nat /\ Len(m_Services) <= Len(m_Services')
      /\ \A r \in 1..Len(m_Services) : m_Services'[r] = m_Services[r]
      /\ IF st.m_timeGap > 0
         THEN /\ Len(m_Services') = Len(m_Services) + 1
              /\ m_Services'[Len(m_Services) + 1] = st
         ELSE m_Services' = m_Services
  BY <1>1, <1>5, PushKeepsPaced
<1>7. known \in Nat /\ known <= Len(m_Services) /\ now \in Nat
  BY DEF TypeOK, ParserTypeOK
<1> DEFINE last == Len(m_Services) + 1
<1>8. /\ IF st.m_timeGap > 0
         THEN Runs' = Runs \cup {last} /\ m_Services'[last] = st
         ELSE Runs' = Runs
      /\ \A r \in Runs : m_Services'[r] = m_Services[r] /\ r < last /\ r \in Nat
      /\ last \in Nat
  BY <1>1, <1>6, <1>7 DEF Runs
<1> HIDE DEF last
<1> DEFINE A == Starts(S)
           B == Images(S)
           left == IF st.m_timeGap > 0 THEN NewService ELSE st
           run(r) == m_Services'[r]
<1>9. /\ \A r \in Runs' : Sorted(run(r), A, B) /\ Pushed(run(r), now) /\ Precedes(run(r), left)
      /\ \A r, q \in Runs' : r < q => Precedes(run(r), run(q))
      /\ Sorted(left, A, B) /\ \A s \in Times(left, "Unknown") : s >= now
  <2>1. /\ Sorted(st, A, B)
        /\ \A r \in Runs : Sorted(run(r), A, B) /\ Pushed(run(r), now) /\ Precedes(run(r), st)
        /\ \A r, q \in Runs : r < q => Precedes(run(r), run(q))
    BY <1>8 DEF Parsing, AllSorted
  <2>2. CASE st.m_timeGap > 0
    <3>1. Sorted(left, A, B) /\ \A type : Times(left, type) = {}
      BY <2>2, NewServiceIsEmpty DEF Sorted
    <3>2. \A r \in Runs' : Precedes(run(r), left)
      BY <3>1 DEF Precedes, AllTimes
    <3>3. Runs' = Runs \cup {last} /\ run(last) = st
      BY <1>8, <2>2
    <3>4. \A r, q \in Runs' : r < q => Precedes(run(r), run(q))
      BY <1>8, <2>1, <3>3
    <3>5. \A r \in Runs' : Sorted(run(r), A, B) /\ Pushed(run(r), now)
      BY <1>5, <2>1, <2>2, <3>3
    <3>6. QED
      BY <3>1, <3>2, <3>4, <3>5
  <2>3. CASE ~(st.m_timeGap > 0)
    <3>1. Runs' = Runs /\ left = st
      BY <1>8, <2>3
    <3>2. \A s \in Times(st, "Unknown") : s >= now
      BY <2>3, LeftIsFuture
    <3>3. QED
      BY <2>1, <3>1, <3>2
  <2>4. QED
    BY <2>2, <2>3
<1>10. /\ \A h \in A : \/ h \in Times(left, "Unknown")
                       \/ \E r \in Runs' : h \in Times(run(r), "Unknown")
       /\ \A h \in B : ~GameUnknown(h) => \/ h \in Times(left, "TrigHL")
                                          \/ \E r \in Runs' : h \in Times(run(r), "TrigHL")
  BY <1>8 DEF Parsing, Recorded
<1> HIDE DEF A, B, left, run
<1>11. A \in SUBSET Nat /\ B \in SUBSET Nat /\ \A s \in A, i \in B : s # i
  BY <1>4 DEF A, B
<1>12. \A r \in Runs' : r \in Nat
  BY <1>8
<1>13. \A s \in A : s < now => \E r \in Runs' : s \in Times(run(r), "Unknown")
  BY <1>7, <1>9, <1>10, <1>11
<1>14. ASSUME NEW r \in Runs'
       PROVE  \E s \in A :
                /\ s < now /\ run(r).m_timeGap = now - s /\ Times(run(r), "Unknown") = {s}
                /\ Times(run(r), "TrigHL") \subseteq {i \in B : InRun(i, s, A)}
                /\ \A i \in B :
                    InRun(i, s, A) /\ ~GameUnknown(i) => i \in Times(run(r), "TrigHL")
                /\ InOrder(run(r))
  <2>1. /\ Sorted(run(r), A, B) /\ Precedes(run(r), left)
        /\ \A q \in Runs' : /\ r < q => Precedes(run(r), run(q))
                            /\ q < r => Precedes(run(q), run(r))
    BY <1>9
  <2>2. PICK s \in Nat : /\ s < now
                         /\ run(r).m_timeGap = now - s /\ Times(run(r), "Unknown") = {s}
    BY <1>9 DEF Pushed
  <2>3. s \in A
    BY <2>1, <2>2 DEF Sorted
  <2>4. ASSUME NEW i \in Times(run(r), "TrigHL") PROVE i \in B /\ InRun(i, s, A)
    <3>1. i \in B /\ i \in Nat
      BY <1>11, <2>1 DEF Sorted
    <3>2. ASSUME NEW u \in A, u < i PROVE u <= s /\ s < i
      <4>1. PICK l \in A : l \in Times(run(r), "Unknown") /\ u <= l /\ l < i
        BY <1>11, <2>1, <3>2, StartBefore
      <4>2. QED
        BY <2>2, <4>1
    <3>3. ASSUME NEW u \in A, u > s PROVE i < u
      BY <1>11, <2>2, <3>1, <3>2, <3>3
    <3>4. ASSUME i < s, NEW u \in A PROVE s <= u
      <4> SUFFICES ASSUME u < s PROVE FALSE
        BY <1>11, <2>2
      <4>1. u \in Nat /\ i < u
        BY <1>11, <2>2, <3>1, <3>2, <3>4
      <4>2. i \in AllTimes(run(r)) /\ s \in AllTimes(run(r))
        BY <2>2 DEF AllTimes
      <4>3. u \notin Times(left, "Unknown")
        <5>1. u \in AllTimes(left) => s < u
          BY <2>1, <4>2 DEF Precedes
        <5>2. QED
          BY <2>2, <4>1, <5>1 DEF AllTimes
      <4>4. PICK q \in Runs' : u \in Times(run(q), "Unknown")
        BY <1>10, <4>3
      <4>5. u \in AllTimes(run(q))
        BY <4>4 DEF AllTimes
      <4>6. CASE q = r
        BY <2>2, <4>4, <4>6
      <4>7. CASE q < r
        <5>1. u < i
          BY <2>1, <4>2, <4>5, <4>7 DEF Precedes
        <5>2. QED
          BY <3>1, <4>1, <5>1
      <4>8. CASE r < q
        <5>1. s < u
          BY <2>1, <4>2, <4>5, <4>8 DEF Precedes
        <5>2. QED
          BY <2>2, <4>1, <5>1
      <4>9. QED
        BY <1>12, <4>6, <4>7, <4>8
    <3>5. QED
      BY <3>1, <3>3, <3>4 DEF InRun
  <2>5. ASSUME NEW i \in B, InRun(i, s, A), NEW service, Sorted(service, A, B),
               Precedes(run(r), service), i \in Times(service, "TrigHL")
        PROVE  FALSE
    <3>1. s < i
      BY <2>2, <2>5 DEF Precedes, AllTimes
    <3>2. PICK l \in A : l \in Times(service, "Unknown") /\ s <= l /\ l < i
      BY <1>11, <2>3, <2>5, <3>1, StartBefore
    <3>3. s < l
      BY <2>2, <2>5, <3>2 DEF Precedes, AllTimes
    <3>4. i < l
      BY <2>5, <3>2, <3>3 DEF InRun
    <3>5. QED
      BY <1>11, <3>2, <3>4
  <2>6. ASSUME NEW i \in B, InRun(i, s, A), ~GameUnknown(i)
        PROVE  i \in Times(run(r), "TrigHL")
    <3>1. i \notin Times(left, "TrigHL")
      BY <1>9, <2>1, <2>5, <2>6
    <3>2. PICK q \in Runs' : i \in Times(run(q), "TrigHL")
      BY <1>10, <2>6, <3>1
    <3>3. ~(r < q)
      BY <1>9, <2>1, <2>5, <2>6, <3>2
    <3>4. ASSUME q < r PROVE FALSE
      <4>1. PICK t \in Nat : Times(run(q), "Unknown") = {t}
        BY <1>9 DEF Pushed
      <4>2. t \in A
        BY <1>9, <4>1 DEF Sorted
      <4>3. i < s /\ t < s
        BY <2>1, <2>2, <3>2, <3>4, <4>1 DEF Precedes, AllTimes
      <4>4. s <= t
        BY <2>6, <4>2, <4>3 DEF InRun
      <4>5. QED
        BY <2>2, <4>1, <4>3, <4>4
    <3>5. q = r
      BY <1>12, <3>3, <3>4
    <3>6. QED
      BY <3>2, <3>5
  <2>7. InOrder(run(r))
    BY <2>1 DEF Sorted
  <2>8. QED
    BY <2>2, <2>3, <2>4, <2>6, <2>7
<1>15. LogIsRead'
  <2>1. HeadsOf("start")' = A /\ HeadsOf("image")' = B /\ readAt' = now
    BY <1>1, <1>2 DEF A, B
  <2>2. \A r \in Runs' : \E s \in {s \in A : s < now} :
          /\ m_Services'[r].m_timeGap = now - s
          /\ Times(m_Services'[r], "Unknown") = {s}
          /\ Times(m_Services'[r], "TrigHL") \subseteq {i \in B : InRun(i, s, A)}
          /\ \A i \in B : InRun(i, s, A) /\ ~GameUnknown(i)' =>
                  i \in Times(m_Services'[r], "TrigHL")
          /\ InOrder(m_Services'[r])
    BY <1>3, <1>14 DEF run
  <2>3. \A s \in {s \in A : s < now} : \E r \in Runs' : s \in Times(m_Services'[r], "Unknown")
    BY <1>13 DEF run
  <2>4. \A r, q \in Runs' : r < q =>
          \A t \in AllTimes(m_Services'[r]), u \in AllTimes(m_Services'[q]) : t < u
    BY <1>9 DEF Precedes, run
  <2> HIDE DEF Runs
  <2>5. QED
    BY <2>1, <2>2, <2>3, <2>4 DEF LogIsRead, RunsAre, Runs
<1>16. QED
  BY <1>15
-----------------------------------------------------------------------------
(* The steps of the dialog.                                                 *)

\* Waiting does not change what has been read.
LEMMA LogStays ==
    ASSUME UNCHANGED <<strList, known, readAt, m_Services, parsedAt>>
    PROVE  LogIsRead => LogIsRead'
<1>1. /\ strList' = strList /\ known' = known /\ readAt' = readAt
      /\ m_Services' = m_Services /\ parsedAt' = parsedAt
  OBVIOUS
<1>2. Heads' = Heads
  BY <1>1 DEF Heads, IsHeads, Covers
<1>3. HeadsOf("start")' = HeadsOf("start") /\ HeadsOf("image")' = HeadsOf("image")
  BY <1>1, <1>2 DEF HeadsOf
<1>4. \A h : GameUnknown(h)' <=> GameUnknown(h)
  BY <1>1, SameLog
<1>5. ASSUME LogIsRead PROVE LogIsRead'
  <2>1. PICK A, B : A = HeadsOf("start") /\ B = HeadsOf("image")
    OBVIOUS
  <2>2. /\ \A r \in Runs : \E s \in {s \in A : s < readAt} :
            /\ m_Services[r].m_timeGap = readAt - s
            /\ Times(m_Services[r], "Unknown") = {s}
            /\ Times(m_Services[r], "TrigHL") \subseteq {i \in B : InRun(i, s, A)}
            /\ \A i \in B : InRun(i, s, A) /\ ~GameUnknown(i) =>
                    i \in Times(m_Services[r], "TrigHL")
            /\ InOrder(m_Services[r])
        /\ \A s \in {s \in A : s < readAt} :
                \E r \in Runs : s \in Times(m_Services[r], "Unknown")
        /\ \A r, q \in Runs : r < q =>
                \A t \in AllTimes(m_Services[r]), u \in AllTimes(m_Services[q]) : t < u
    BY <1>5, <2>1 DEF LogIsRead, RunsAre, Runs
  <2>3. Runs' = Runs /\ HeadsOf("start")' = A /\ HeadsOf("image")' = B
    BY <1>1, <1>3, <2>1 DEF Runs
  <2> HIDE DEF Runs
  <2>4. QED
    BY <1>1, <1>4, <2>2, <2>3 DEF LogIsRead, RunsAre, Runs
<1>6. QED
  BY <1>5

\* What a step has to keep when it neither reads a log nor looks at the time.
Quiet ==
    /\ UNCHANGED <<now, parseVars>>
    /\ main' = "parse" => main = "parse"
    /\ main' \notin {"parse", "undefined"} => main \notin {"parse", "undefined"}

\* Such a step keeps what has been read.
LEMMA QuietKeeps ==
    ASSUME IInv, Quiet
    PROVE  ParserTypeOK' /\ Reading' /\ AllPaced' /\ (LogIsRead => LogIsRead')
<1>1. /\ now' = now /\ strList' = strList /\ known' = known /\ readAt' = readAt /\ it' = it
      /\ st' = st /\ m_Services' = m_Services /\ parsedAt' = parsedAt
  BY DEF Quiet, parseVars, logVars, serviceVars
<1>2. ParserTypeOK'
  BY <1>1 DEF IInv, TypeOK, ParserTypeOK
<1>3. Reading'
  <2>1. ASSUME NEW S, Parsing(S) PROVE Parsing(S)'
    BY <1>1, <2>1 DEF Parsing, HeadsSoFar, Covers, AllSorted, Starts, Images, Runs, Recorded,
           GameUnknown, Details, LastStart
  <2>2. QED
    BY <1>1, <2>1 DEF IInv, Reading, Quiet
<1>4. AllPaced'
  BY <1>1 DEF IInv, AllPaced
<1>5. LogIsRead => LogIsRead'
  BY <1>1, LogStays
<1>6. QED
  BY <1>2, <1>3, <1>4, <1>5

\* The calls of the SDK, and the messages that wait.
LEMMA SdkKeeps ==
    ASSUME IInv, NEW c \in Callbacks, SdkCalls(c) \/ CallbackPosts(c)
    PROVE  IInv'
<1> USE DEF SdkCalls, CallbackPosts, dlgVars
<1>1. Quiet
  BY DEF Quiet
<1>2. /\ call' \in [Callbacks -> {"none", "called", "posted", "shown", "refused"}]
      /\ posted' \in Seq(Callbacks)
  <2>1. /\ call \in [Callbacks -> {"none", "called", "posted", "shown", "refused"}]
        /\ posted \in Seq(Callbacks)
    BY DEF IInv, TypeOK
  <2>2. CASE SdkCalls(c)
    BY <2>1, <2>2
  <2>3. CASE CallbackPosts(c)
    <3>1. posted' \in Seq(Callbacks)
      BY <2>1, <2>3
    <3>2. call' \in [Callbacks -> {"none", "called", "posted", "shown", "refused"}]
      BY <2>1, <2>3
    <3>3. QED
      BY <3>1, <3>2
  <2>4. QED
    BY <2>2, <2>3
<1>3. TypeOK'
  BY <1>1, <1>2, QuietKeeps DEF IInv, TypeOK
<1>4. AtEntry'
  BY <1>1, QuietKeeps DEF IInv, AtEntry, Quiet, parseVars, serviceVars
<1>5. QED
  BY <1>1, <1>3, <1>4, QuietKeeps DEF IInv

\* Handlers that change neither the log nor the entry that is replayed.
LEMMA HandlersKeep ==
    ASSUME IInv,
           \/ OnInitDialog \/ OnAction \/ TestKeyEvent \/ EscapePressed \/ OnClose
           \/ GuiThreadProc \/ ExitProcess \/ SendReturns \/ ParsePastEnd \/ ReplayEnds
    PROVE  IInv'
<1> USE DEF OnInitDialog, OnAction, TestKeyEvent, EscapePressed, OnClose, GuiThreadProc,
           ExitProcess, SendReturns, ParsePastEnd, ReplayEnds, Go, DoAction, callVars
<1>1. Quiet
  BY DEF IInv, TypeOK, Quiet
<1>2. TypeOK'
  BY <1>1, QuietKeeps DEF IInv, TypeOK
<1>3. /\ main' = "replay" \/ (main' = "send" /\ after' = "replay") =>
            main = "send" /\ after = "replay"
      /\ ~(main' = "send" /\ after' = "replay")
      /\ pos' = pos
  BY DEF IInv, TypeOK
<1>4. m_Services' = m_Services
  BY <1>1 DEF Quiet, parseVars, serviceVars
<1>5. AtEntry'
  BY <1>1, <1>3, <1>4, QuietKeeps DEF IInv, AtEntry
<1>6. QED
  BY <1>1, <1>2, <1>5, QuietKeeps DEF IInv

\* A call is shown.
LEMMA OnAgentCallBackKeeps == ASSUME IInv, OnAgentCallBack PROVE IInv'
<1> USE DEF OnAgentCallBack, dlgVars
<1>1. Quiet
  BY DEF Quiet
<1>2. Head(posted) \in Callbacks /\ Tail(posted) \in Seq(Callbacks)
  BY DEF IInv, TypeOK
<1>3. TypeOK'
  BY <1>1, <1>2, QuietKeeps DEF IInv, TypeOK
<1>4. AtEntry'
  BY <1>1, QuietKeeps DEF IInv, AtEntry, Quiet, parseVars, serviceVars
<1>5. QED
  BY <1>1, <1>3, <1>4, QuietKeeps DEF IInv

\* A log is dropped: nothing of it has been read.
LEMMA OnDropFilesKeeps == ASSUME IInv, NEW log \in Logs, OnDropFiles(log) PROVE IInv'
<1>1. /\ main = "loop" /\ main' = "parse" /\ now' = now
      /\ strList' = log /\ it' = 1 /\ st' = NewService /\ known' = Len(m_Services)
      /\ readAt' = now /\ m_Services' = m_Services /\ parsedAt' = parsedAt
      /\ lines' = lines + Len(log)
      /\ UNCHANGED <<after, pos, m_bRunning, call, posted>>
  BY DEF OnDropFiles, ParseLog, Go, serviceVars, callVars
<1>2. log \in Seq(Line) /\ Len(log) \in Nat /\ lines + Len(log) <= MaxLines
  <2>1. PICK n \in 0..MaxLines - lines : log \in [1..n -> Line]
    BY DEF Logs
  <2>2. n \in Nat /\ lines \in Nat /\ MaxLines \in Nat
    BY DlgAssumption DEF IInv, TypeOK
  <2>3. log \in Seq(Line) /\ Len(log) = n
    BY <2>1, <2>2
  <2>4. QED
    BY <2>2, <2>3
<1>3. /\ m_Services \in Seq(ServiceTimer) /\ Len(m_Services) \in Nat /\ now \in Nat
      /\ lines \in Nat /\ MaxLines \in Nat
  BY DlgAssumption DEF IInv, TypeOK, ParserTypeOK
<1>4. TypeOK'
  <2>1. ParserTypeOK'
    BY <1>1, <1>2, <1>3, NewServiceIsEmpty DEF IInv, TypeOK, ParserTypeOK
  <2>2. QED
    BY <1>1, <1>2, <1>3, <2>1 DEF IInv, TypeOK
<1>5. Runs' = {}
  BY <1>1, <1>3 DEF Runs
<1>6. Starts({})' = {} /\ Images({})' = {}
  BY DEF Starts, Images
<1>7. HeadsSoFar({})'
  BY <1>1, <1>2 DEF HeadsSoFar
<1>8. AllSorted({})' /\ Recorded({})' /\ LastStart({})'
  BY <1>1, <1>5, <1>6, NewServiceIsEmpty
     DEF AllSorted, Sorted, Recorded, LastStart, IsLatest
<1>9. Reading'
  BY <1>1, <1>3, <1>7, <1>8 DEF Reading, Parsing
<1>10. AllPaced' /\ AtEntry'
  BY <1>1 DEF IInv, AllPaced, AtEntry
<1>11. QED
  BY <1>4, <1>9, <1>10 DEF IInv

\* A line is read.
LEMMA ParseKeeps == ASSUME IInv, Parse PROVE IInv'
<1>1. /\ main = "parse" /\ ParseLine /\ now' = now
      /\ UNCHANGED <<main, after, pos, lines, m_bRunning, call, posted>>
  BY DEF Parse, dlgVars, callVars
<1>2. /\ TypeOK /\ AllPaced /\ readAt = now /\ it \in 1..Len(strList) /\ Len(strList) \in Nat
      /\ strList' = strList /\ known' = known /\ readAt' = readAt
  BY <1>1 DEF IInv, Reading, TypeOK, ParserTypeOK, ParseLine, ParseStart, ParseImage,
         ParseUnknown, AtLine, logVars
<1>3. PICK S : Parsing(S)
  BY <1>1, <1>2 DEF IInv, Reading
<1>4. /\ it \in Nat /\ st \in ServiceTimer /\ m_Services \in Seq(ServiceTimer)
      /\ parsedAt \in Seq(Nat) /\ Len(m_Services) \in Nat
      /\ known \in Nat /\ known <= Len(m_Services)
  BY <1>2 DEF TypeOK, ParserTypeOK
<1> DEFINE Read ==
        /\ it' \in Nat /\ 1 <= it' /\ it' <= Len(strList) + 2
        /\ it' <= Len(strList) + 1 => \E T : Parsing(T)'
        /\ st' \in ServiceTimer
        /\ m_Services' \in Seq(ServiceTimer) /\ parsedAt' \in Seq(Nat)
        /\ known <= Len(m_Services') /\ AllPaced'
<1>5. ASSUME ParseStart PROVE Read
  <2>1. PICK T : T = S \cup {it}
    OBVIOUS
  <2>2. Parsing(T)' /\ st' \in ServiceTimer
    BY <1>1, <1>2, <1>3, <1>5, <2>1, StartKeeps
  <2>3. st.m_timeGap > 0 => Paced(st, now)
    BY <1>3 DEF Parsing, LastStart
  <2>4. /\ AllPaced' /\ Len(m_Services) \in Nat /\ Len(m_Services) <= Len(m_Services')
        /\ m_Services' \in Seq(ServiceTimer) /\ parsedAt' \in Seq(Nat)
    BY <1>2, <1>5, <2>3, PushKeepsPaced DEF ParseStart
  <2>5. it' = it + 1
    BY <1>5 DEF ParseStart
  <2>6. it' \in Nat /\ 1 <= it' /\ it' <= Len(strList) + 2
    BY <1>2, <2>5
  <2>7. Len(m_Services') \in Nat
    BY <2>4
  <2>8. known <= Len(m_Services')
    BY <1>4, <2>4, <2>7
  <2>9. QED
    BY <2>2, <2>4, <2>6, <2>8
<1>6. ASSUME ParseImage PROVE Read
  <2>1. PICK T : T = S \cup {it}
    OBVIOUS
  <2>2. it' <= Len(strList) + 1 => Parsing(T)'
    BY <1>1, <1>2, <1>3, <1>6, <2>1, ImageKeeps
  <2>3. st' \in ServiceTimer
    <3>1. \A t \in AllTimes(st) : t < it
      BY <1>2, <1>3, ReadBefore DEF Parsing
    <3>2. InOrder(st)
      BY <1>3 DEF Parsing, AllSorted, Sorted
    <3>3. Add(st, "TrigHL") \in ServiceTimer
      BY <1>4, <3>1, <3>2, AddsEntry
    <3>4. st' = Add(st, "TrigHL") \/ st' = st
      BY <1>6 DEF ParseImage
    <3>5. QED
      BY <1>4, <3>3, <3>4
  <2>4. it' \in Nat /\ 1 <= it' /\ it' <= Len(strList) + 2
    <3>1. strList[it] \in Line
      BY <1>2 DEF TypeOK, ParserTypeOK
    <3>2. strList[it].kind = "image"
      BY <1>6 DEF ParseImage, AtLine
    <3>3. strList[it].cnt \in 1..MaxCount
      BY <3>1, <3>2 DEF Line
    <3>4. strList[it].cnt \in Nat
      BY <3>3, CountAssumption
    <3>5. it' = IF it + strList[it].cnt > Len(strList) THEN Len(strList) + 2
                ELSE it + strList[it].cnt + 1
      BY <1>6 DEF ParseImage
    <3>6. QED
      BY <1>2, <1>4, <3>4, <3>5
  <2>5. m_Services' = m_Services /\ parsedAt' = parsedAt
    BY <1>6 DEF ParseImage, serviceVars
  <2>6. AllPaced'
    BY <1>2, <2>5 DEF AllPaced
  <2>7. QED
    BY <1>4, <2>2, <2>3, <2>4, <2>5, <2>6
<1>7. ASSUME ParseUnknown PROVE Read
  <2>1. PICK T : T = S \cup {it}
    OBVIOUS
  <2>2. Parsing(T)'
    BY <1>1, <1>2, <1>3, <1>7, <2>1, UnknownKeeps
  <2>3. it' = it + 1 /\ st' = st /\ m_Services' = m_Services /\ parsedAt' = parsedAt
    BY <1>7 DEF ParseUnknown, serviceVars
  <2>4. it' \in Nat /\ 1 <= it' /\ it' <= Len(strList) + 2
    BY <1>2, <2>3
  <2>5. AllPaced'
    BY <1>2, <2>3 DEF AllPaced
  <2>6. QED
    BY <1>4, <2>2, <2>3, <2>4, <2>5
<1> HIDE DEF Read
<1>8. Read
  BY <1>1, <1>5, <1>6, <1>7 DEF ParseLine
<1> USE DEF Read
<1>9. TypeOK'
  <2>1. strList' \in Seq(Line) /\ it' \in 0..Len(strList') + 2 /\ now' \in Nat /\ readAt' \in Nat
    BY <1>1, <1>2, <1>8 DEF TypeOK, ParserTypeOK
  <2>2. m_Services' \in Seq(ServiceTimer) /\ parsedAt' \in Seq(Nat) /\ st' \in ServiceTimer
    BY <1>8
  <2>3. known' \in 0..Len(m_Services')
    BY <1>2, <1>4, <1>8
  <2>4. ParserTypeOK'
    BY <2>1, <2>2, <2>3 DEF ParserTypeOK
  <2>5. QED
    BY <1>1, <1>2, <2>4 DEF TypeOK
<1>10. Reading'
  BY <1>1, <1>2, <1>8 DEF Reading
<1>11. AtEntry'
  BY <1>1 DEF AtEntry
<1>12. QED
  BY <1>8, <1>9, <1>10, <1>11 DEF IInv

\* A run that has its start is not empty.
LEMMA PacedHasEntry ==
    ASSUME NEW service \in ServiceTimer, NEW time, Paced(service, time)
    PROVE  1 <= Len(service.m_vecData)
<1>1. PICK t : t \in Times(service, "Unknown")
  BY DEF Paced, IsLatest
<1>2. PICK i \in 1..Len(service.m_vecData) : TRUE
  BY <1>1, TimesAre
<1>3. Len(service.m_vecData) \in Nat
  BY DEF ServiceTimer
<1>4. QED
  BY <1>2, <1>3

\* The log has been read, and the replay starts at its first entry.
LEMMA ParseDoneKeeps == ASSUME IInv, ParseDone PROVE IInv'
<1>1. /\ main = "parse" /\ ParseEnd /\ now' = now /\ main' = "replay" /\ pos' = <<1, 1>>
      /\ UNCHANGED <<after, lines, m_bRunning, call, posted>>
  BY DEF ParseDone, Go, callVars
<1>2. /\ it = Len(strList) + 1 /\ PushService /\ it' = 0 /\ st' = st /\ strList' = strList
      /\ known' = known /\ readAt' = readAt
  BY <1>1 DEF ParseEnd, logVars
<1>3. TypeOK /\ AllPaced /\ readAt = now /\ Len(strList) \in Nat
  BY <1>1 DEF IInv, Reading, TypeOK, ParserTypeOK
<1>4. PICK S : Parsing(S)
  BY <1>1, <1>2, <1>3 DEF IInv, Reading
<1>5. LogIsRead'
  BY <1>1, <1>3, <1>4, EndReads
<1>6. st.m_timeGap > 0 => Paced(st, now)
  BY <1>4 DEF Parsing, LastStart
<1>7. /\ AllPaced' /\ Len(m_Services) \in Nat /\ Len(m_Services) <= Len(m_Services')
      /\ m_Services' \in Seq(ServiceTimer) /\ parsedAt' \in Seq(Nat)
  BY <1>2, <1>3, <1>6, PushKeepsPaced
<1>8. TypeOK'
  <2>1. known \in Nat /\ known <= Len(m_Services) /\ Len(m_Services') \in Nat
    BY <1>3, <1>7 DEF TypeOK, ParserTypeOK
  <2>2. ParserTypeOK'
    BY <1>1, <1>2, <1>3, <1>7, <2>1 DEF TypeOK, ParserTypeOK
  <2>3. QED
    BY <1>1, <1>3, <2>2 DEF TypeOK
<1>9. Reading'
  BY <1>1, <1>2 DEF Reading
<1>10. AtEntry'
  <2>1. 1 <= Len(m_Services') => 1 <= Len(m_Services'[1].m_vecData)
    <3> SUFFICES ASSUME 1 <= Len(m_Services') PROVE 1 <= Len(m_Services'[1].m_vecData)
      OBVIOUS
    <3>1. 1 \in 1..Len(m_Services')
      BY <1>7
    <3>2. m_Services'[1] \in ServiceTimer /\ Paced(m_Services'[1], parsedAt'[1])
      BY <1>7, <3>1 DEF AllPaced
    <3>3. QED
      BY <3>2, PacedHasEntry
  <2>2. QED
    BY <1>1, <1>5, <2>1 DEF AtEntry
<1>11. QED
  BY <1>7, <1>8, <1>9, <1>10 DEF IInv

\* The replay waits.
LEMMA SleepForKeeps == ASSUME IInv, SleepFor PROVE IInv'
<1>1. /\ main = "replay" /\ now' = now + 1
      /\ UNCHANGED <<strList, known, readAt, it, st, m_Services, parsedAt, main, after, pos,
                     lines, m_bRunning, call, posted>>
  BY DEF SleepFor, Replaying, parseVars, logVars, serviceVars, dlgVars, callVars
<1>2. now' \in Nat
  BY <1>1 DEF IInv, TypeOK, ParserTypeOK
<1>3. TypeOK'
  BY <1>1, <1>2 DEF IInv, TypeOK, ParserTypeOK
<1>4. Reading' /\ AllPaced'
  BY <1>1 DEF IInv, Reading, AllPaced
<1>5. LogIsRead => LogIsRead'
  BY <1>1, LogStays
<1>6. AtEntry'
  BY <1>1, <1>5 DEF IInv, AtEntry
<1>7. QED
  BY <1>3, <1>4, <1>6 DEF IInv

\* An entry is replayed when its time has come.
LEMMA ProcessLogDataKeeps == ASSUME IInv, ProcessLogData PROVE IInv'
<1> DEFINE r == pos[1]
           i == pos[2]
           n == Len(m_Services[r].m_vecData)
<1>1. /\ main = "replay" /\ r <= Len(m_Services) /\ Due /\ pos' = NextPos
      /\ UNCHANGED <<now, parseVars, lines, m_bRunning, call, posted>>
      /\ IF Data.m_type = "TrigHL" THEN main' = "send" /\ after' = "replay"
                                   ELSE UNCHANGED <<main, after>>
  BY DEF ProcessLogData, Replaying, DoAction, Go, callVars
<1>2. Quiet
  BY <1>1 DEF Quiet
<1>3. /\ LogIsRead /\ r \in 1..Len(m_Services) /\ i \in 1..n
      /\ pos \in Nat \X Nat /\ Len(m_Services) \in Nat /\ n \in Nat
      /\ m_Services[r] \in ServiceTimer /\ m_Services \in Seq(ServiceTimer)
  <2>1. LogIsRead /\ r >= 1 /\ i >= 1 /\ i <= n
    BY <1>1 DEF IInv, AtEntry
  <2>2. pos \in Nat \X Nat /\ m_Services \in Seq(ServiceTimer) /\ Len(m_Services) \in Nat
    BY DEF IInv, TypeOK, ParserTypeOK
  <2>3. r \in 1..Len(m_Services) /\ i \in Nat
    BY <1>1, <2>1, <2>2
  <2>4. m_Services[r] \in ServiceTimer
    BY <2>2, <2>3
  <2>5. n \in Nat
    BY <2>4 DEF ServiceTimer
  <2>6. QED
    BY <2>1, <2>2, <2>3, <2>4, <2>5
<1>4. pos' \in {<<r, i + 1>>, <<r + 1, 1>>} /\ (pos' = <<r, i + 1>> => i < n)
  BY <1>1, <1>3 DEF NextPos, Service
<1>5. m_Services' = m_Services /\ parsedAt' = parsedAt /\ now' = now
  BY <1>1 DEF parseVars, serviceVars
<1>6. TypeOK'
  BY <1>1, <1>2, <1>3, <1>4, QuietKeeps DEF IInv, TypeOK
<1>7. AtEntry'
  <2>1. LogIsRead'
    BY <1>2, <1>3, QuietKeeps
  <2>2. pos'[1] >= 1 /\ pos'[2] >= 1
    BY <1>3, <1>4
  <2>3. pos'[1] <= Len(m_Services) => pos'[2] <= Len(m_Services[pos'[1]].m_vecData)
    <3>1. CASE pos' = <<r, i + 1>>
      BY <1>3, <1>4, <3>1
    <3>2. CASE pos' = <<r + 1, 1>>
      <4> SUFFICES ASSUME r + 1 <= Len(m_Services)
                   PROVE  1 <= Len(m_Services[r + 1].m_vecData)
        BY <3>2
      <4>1. r + 1 \in 1..Len(m_Services)
        BY <1>3
      <4>2. m_Services[r + 1] \in ServiceTimer /\ Paced(m_Services[r + 1], parsedAt[r + 1])
        BY <1>3, <4>1 DEF IInv, AllPaced
      <4>3. QED
        BY <4>2, PacedHasEntry
    <3>3. QED
      BY <1>4, <3>1, <3>2
  <2>4. QED
    BY <1>5, <2>1, <2>2, <2>3 DEF AtEntry
<1>8. QED
  BY <1>2, <1>6, <1>7, QuietKeeps DEF IInv
-----------------------------------------------------------------------------
\* Nothing has been read, and the dialog is not there yet.
LEMMA InitIInv == ASSUME Init PROVE IInv
<1>1. TypeOK
  <2>1. ParserTypeOK
    <3>1. /\ now \in Nat /\ strList = <<>> /\ it = 0 /\ st \in ServiceTimer /\ m_Services = <<>>
          /\ parsedAt = <<>> /\ known = 0 /\ readAt = 0
      BY DlgAssumption, NewServiceIsEmpty DEF Init, ParserInit
    <3>2. /\ strList \in Seq(Line) /\ Len(strList) = 0 /\ parsedAt \in Seq(Nat)
          /\ m_Services \in Seq(ServiceTimer) /\ Len(m_Services) = 0
      BY <3>1
    <3>3. QED
      BY <3>1, <3>2 DEF ParserTypeOK
  <2>2. pos \in Nat \X Nat
    BY DEF Init
  <2>3. posted \in Seq(Callbacks) /\ lines \in 0..MaxLines
    BY DlgAssumption DEF Init
  <2>4. call \in [Callbacks -> {"none", "called", "posted", "shown", "refused"}]
    BY DEF Init
  <2>5. QED
    BY <2>1, <2>2, <2>3, <2>4 DEF Init, TypeOK
<1>2. Reading /\ AllPaced /\ AtEntry
  BY DEF Init, ParserInit, Reading, AllPaced, AtEntry
<1>3. QED
  BY <1>1, <1>2 DEF IInv

\* Every step keeps the invariant.
LEMMA NextKeeps == ASSUME IInv, [Next]_vars PROVE IInv'
<1>1. CASE UNCHANGED vars
  <2>1. Quiet /\ UNCHANGED <<dlgVars, callVars>>
    BY <1>1 DEF vars, Quiet, dlgVars
  <2>2. TypeOK'
    BY <2>1, QuietKeeps DEF IInv, TypeOK, dlgVars, callVars
  <2>3. AtEntry'
    BY <2>1, QuietKeeps
       DEF IInv, AtEntry, Quiet, parseVars, serviceVars, dlgVars, callVars
  <2>4. QED
    BY <2>1, <2>2, <2>3, QuietKeeps DEF IInv
<1>2. CASE Handler
  BY <1>2, HandlersKeep, ParseKeeps, ParseDoneKeeps, ProcessLogDataKeeps, SleepForKeeps
     DEF Handler
<1>3. CASE \/ SendReturns \/ OnAction \/ TestKeyEvent \/ EscapePressed
           \/ OnClose \/ GuiThreadProc \/ ExitProcess
  BY <1>3, HandlersKeep
<1>4. CASE OnAgentCallBack
  BY <1>4, OnAgentCallBackKeeps
<1>5. CASE \E log \in Logs : OnDropFiles(log)
  BY <1>5, OnDropFilesKeeps
<1>6. CASE \E c \in Callbacks : SdkCalls(c) \/ CallbackPosts(c)
  BY <1>6, SdkKeeps
<1>7. QED
  BY <1>1, <1>2, <1>3, <1>4, <1>5, <1>6 DEF Next

\* What ParseLog has read so far is an invariant of the dialog.
THEOREM Invariance == Spec => []IInv
<1>1. Init => IInv
  BY InitIInv
<1>2. IInv /\ [Next]_vars => IInv'
  BY NextKeeps
<1>3. QED
  BY <1>1, <1>2, PTL DEF Spec

\* The types of the parser and of the dialog.
THEOREM TypeCorrect == Spec => []TypeOK
<1>1. IInv => TypeOK
  BY DEF IInv
<1>2. QED
  BY <1>1, Invariance, PTL

\* A log of any length is cut into the runs that have started.
THEOREM LogsAreRead == Spec => []Parsed
<1>1. IInv => Parsed
  BY DEF IInv, AtEntry, LogIsRead, Parsed
<1>2. QED
  BY <1>1, Invariance, PTL

\* If each image is followed by its details, every start line and every image line is
\* read on its own.
LEMMA OrderlyHeads ==
    ASSUME strList \in Seq(Line), Orderly
    PROVE  HeadsOf("start") = LinesOf("start") /\ HeadsOf("image") = LinesOf("image")
<1> DEFINE N == {i \in 1..Len(strList) : \A j \in LinesOf("image") : ~Covers(j, i)}
<1>1. Len(strList) \in Nat /\ MaxCount \in Nat
  BY CountAssumption
<1>2. ASSUME NEW j \in LinesOf("image"), NEW i \in 1..Len(strList), Covers(j, i)
      PROVE  strList[i].kind = "detail"
  <2>1. j \in 1..Len(strList) /\ strList[j] \in Line /\ strList[j].kind = "image"
    BY DEF LinesOf
  <2>2. strList[j].cnt \in 1..MaxCount
    BY <2>1 DEF Line
  <2>3. i \in j + 1..j + strList[j].cnt
    BY <1>2 DEF Covers
  <2>4. i - j \in 1..MaxCount /\ i - j <= strList[j].cnt /\ j + (i - j) = i
    BY <1>1, <2>1, <2>2, <2>3
  <2>5. i \in LinesOf("detail")
    BY <2>4 DEF Orderly
  <2>6. QED
    BY <2>5 DEF LinesOf
<1>3. LinesOf("start") \subseteq N /\ LinesOf("image") \subseteq N
  BY <1>2 DEF LinesOf
<1>4. IsHeads(N)
  <2>1. \A j \in N : \A i : Covers(j, i) => j \in LinesOf("image")
    BY DEF Covers, LinesOf
  <2>2. \A i \in 1..Len(strList) : i \in N <=> \A j \in N : ~Covers(j, i)
    BY <1>3, <2>1
  <2> HIDE DEF N
  <2>3. QED
    BY <2>2 DEF IsHeads
<1>5. Heads = N
  <2>1. N \in SUBSET (1..Len(strList))
    OBVIOUS
  <2> HIDE DEF N
  <2>2. QED
    BY <1>4, <2>1, HeadsAreUnique
<1>6. N \subseteq 1..Len(strList)
  OBVIOUS
<1> HIDE DEF N
<1>7. QED
  BY <1>3, <1>5, <1>6 DEF HeadsOf, LinesOf

\* Of a log whose images are complete no start of the past and no image is lost.
THEOREM OrderlyLogsAreKept == Spec => []OrderlyParsed
<1>1. ASSUME IInv PROVE OrderlyParsed
  <2> SUFFICES ASSUME main = "replay", Orderly
               PROVE  RunsAre(LinesOf("start"), LinesOf("image"))
    BY DEF OrderlyParsed
  <2>1. RunsAre(HeadsOf("start"), HeadsOf("image"))
    BY <1>1 DEF IInv, AtEntry, LogIsRead
  <2>2. strList \in Seq(Line)
    BY <1>1 DEF IInv, TypeOK, ParserTypeOK
  <2>3. QED
    BY <2>1, <2>2, OrderlyHeads
<1>2. QED
  BY <1>1, Invariance, PTL

\* Only ProcessLogData hands an image over: the one the replay is at, when it is due.
LEMMA HandedOverWhenDue ==
    ASSUME IInv, [Next]_vars, main = "replay", main' = "send"
    PROVE  /\ Data.m_type = "TrigHL"
           /\ now - parsedAt[pos[1]] > Data.m_time - Latest(Times(Service, "Unknown"))
<1>1. ProcessLogData
  <2>1. CASE UNCHANGED vars \/ \E c \in Callbacks : SdkCalls(c) \/ CallbackPosts(c)
    BY <2>1 DEF vars, dlgVars, SdkCalls, CallbackPosts
  <2>2. CASE \/ SendReturns \/ OnAction \/ OnAgentCallBack \/ TestKeyEvent \/ EscapePressed
             \/ (\E log \in Logs : OnDropFiles(log)) \/ OnClose \/ GuiThreadProc \/ ExitProcess
    BY <2>2 DEF SendReturns, OnAction, OnAgentCallBack, TestKeyEvent, EscapePressed,
       OnDropFiles, OnClose, GuiThreadProc, ExitProcess
  <2>3. CASE Handler
    BY <2>3 DEF Handler, OnInitDialog, Parse, ParseDone, ParsePastEnd, SleepFor, ReplayEnds,
       dlgVars, Go
  <2>4. QED
    BY <2>1, <2>2, <2>3 DEF Next
<1>2. Replaying /\ Due /\ Data.m_type = "TrigHL"
  BY <1>1 DEF ProcessLogData
<1>3. /\ pos[1] \in 1..Len(m_Services) /\ Service \in ServiceTimer
      /\ pos[2] \in 1..Len(Service.m_vecData)
  <2>1. /\ pos \in Nat \X Nat /\ m_Services \in Seq(ServiceTimer) /\ Len(m_Services) \in Nat
        /\ pos[1] >= 1 /\ pos[2] >= 1 /\ pos[1] <= Len(m_Services)
        /\ pos[2] <= Len(m_Services[pos[1]].m_vecData)
    BY <1>2 DEF Replaying, IInv, AtEntry, TypeOK, ParserTypeOK
  <2>2. pos[1] \in 1..Len(m_Services)
    BY <2>1
  <2>3. m_Services[pos[1]] \in ServiceTimer
    BY <2>1, <2>2
  <2>4. Len(m_Services[pos[1]].m_vecData) \in Nat
    BY <2>3 DEF ServiceTimer
  <2>5. QED
    BY <2>1, <2>2, <2>3, <2>4 DEF Service
<1>4. Data.m_time \in Nat
  BY <1>3, TimesAre DEF Data, Entry
<1>5. now - Data.m_time > Service.m_timeGap
  BY <1>2 DEF Due, GetPastTime
<1>6. PICK t \in Nat : /\ IsLatest(t, Times(Service, "Unknown"))
                       /\ Service.m_timeGap = parsedAt[pos[1]] - t
  BY <1>3 DEF IInv, AllPaced, Paced, Service
<1>7. Latest(Times(Service, "Unknown")) = t
  BY <1>3, <1>6, TimesAre, LatestIs DEF IsLatest
<1>8. now \in Nat /\ parsedAt[pos[1]] \in Nat
  BY <1>3 DEF IInv, TypeOK, ParserTypeOK, AllPaced
<1>9. QED
  BY <1>2, <1>4, <1>5, <1>6, <1>7, <1>8

\* No image is replayed sooner than it was logged.
THEOREM ReplayIsSpaced == Spec => Spaced
<1>1. IInv /\ [Next]_vars =>
        (main = "replay" /\ main' = "send" =>
            /\ Data.m_type = "TrigHL"
            /\ now - parsedAt[pos[1]] > Data.m_time - Latest(Times(Service, "Unknown")))
  BY HandedOverWhenDue
<1>2. QED
  BY <1>1, Invariance, PTL DEF Spec, Spaced
-----------------------------------------------------------------------------
(* What DropEnds and CallbackShown rest on, short of fairness: there is      *)
(* always a step to take, and each comes nearer to the end.                  *)

\* ParseLog knows what to do with every line, whatever the details of an image are,
\* and ProcessLogData has an entry before it as long as there is a service left.
DropCanGoOn ==
    /\ main = "parse" =>
        \/ AtLine({"start", "detail", "other"})
        \/ AtLine({"image"}) /\ (GameKnown(it) \/ GameUnknown(it))
        \/ it = Len(strList) + 1 \/ PastEnd
    /\ Replaying => pos[1] \in 1..Len(m_Services) /\ pos[2] \in 1..Len(Service.m_vecData)

InReplay == main = "replay" \/ (main = "send" /\ after = "replay")

\* An entry of a later service, or a later one of the same.
LaterThan(p, q) == p[1] > q[1] \/ (p[1] = q[1] /\ p[2] > q[2])

\* How long the entry the replay is at is not yet due.
WaitLeft == Service.m_timeGap - GetPastTime(Data.m_time)

\* ParseLog never goes back in the log.
ParseNearer ==
    main = "parse" =>
        \/ strList' = strList /\ it' > it /\ main' = "parse"
        \/ main' \in {"replay", "undefined"}
        \/ UNCHANGED <<strList, it, main>>

\* The replay never goes back either, nor are services added to it under way, and
\* while it waits for an entry that one comes nearer.
ReplayNearer ==
    InReplay =>
        /\ m_Services' = m_Services
        /\ \/ InReplay' /\ LaterThan(pos', pos)
           \/ InReplay' /\ pos' = pos /\ 0 <= WaitLeft /\ WaitLeft' < WaitLeft
           \/ InReplay' /\ UNCHANGED <<pos, now>> /\ (main' = main \/ main = "send")
           \/ pos[1] > Len(m_Services) /\ main' = "loop"

DropShrinks == [][ParseNearer /\ ReplayNearer]_vars

\* A line that is neither the last nor past it is read on its own or with its details.
THEOREM DropNeverStuck == Spec => []DropCanGoOn
<1>1. ASSUME IInv, main = "parse"
      PROVE  \/ AtLine({"start", "detail", "other"})
             \/ AtLine({"image"}) /\ (GameKnown(it) \/ GameUnknown(it))
             \/ it = Len(strList) + 1 \/ PastEnd
  <2>1. /\ it >= 1 /\ it \in 0..Len(strList) + 2 /\ strList \in Seq(Line)
        /\ Len(strList) \in Nat
    BY <1>1 DEF IInv, Reading, TypeOK, ParserTypeOK
  <2>2. CASE it <= Len(strList)
    <3>1. it \in 1..Len(strList) /\ strList[it].kind \in {"start", "detail", "other", "image"}
      BY <2>1, <2>2 DEF Line
    <3>2. GameKnown(it) \/ GameUnknown(it)
      <4> SUFFICES ASSUME NEW j \in Details(it), strList[j].kind = "detail",
                          ~\E k \in Details(it) : k > j
                   PROVE  GameKnown(it)
        BY DEF GameUnknown
      <4>1. QED
        BY DEF GameKnown
    <3>3. QED
      BY <3>1, <3>2 DEF AtLine
  <2>3. QED
    BY <2>1, <2>2 DEF PastEnd
<1>2. ASSUME IInv, Replaying
      PROVE  pos[1] \in 1..Len(m_Services) /\ pos[2] \in 1..Len(Service.m_vecData)
  <2>1. /\ pos \in Nat \X Nat /\ m_Services \in Seq(ServiceTimer) /\ Len(m_Services) \in Nat
        /\ pos[1] >= 1 /\ pos[2] >= 1 /\ pos[1] <= Len(m_Services)
        /\ pos[2] <= Len(m_Services[pos[1]].m_vecData)
    BY <1>2 DEF Replaying, IInv, AtEntry, TypeOK, ParserTypeOK
  <2>2. pos[1] \in 1..Len(m_Services)
    BY <2>1
  <2>3. m_Services[pos[1]] \in ServiceTimer
    BY <2>1, <2>2
  <2>4. Len(m_Services[pos[1]].m_vecData) \in Nat
    BY <2>3 DEF ServiceTimer
  <2>5. QED
    BY <2>1, <2>2, <2>4 DEF Service
<1>3. IInv => DropCanGoOn
  BY <1>1, <1>2 DEF DropCanGoOn
<1>4. QED
  BY <1>3, Invariance, PTL

\* The steps that leave a drop where it is: those of the SDK, and its answers.
LEMMA OthersLeaveDrop ==
    ASSUME IInv,
           \/ UNCHANGED vars \/ SendReturns \/ OnInitDialog \/ OnAction \/ OnAgentCallBack
           \/ TestKeyEvent \/ EscapePressed \/ OnClose \/ GuiThreadProc \/ ExitProcess
           \/ (\E log \in Logs : OnDropFiles(log))
           \/ (\E c \in Callbacks : SdkCalls(c) \/ CallbackPosts(c))
    PROVE  ParseNearer /\ ReplayNearer
<1>1. CASE UNCHANGED vars
  BY <1>1 DEF vars, parseVars, logVars, serviceVars, dlgVars, ParseNearer, ReplayNearer, InReplay
<1>2. CASE SendReturns
  BY <1>2 DEF SendReturns, Go, parseVars, serviceVars, ParseNearer, ReplayNearer, InReplay
<1>3. CASE \/ OnInitDialog \/ OnAction \/ TestKeyEvent \/ EscapePressed \/ OnClose
           \/ GuiThreadProc \/ ExitProcess \/ \E log \in Logs : OnDropFiles(log)
  BY <1>3 DEF OnInitDialog, OnAction, TestKeyEvent, EscapePressed, OnClose, GuiThreadProc,
     ExitProcess, OnDropFiles, ParseNearer, ReplayNearer, InReplay
<1>4. CASE OnAgentCallBack \/ \E c \in Callbacks : SdkCalls(c) \/ CallbackPosts(c)
  BY <1>4 DEF OnAgentCallBack, SdkCalls, CallbackPosts, parseVars, logVars, serviceVars, dlgVars,
     ParseNearer, ReplayNearer, InReplay
<1>5. QED
  BY <1>1, <1>2, <1>3, <1>4

\* ParseLog reads on.
LEMMA ParseComesNearer ==
    ASSUME IInv, Parse \/ ParseDone \/ ParsePastEnd
    PROVE  ParseNearer /\ ReplayNearer
<1>1. main = "parse"
  BY DEF Parse, ParseDone, ParsePastEnd
<1>2. ReplayNearer
  BY <1>1 DEF ReplayNearer, InReplay
<1>3. CASE ParseDone \/ ParsePastEnd
  BY <1>2, <1>3 DEF ParseDone, ParsePastEnd, Go, ParseNearer
<1>4. CASE Parse
  <2>1. it \in Nat /\ strList \in Seq(Line) /\ Len(strList) \in Nat
    BY DEF IInv, TypeOK, ParserTypeOK
  <2>2. main' = "parse"
    BY <1>4 DEF Parse, dlgVars
  <2>3. strList' = strList /\ it' > it
    <3>1. CASE ParseStart \/ ParseUnknown
      BY <2>1, <3>1 DEF ParseStart, ParseUnknown, logVars
    <3>2. CASE ParseImage
      <4>1. it \in 1..Len(strList) /\ strList[it].kind = "image"
        BY <3>2 DEF ParseImage, AtLine
      <4>2. strList[it].cnt \in Nat
        BY <2>1, <4>1, CountAssumption DEF Line
      <4>3. QED
        BY <2>1, <3>2, <4>1, <4>2 DEF ParseImage, logVars
    <3>3. QED
      BY <1>4, <3>1, <3>2 DEF Parse, ParseLine
  <2>4. QED
    BY <1>2, <2>2, <2>3 DEF ParseNearer
<1>5. QED
  BY <1>3, <1>4

\* ProcessLogData goes on to the next entry, or waits for the one it is at.
LEMMA ReplayComesNearer ==
    ASSUME IInv, ProcessLogData \/ SleepFor \/ ReplayEnds
    PROVE  ParseNearer /\ ReplayNearer
<1>1. ParseNearer /\ main = "replay"
  BY DEF ProcessLogData, SleepFor, ReplayEnds, Replaying, ParseNearer
<1>2. pos \in Nat \X Nat
  BY DEF IInv, TypeOK
<1>3. CASE ProcessLogData
  <2>1. pos' = NextPos /\ m_Services' = m_Services /\ InReplay'
    BY <1>1, <1>3 DEF ProcessLogData, DoAction, Go, parseVars, serviceVars, InReplay
  <2>2. LaterThan(pos', pos)
    BY <1>2, <2>1 DEF NextPos, LaterThan
  <2>3. QED
    BY <1>1, <2>1, <2>2 DEF ReplayNearer
<1>4. CASE SleepFor
  <2>1. /\ Replaying /\ ~Due /\ now' = now + 1 /\ pos' = pos /\ main' = main
        /\ m_Services' = m_Services
    BY <1>4 DEF SleepFor, parseVars, serviceVars, dlgVars
  <2>2. now \in Nat /\ Service.m_timeGap \in Int /\ Data.m_time \in Int
    <3>1. /\ m_Services \in Seq(ServiceTimer) /\ pos[1] >= 1 /\ pos[2] >= 1
          /\ pos[1] <= Len(m_Services) /\ pos[2] <= Len(m_Services[pos[1]].m_vecData)
      BY <1>1, <2>1 DEF IInv, AtEntry, TypeOK, ParserTypeOK, Replaying
    <3>2. pos[1] \in 1..Len(m_Services)
      BY <1>2, <3>1
    <3>3. m_Services[pos[1]] \in ServiceTimer
      BY <3>1, <3>2
    <3>4. pos[2] \in 1..Len(m_Services[pos[1]].m_vecData)
      BY <1>2, <3>1, <3>3 DEF ServiceTimer
    <3>5. m_Services[pos[1]].m_vecData[pos[2]] \in Entry
      BY <3>3, <3>4 DEF ServiceTimer
    <3>6. now \in Nat
      BY DEF IInv, TypeOK, ParserTypeOK
    <3>7. m_Services[pos[1]].m_timeGap \in Int
      BY <3>3 DEF ServiceTimer
    <3>8. m_Services[pos[1]].m_vecData[pos[2]].m_time \in Int
      BY <3>5 DEF Entry
    <3>9. QED
      BY <3>6, <3>7, <3>8 DEF Service, Data
  <2>3. Service' = Service /\ Data' = Data
    BY <2>1 DEF Service, Data
  <2>4. 0 <= WaitLeft /\ WaitLeft' < WaitLeft
    BY <2>1, <2>2, <2>3 DEF WaitLeft, GetPastTime, Due
  <2>5. QED
    BY <1>1, <2>1, <2>4 DEF ReplayNearer, InReplay
<1>5. CASE ReplayEnds
  BY <1>1, <1>5 DEF ReplayEnds, Go, parseVars, serviceVars, ReplayNearer
<1>6. QED
  BY <1>3, <1>4, <1>5

\* Every step of a drop brings its end nearer, through the lines of the log, the
\* entries of all services and the time until each is due, and no call of the SDK or
\* other log adds to it (HlTestDlg.cpp:586-638): with DropNeverStuck, all of DropEnds
\* but fairness.
THEOREM DropComesNearer == Spec => DropShrinks
<1>1. IInv /\ [Next]_vars => ParseNearer /\ ReplayNearer
  BY OthersLeaveDrop, ParseComesNearer, ReplayComesNearer DEF Next, Handler
<1>2. QED
  BY <1>1, Invariance, PTL DEF Spec, DropShrinks

\* Each call that was posted is in the queue of the dialog, once.
PostedOnce ==
    /\ \A i, j \in 1..Len(posted) : posted[i] = posted[j] => i = j
    /\ \A c \in Callbacks : call[c] = "posted" <=> \E i \in 1..Len(posted) : posted[i] = c

\* A message in the queue keeps its place, moves up by one, or is shown.
MovesUp(i) ==
    \/ i <= Len(posted') /\ posted'[i] = posted[i]
    \/ i > 1 /\ i - 1 <= Len(posted') /\ posted'[i - 1] = posted[i]
    \/ i = 1 /\ call'[posted[1]] = "shown"

InTurn == [][\A i \in 1..Len(posted) : MovesUp(i)]_vars

\* A message is added to the end of the queue, and taken from its head.
LEMMA QueueSteps ==
    ASSUME IInv, [Next]_vars
    PROVE  \/ UNCHANGED callVars
           \/ \E c \in Callbacks, v \in {"called", "refused"} :
                /\ posted' = posted /\ call[c] # "posted"
                /\ call' = [call EXCEPT ![c] = v]
           \/ \E c \in Callbacks :
                /\ call[c] = "called" /\ call' = [call EXCEPT ![c] = "posted"]
                /\ posted' = Append(posted, c)
           \/ /\ posted # <<>> /\ posted' = Tail(posted)
              /\ call' = [call EXCEPT ![Head(posted)] = "shown"]
<1>1. CASE OnAgentCallBack
  BY <1>1 DEF OnAgentCallBack
<1>2. ASSUME NEW c \in Callbacks, SdkCalls(c) \/ CallbackPosts(c)
      PROVE  \/ \E v \in {"called", "refused"} :
                  /\ posted' = posted /\ call[c] # "posted"
                  /\ call' = [call EXCEPT ![c] = v]
             \/ /\ call[c] = "called" /\ call' = [call EXCEPT ![c] = "posted"]
                /\ posted' = Append(posted, c)
  BY <1>2 DEF SdkCalls, CallbackPosts
<1>3. CASE \/ UNCHANGED vars \/ Handler \/ SendReturns \/ OnAction \/ TestKeyEvent \/ EscapePressed
           \/ (\E log \in Logs : OnDropFiles(log)) \/ OnClose \/ GuiThreadProc \/ ExitProcess
  BY <1>3 DEF vars, Handler, SendReturns, OnInitDialog, OnAction, TestKeyEvent, EscapePressed,
     OnDropFiles, OnClose, GuiThreadProc, ExitProcess, Parse, ParseDone, ParsePastEnd,
     ProcessLogData, SleepFor, ReplayEnds
<1>4. QED
  BY <1>1, <1>2, <1>3 DEF Next

\* The queue of the dialog holds the calls that were posted, each once.
THEOREM CallsAreQueued == Spec => []PostedOnce
<1>1. Init => PostedOnce
  BY DEF Init, PostedOnce
<1>2. ASSUME IInv, PostedOnce, [Next]_vars
      PROVE  PostedOnce'
  <2>0. /\ call \in [Callbacks -> {"none", "called", "posted", "shown", "refused"}]
        /\ posted \in Seq(Callbacks) /\ Len(posted) \in Nat
    BY <1>2 DEF IInv, TypeOK
  <2> USE <2>0
  <2>1. CASE UNCHANGED callVars
    BY <1>2, <2>1 DEF PostedOnce, callVars
  <2>2. ASSUME NEW c \in Callbacks, NEW v \in {"called", "refused"}, posted' = posted,
               call[c] # "posted", call' = [call EXCEPT ![c] = v]
        PROVE  PostedOnce'
    BY <1>2, <2>2 DEF PostedOnce
  <2>3. ASSUME NEW c \in Callbacks, call[c] = "called", call' = [call EXCEPT ![c] = "posted"],
               posted' = Append(posted, c)
        PROVE  PostedOnce'
    <3>1. /\ Len(posted') = Len(posted) + 1 /\ posted'[Len(posted) + 1] = c
          /\ \A i \in 1..Len(posted) : posted'[i] = posted[i]
      BY <2>3
    <3>2. \A i \in 1..Len(posted) : posted[i] # c
      BY <1>2, <2>3 DEF PostedOnce
    <3>3. \A i, j \in 1..Len(posted') : posted'[i] = posted'[j] => i = j
      BY <1>2, <3>1, <3>2 DEF PostedOnce
    <3>4. ASSUME NEW d \in Callbacks
          PROVE  call'[d] = "posted" <=> \E i \in 1..Len(posted') : posted'[i] = d
      <4>1. CASE d = c
        BY <2>3, <3>1, <4>1
      <4>2. CASE d # c
        <5>1. call'[d] = call[d]
          BY <2>3, <4>2
        <5>2. (\E i \in 1..Len(posted') : posted'[i] = d) <=> \E i \in 1..Len(posted) : posted[i] = d
          BY <3>1, <4>2
        <5>3. QED
          BY <1>2, <5>1, <5>2 DEF PostedOnce
      <4>3. QED
        BY <4>1, <4>2
    <3>5. QED
      BY <3>3, <3>4 DEF PostedOnce
  <2>4. ASSUME posted # <<>>, posted' = Tail(posted), call' = [call EXCEPT ![Head(posted)] = "shown"]
        PROVE  PostedOnce'
    <3>1. /\ Len(posted) >= 1 /\ Len(posted') = Len(posted) - 1 /\ Head(posted) = posted[1]
          /\ \A i \in 1..Len(posted') : posted'[i] = posted[i + 1]
      BY <2>4
    <3>2. \A i, j \in 1..Len(posted') : posted'[i] = posted'[j] => i = j
      <4> SUFFICES ASSUME NEW i \in 1..Len(posted'), NEW j \in 1..Len(posted'), posted'[i] = posted'[j]
                   PROVE  i = j
        OBVIOUS
      <4>1. i + 1 \in 1..Len(posted) /\ j + 1 \in 1..Len(posted) /\ posted[i + 1] = posted[j + 1]
        BY <3>1
      <4>2. i + 1 = j + 1
        BY <1>2, <4>1 DEF PostedOnce
      <4>3. QED
        BY <4>2
    <3>3. ASSUME NEW d \in Callbacks
          PROVE  call'[d] = "posted" <=> \E i \in 1..Len(posted') : posted'[i] = d
      <4>1. CASE d = posted[1]
        <5>1. call'[d] # "posted"
          BY <2>4, <3>1, <4>1
        <5>2. ASSUME NEW i \in 1..Len(posted'), posted'[i] = d PROVE FALSE
          <6>1. i + 1 \in 1..Len(posted) /\ 1 \in 1..Len(posted) /\ posted[i + 1] = posted[1]
            BY <3>1, <4>1, <5>2
          <6>2. i + 1 = 1
            BY <1>2, <6>1 DEF PostedOnce
          <6>3. QED
            BY <6>2
        <5>3. QED
          BY <5>1, <5>2
      <4>2. CASE d # posted[1]
        <5>1. call'[d] = call[d]
          BY <2>4, <3>1, <4>2
        <5>2. ASSUME NEW i \in 1..Len(posted), posted[i] = d
              PROVE  i - 1 \in 1..Len(posted') /\ posted'[i - 1] = d
          BY <3>1, <4>2, <5>2
        <5>3. ASSUME NEW i \in 1..Len(posted'), posted'[i] = d
              PROVE  i + 1 \in 1..Len(posted) /\ posted[i + 1] = d
          BY <3>1, <5>3
        <5>4. QED
          BY <1>2, <5>1, <5>2, <5>3 DEF PostedOnce
      <4>3. QED
        BY <4>1, <4>2
    <3>4. QED
      BY <3>2, <3>3 DEF PostedOnce
  <2>5. QED
    BY <1>2, <2>1, <2>2, <2>3, <2>4, QueueSteps
<1>3. QED
  BY <1>1, <1>2, Invariance, PTL DEF Spec

\* Calls are shown in the order in which they were posted: none is passed over, and
\* each that is shown brings the others one nearer (HlTestDlg.cpp:542-569, 709).
THEOREM CallsComeNearer == Spec => InTurn
<1>1. ASSUME IInv, [Next]_vars, NEW i \in 1..Len(posted)
      PROVE  MovesUp(i)
  <2>0. /\ call \in [Callbacks -> {"none", "called", "posted", "shown", "refused"}]
        /\ posted \in Seq(Callbacks) /\ Len(posted) \in Nat
    BY <1>1 DEF IInv, TypeOK
  <2> USE <2>0
  <2>1. CASE posted' = posted
    BY <2>1 DEF MovesUp
  <2>2. ASSUME NEW c \in Callbacks, posted' = Append(posted, c)
        PROVE  i <= Len(posted') /\ posted'[i] = posted[i]
    BY <2>2
  <2>3. ASSUME posted # <<>>, posted' = Tail(posted), call' = [call EXCEPT ![Head(posted)] = "shown"]
        PROVE  \/ i > 1 /\ i - 1 <= Len(posted') /\ posted'[i - 1] = posted[i]
               \/ i = 1 /\ call'[posted[1]] = "shown"
    <3>1. /\ Len(posted') = Len(posted) - 1 /\ Head(posted) = posted[1] /\ posted[1] \in Callbacks
          /\ \A k \in 1..Len(posted') : posted'[k] = posted[k + 1]
      BY <2>3
    <3>2. CASE i = 1
      BY <2>3, <3>1, <3>2
    <3>3. CASE i > 1
      <4>1. i - 1 \in 1..Len(posted')
        BY <3>1, <3>3
      <4>2. QED
        BY <3>1, <3>3, <4>1
    <3>4. QED
      BY <3>2, <3>3
  <2>4. QED
    BY <1>1, <2>1, <2>2, <2>3, QueueSteps DEF callVars, MovesUp
<1>2. IInv /\ [Next]_vars => \A i \in 1..Len(posted) : MovesUp(i)
  BY <1>1
<1>3. QED
  BY <1>2, Invariance, PTL DEF Spec, InTurn
=============================================================================
