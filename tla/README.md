# MfcHL: verification project

TLA+ models of the concurrent parts of MfcHL, model-checked with TLC, with
proofs checked by TLAPS. Paths below are relative to the repository's `src/`
unless they name a file of this directory.

## 1. The system

MfcHL is an MFC test tool (HlTest) with the Windows libraries it grew around.
Most of its lines are straight calls of MFC, WinINet, SQLite or string
functions. What is difficult to get right is the HTTP and threading code:

| part | code | state it keeps | operations | talks to |
|---|---|---|---|---|
| HttpLib, asynchronous client | `libProject/libHttp/HttpLib.cpp` | a queue of CURL_OBJ under m_dataMutex, the events m_hRequest and m_hExit, a curl multi handle | AsyncRequest, SyncRequset, the worker thread, Stop | curl (its multi handle), the caller's callbacks, which may issue requests |
| SafeThreadBase | `libProject/libHttp/Utils/safethread.h` | the thread handles | start, join, terminate after a time-out | HttpLib |
| CCondition, CMonitor | `SinglePro/libHttp_consoletest/utility/Condition.cpp`, `Monitor.cpp` | three counters, two semaphores, two critical sections | Lock, Unlock, Wait, TimedWait, Notify, NotifyAll | CBinderThreadPool |
| CBinderThreadPool | `utility/threadpool.cpp` | the deques of waiting and running tasks, the number of readers | AddTask, RemoveTask, the workers, Stop | CMonitor, the tasks |
| CGlobalTimer | `utility/GlobalTimer.cpp` | the list of timers under a recursive lock, an event | AddTimer, DeleteTimer, the timer thread | whatever a timer is bound to |
| CHttpWebRequest | `HttpHelper/HttpWebRequest.cpp`, `WebRequest.cpp` | references (m_own), m_finished, m_hasTimeOut, m_bClosed, m_callback | AsyncRequest, Close, the thread of the request, the time-out, the destructor | CGlobalTimer, CHttpClientSession, the caller's callback |
| CHttpClientSession | `HttpHelper/HttpClientSession.cpp` | three WinINet handles, m_bHttpClosed, nJumpRetryCount | Request with redirects, second attempts and early returns; Connect, OpenRequest, Response; Close and ResetRequestHandle from any thread | WinINet, the CWebRequest that derives from it |
| CCurlClient | `libProject/libcurl/CurlClient.cpp` | the file and its `.part` file | DownloadFile, its write and progress callbacks | curl, the file system |
| events, bound calls | `utility/EventHandler.h`, `AsyncFuncCall.h` | observers, handlers, a queue of calls | add, remove, fire, dispatch | their users |
| HlTest dialog | `HlTestDlg.cpp`, `SEHelper.cpp` | m_bRunning, the replay of a log, the messages posted to it | handlers that send an action to the SDK, replay a log that was dropped, wait for ESC; the callback of the SDK | the log parser, the SDK (seinvoke), the user |
| CLogParser | `LogParser.cpp` | m_Services, which grows with every log | ParseLog, ParseImageDetail, GetServices | the dialog |

`PROJECT.json` lists every part, those that are not modelled too.

What is difficult in each, and what makes it correct:

- **HttpLib.** A queue with an auto-reset event that is reset before the queue is
  taken; a worker that runs callbacks, which issue requests; a stop that in a
  release build terminates the worker after 5 s wherever it is. Correct: no
  request is forgotten in the queue, each is notified once through the callback
  it was issued with, nothing moves after the join, Stop returns.
- **CCondition.** Two semaphores and counters that are changed under different
  locks. Correct: a notification wakes a thread that slept when it was given, the
  counts are those of the threads asleep, and the gate opens again.
- **CBinderThreadPool.** Notifications that are lost when nobody sleeps; tasks that
  move between two deques while RemoveTask looks at them. Correct: no task is
  overlooked or executed twice, an object that was removed is not touched again,
  RemoveTask and Stop return.
- **CGlobalTimer and CHttpWebRequest.** Two threads race to deliver one result and
  to drop the last reference of the object, with a timer bound to a raw pointer
  and a list that is changed while it is walked. Correct: one callback, on an
  object that is still there, and no leak.
- **CHttpClientSession.** A request is a chain of blocking calls over three handles,
  which another thread closes at any moment, without a lock that both take; a
  redirect closes them and goes round again. Correct: no handle is left when
  Request has returned, none is opened on a session that has been closed, and
  Close makes Request return.
- **HlTest dialog and CLogParser.** A handler keeps the dialog's thread for as long
  as a replay takes, while the SDK calls back on its own thread; a log is cut into
  runs by an iterator that images move on, with one run under construction that is
  pushed, reset or passed on. Correct: however a log is made, a run that has started
  has no entry of another; of a log whose images are complete nothing of the past is
  lost, moved or doubled; an image is not replayed too soon; neither thread waits for
  the other.
- **CCurlClient.** A download over several calls, with broken and silent
  connections, a process that may be killed, and results of the file system and of the
  HEAD that are not looked at. Correct: the file that appears is whole, unless a call
  without breakContinue has been appended to an older `.part` file; it is removed only
  by a call that was told another length; trying again gets there.

## 2. Modules

| module | models | proofs |
|---|---|---|
| `HttpLib` (`MCHttpLib`) | HttpLib.cpp and the join of safethread.h | `HttpLibProofs` |
| `AsyncService` | abstract: what HttpLib and the pool promise | |
| `Condition`, `Monitor` | Condition.cpp; Monitor.cpp on top of it | `MonitorProofs` |
| `CondVar` | abstract: a condition variable | |
| `ThreadPool` (`MCThreadPool`) | threadpool.cpp, on the waits of CMonitor | `ThreadPoolProofs` |
| `GlobalTimer` | GlobalTimer.cpp: the list, the timer thread | |
| `HttpSession` | HttpClientSession.cpp: Request and Close over the WinINet handles | `HttpSessionProofs` |
| `HttpWebRequest` | HttpWebRequest.cpp and WebRequest.cpp on top of GlobalTimer and HttpSession | `HttpWebRequestProofs` |
| `WholeRequest` | the refinement of `HttpWebRequest` without sessions by `HttpWebRequest` with them | `WholeRequestProofs` |
| `CurlDownload` | CCurlClient::DownloadFile | `CurlDownloadProofs` |
| `LogParser` | LogParser.cpp: ParseLog | `HlTestDlgProofs` |
| `HlTestDlg` | HlTestDlg.cpp on top of LogParser, SEHelper.cpp, the SDK | `HlTestDlgProofs` |

`Monitor`, `HttpWebRequest` and `HlTestDlg` compose components: they EXTEND the
modules of the lower ones and conjoin their steps with their own; `HttpWebRequest`
does so with two. `ThreadPool` uses the
monitor through what `CondVar` says of it. Definitions marked "Faulty form" are
not part of any specification: each is a mistake that could have been made in the
code, and a property must refute it (`PROJECT.json`, "mutants").

### State and steps

- **HttpLib.** `place[r]` is where the CURL_OBJ of a request is, from `prepared`
  over `queued` (m_vecCurlObj), `multi` (added to the multi handle) and `done`
  (its CURLMSG_DONE is unread) through the stages of
  handle_request_finished_event to `freed`. `caller[r]` is the thread that
  issued it, `worker` the place in AsyncRequestWorkThread, `owner` the one in
  Stop. `PushBack` and `SignalRequest` are two steps because the lock is released
  between them; `WaitAny` and `Collect` are two steps because the event is reset
  before the queue is swapped. `curl_multi_perform_ex` lets any set of transfers
  end. `TerminateOnTimeout` distinguishes the release from the debug build.
- **Condition and Monitor.** One step per critical section or semaphore
  operation of `_preWait`, `_wake`, `_postWait`; `m_gate`, `m_queue` are the
  semaphores. Notify only counts (m_nnotify); Unlock and Wait give the wakeups.
  `Timed` are the threads that use TimedWait.
- **ThreadPool.** One step per critical section of m_monitor. `waiting` and
  `running` are the two deques (the first in the order of `added`), `readers` is
  m_dwWaitingAsyncRequestReaders, `asleep` the workers in the monitor's Wait. A
  notification wakes one worker that is asleep when it is given. AddTask looks only at
  m_bCloseAll: tasks of an object may be added while RemoveTask polls for it. `Alive` is
  what the pool asks of its callers, that none is added once RemoveTask has returned.
- **GlobalTimer and HttpWebRequest.** `pc` is the place of the timer thread and of
  the thread of each request; `visit` the index OnThreadTimer is at. The lock of
  the list is held by the timer thread from the first visit to the last, and is
  recursive (`CanLock`). `refs[r]` is the set of references to an object, `deleter`
  the thread that dropped the last one and runs the destructor. A callback may
  issue, close or release any request (`ClientThread`). When the walk reads past
  the end of the list every thread is `undefined` and no step follows.
- **HttpSession.** One step per WinINet call of Request. `step[r]` is where the
  thread is, `handle[r]` the three members m_hHTTPOpen, m_hHTTPConnect and
  m_hHTTPRequest ("closed" between InternetCloseHandle and the assignment of NULL),
  `live[r]` how many handles WinINet has open, which must not go out of step with
  them. `reset[r][x]` is where a user (the thread itself, a client, the timer) is in
  Close or ResetRequestHandle; a user in `dangling[r]` has closed the handle it is
  at. CWebRequest overrides OpenRequest and Close with a lock, but Connect and the
  session's Close are not virtual: what Request calls of these takes none.
  `HttpWebRequest` follows the sessions of `Sessions` in this way (`SessionRequest`,
  `CWebRequestClose`); for the other requests a request under way is one step,
  `Finish`. `WholeRequest` shows that nothing is lost by that: it maps a request
  followed call by call to one that is not, with the Close at the end of the callback
  as the one step that sets m_bClosed (`wholePc`, `wholeCallback`).
- **LogParser and HlTestDlg.** One step per line of ParseLog: `it` is the iterator,
  `st` the run being read, `strList` the log. A line is its kind; its time is its
  place in the log; an image announces `cnt` details, and its game is that of the last one.
  `parsedAt`, `known` and `readAt` are history variables: when each run was read, how
  many are of earlier logs. `main` is the place of the dialog's thread: "loop" takes
  the next message, "send" waits in seinvoke_send, "keys" polls for ESC, "replay" is
  OnDropFiles at the entry `pos`. `call[c]` follows a callback of the SDK to the text
  shown, or to a PostMessage that fails (`refused`).
- **CurlDownload.** `target` and `part` are the contents of the two files as
  sequences of byte numbers, `resumeByte` and `dlnow` those of the code. A crash
  keeps a beginning of what the transfer has written. The HEAD tells the length of
  the file or of an error page (`Lengths`), for it does not fail on an HTTP error, or
  does not answer; a remove or rename may fail and goes unseen. `ranges` says whether
  the server can resume; `appended` (a transfer that does not resume has found a `.part`
  file), `misled` (the HEAD told another length) and `refused` (the rename failed) are
  history variables.

## 3. Runs

| run | question | size |
|---|---|---|
| `http_release`, `http_debug` | four requests, one of each kind, in the release build (safety, refinement of `AsyncService`) and in the debug build (liveness) | 91 010 and 58 268 states |
| `monitor` | four threads, untimed: one baton, wakeups end, refines `CondVar` | 39 423 |
| `monitor_count` | four threads, two of them timed: the counters | 65 931 |
| `monitor_timed` | violation: a timed wait that does not return | |
| `thread_pool` | two workers, three tasks, two objects, Stop: safety, refinement of `AsyncService`, liveness | 69 287 |
| `web_request` | two requests, one timer thread, no session followed: safety | 521 983 |
| `web_request_ends` | one request with its session, call by call: no handle is left, none opened after a Close, Close ends Request; the callback is run, the object collected; refines the request without a session | 77 489 |
| `web_request_alive` | violation: the object may be deleted while its request is under way | |
| `timer_walk` | violation: the walk reads past the end of the list | |
| `curl_download` | a file of three bytes, two faults: safety and liveness | 7 071 |
| `log_replay` | logs of five lines in all, one callback of the SDK: parsing, pace, the end of a replay, the callback | 429 237 |

The bounds:

- HttpLib needs one request of each kind (function callback, interface,
  synchronous, download), and two downloads of the same path for the file
  sharing. Each is issued once; the model has no other bound.
- The faults of the monitor need a signaller, a waiter that leaves, one that
  times out and one that comes late: four threads. `MaxNotify` bounds the
  notifications of one critical section, `MaxLeft` the counter m_unblocked that
  expired waits raise. Neither cuts off a step of a wakeup under way.
- The pool's races are between two workers, an adder and a remover. Three tasks
  let one wait while both workers are busy; two of one object let RemoveTask
  find one waiting and one running.
- Two web requests are needed for a callback that releases another request and
  for a walk over two timers. One is enough for liveness: requests meet only in
  the timer's list, and the timer thread serves one after the other.
- `MaxJumpRetry` = 2 lets a session be redirected to a second address, with handles
  to reset before it, and be refused a third. The sessions of the runs with two
  requests are not followed (`Sessions` = {}): requests share no session, and what a
  session does is, seen from outside, what a request without one may do (`WholeSpec`,
  checked by `web_request_ends` and proved for any number of requests).
- Five lines (`MaxLines`) and images of up to two details (`MaxCount`) hold a run with
  two images, an image before the first start, details that end with the log, an image
  that swallows the next start, two runs with an image in one of them, and two logs
  dropped one after the other. The clock starts at 4 (`StartTimes`): the last two lines
  of a long log lie in the future, shorter ones are past. One call of the SDK meets
  every state of the dialog.
- Three bytes and two faults (`MaxFaults`) give a crash or a silence in the
  first, the middle and the last part of a resumed transfer. The error page is one byte
  longer than the file, as long as the old file that may be there. A `.part` file that
  has been appended to is not appended to again: Delivered and Completes claim nothing
  from the first time on.

`CHECK_DEADLOCK FALSE` is set where the system may stop for good: nobody has to
call it again, or all threads are undefined.

### Findings

Three runs end in a violation, on purpose. `PROJECT.json` quotes the lines.

1. `monitor_timed`: CCondition says it imitates the POSIX condition variable. A
   timed wait that expires during a wakeup may wait without limit for a token
   another thread has taken, with the gate shut.
2. `web_request_alive`: m_own is to keep the object while the request is under
   way. After a time-out the callback may be over, and the last reference gone,
   while the request's own thread is still in DoSyncStartRequest.
3. `timer_walk`: what a timer runs may delete two timers of the list that is being
   walked; the next index is then past the end.

## 4. Fairness

Weak fairness of a thread means that Windows schedules it; strong fairness of
an action that waits for a lock or a semaphore means that a thread that asks
again and again gets it. Beyond that:

- HttpLib: callbacks return, and the 5 s of the join pass. `NetworkSpec` adds that
  a transfer curl keeps driving ends (with an answer, an error or curl's
  time-out). Nobody has to issue a request or to stop.
- Monitor: who holds the mutex gives it up. Nobody has to wait or notify.
- ThreadPool: tasks return, RemoveTask polls, Stop goes on. Nobody has to add,
  remove or stop. A behaviour adds each task once, so finitely many: callers that add
  tasks of an object for ever may keep its RemoveTask polling for ever.
- HttpWebRequest: callbacks return, the interval of a timer passes some day, and a
  request that has been closed ends. One that has not been closed may stay in the
  network for ever: the time-out is there for that. Strong fairness for the
  threads that wait for the timers' list is justified by the sleep of the timer
  thread between two walks, outside the lock.
- HttpSession: a call on a handle that has been closed returns (WinINet fails it);
  one on an open handle need not, ever (`Unblocked`). With this, and the fairness of
  the users that Close, `RequestReturns` shows that a request that has been closed
  ends, which is what is assumed of the requests whose session is not followed.
- HlTestDlg: the dialog's handlers run, and the SDK answers an action once the
  callback it is in has returned. A posted message is taken before mouse and keyboard
  input, so the user cannot keep it waiting: strong fairness of OnAgentCallBack.
  Nobody has to press ESC, to drop a log or to close the dialog.
- CurlDownload: the progress callback runs every second, so a transfer that
  stays silent is broken off. Nothing is assumed of the HEAD, which has neither a
  time-out nor a progress callback: `Returns` begins when a call has the length, and
  `Completes` has the premise that no HEAD stays without an answer for ever. For
  `Completes` the caller tries again with breakContinue, and what may succeed again and
  again (the HEAD with the right length, the transfer, remove and rename) succeeds at
  last.

## 5. Proofs

All are for any finite number of threads, tasks, requests or sessions, and any length.
Each module states an inductive invariant (`IInv`; `SInv` of the sessions, `WInv` of
`WholeRequest`, `CountInv` and `BatonInv` of the monitor) as a conjunction of named
parts, proves that every action preserves it and derives the theorems.

- **HttpLibProofs.** `notified` counts exactly the requests in the stages after
  their notification (`Counted`); a queued request has a worker about to collect,
  a signalled event or a caller about to signal (`Wakeup`, stronger than
  NoLostWakeup, which does not say what a busy worker will do); a synchronous
  request is finished by its caller (`CallInside`), and none is inside when the
  object is destroyed (`Shutdown`). From these: the types, NoLostWakeup,
  NotifiedOnce, QuietAfterJoin and the refinement of `AsyncService`. A second layer (`GoesOn`) says that the worker handles one message
  at a time, that a callback which issues a request is that of the message at hand,
  and that a batch is over, messages read, before the next is taken.
- **MonitorProofs.** For all threads, timed waits included: WaitersCounted and the
  types (no counter goes negative); the mutex has the one owner who works under it
  (`MutexHeld`); gate, token and the threads in the middle of a wakeup are never two
  batons (`NotDoubled`). Without timed waits there is always exactly one (`BatonInv`,
  `OneBaton`), CMonitor implements `CondVar`, and a wakeup under way always has a
  thread to go on with. For this last one the baton is not enough: it takes
  `GrantedSleep`, that no more wakeups are granted than threads sleep. The
  assumption `Timed = {}` of these is necessary: `monitor_timed` refutes them
  otherwise, and shows that timed waits can lose a baton but, by the theorem above,
  not double it.
- **CurlDownloadProofs.** As long as nothing was appended, the `.part` file is a
  beginning of the file and a transfer under way continues it where it ends;
  when it is about to get its name it is whole. From this: types, Delivered, Kept, and
  that nothing received is lost but by a kill or a silence (`ReceivedKept`), not by a
  rename that fails; from the types CallShrinks.
- **ThreadPoolProofs.** A task taken is held by one worker and registered as
  running (`Held`), is no longer waiting, and was not executed before (`Fresh`); an
  object removed has no task in either deque (`Gone`); the readers are counted
  exactly (`Counted`), so an AddTask that counts none knows that nobody sleeps.
  From these: types, WorkSeen, RunOnce, RemovedUntouched and the refinement of
  `AsyncService`. A second layer (`Ends`) adds that Stop misses no sleeper
  (`NoneLeftAsleep`, for it reads the number of readers without the lock), that a
  running task is held by a worker unless the pool was closed (`RunningHeld`), that the
  tasks are numbered in the order of AddTask (`Numbered`), and that none was taken that
  was added after one that still waits (`TakenInOrder`).
- **HttpWebRequestProofs.** Who works with an object holds a reference to it
  (`Holds`), and an object without references has been left to one destructor
  (`Counted`). A timer is in the list once, is added only for a request that was
  started (`TimerStarted`) and executes once (`FiredOnce`); of the two threads that
  may deliver the result one has not run the callback (`NotRun`). When the walk has
  left the list or the headers have been raced for, every thread is undefined, and
  only what is past is claimed. From these: CallbackOnce, AliveInCallback,
  NoTimerOfFreed, TimersSeen, for any number of requests. A second layer
  (`NoneLeftBehind`) says of every request that is over who is about to let go of its
  object (`LetGo`) and who of its callback (`Remembered`), and that a thread inside
  `_CS` has found the request timed out (`TooLate`). From this last one there is no
  deadlock between the list of timers and `_CS`: the destructor that `m_own.reset()`
  runs inside `_CS` waits for the list, and ProcessTimeOut takes `_CS` with the list
  locked, but never that of the same request any more.
- **HttpSessionProofs.** For each session (`Sound`): WinINet has open what the
  members say (`Live`), although a handle may be closed by two users; a member that
  one user is about to set to NULL is not opened in between (`Dangles`), because who
  resets the handles has raised m_bHttpClosed first (`Flagged`) and OpenRequest
  looks at it under the lock that Close holds (`Locked`); what the thread has reset
  stays NULL (`Cleared`, `ThreadResets`). From these: types, NoHandleLeft,
  ClosedStaysClosed, for any number of sessions, redirects and closers.
- **WholeRequestProofs.** A request followed call by call implements one whose
  session is not followed (`ImplementsWhole`). The mapping moves the end of the
  callback forward to the step that sets m_bClosed; to know that the steps after it
  change nothing the other side sees, the proof needs to know who may be in Close of
  which object (`Closers`, kept by every step because the client in Close holds a
  reference, and a thread or the timer in Close serves the result). WholeSpec says
  `[Undefined' \/ Whole!Next]`: once the headers have been raced for, or the walk has
  left the list, the program's behaviour is undefined and nothing is claimed of that
  step. The theorem is why the run `web_request`, with two requests, need not follow
  their sessions.
- **HlTestDlgProofs.** The lines that are read on their own, and not as the details
  of an image, are determined by the log: of two such sets the least line in which
  they differ (`WFMin`) would have to be covered and not covered. While the log is read,
  those before the iterator are known (`HeadsSoFar`), each run holds some of them in
  order, with its own start (`Sorted`), later than the runs before it (`Precedes`),
  none is missing (`Recorded`), a start that was not pushed is in the future
  (`LastStart`), and a run that was pushed has one start, in the past (`Pushed`). A run
  keeps how long before it was read its last start was (`Paced`), which is what Due
  compares with. From these: types, Parsed, Spaced, for logs of any length. For
  OrderlyParsed it remains to show that in a log whose images are complete every start
  and image line is one that is read on its own (`OrderlyHeads`). A last
  section follows the thread of the dialog through a drop, and a callback through
  the queue (`PostedOnce`).

### What is proved of progress

Liveness itself is model-checked only: neither fairness nor ENABLED is within the
provers' reach. What a liveness property rests on besides fairness can be said
without it, and is proved where it is not obvious: a measure that every step of
whoever must come to an end lowers and nobody else raises, and that there always
is such a step.

| property (run) | measure | never stuck |
|---|---|---|
| WakeupEnds (`monitor`) | `WakeupNearsItsEnd`: three steps per sleeper | `WakeupNeverStuck` |
| StopReturns (`thread_pool`) | `StopComesNearer`: three steps per worker | `StopLeavesNoneAsleep` |
| RemoveReturns (`thread_pool`) | `RemoveComesNearer`: no task is waited for twice | `RunningIsHeld` |
| Served (`thread_pool`) | `ServedComesNearer`: what is taken before a task only gets fewer | `NoTaskForgotten` |
| Answered, StopReturns (`http_debug`) | `BatchComesNearer`: six steps per transfer; `StopComesNearer`: one batch more at most | `WorkerNeverStuck`, `NoTransferAbandoned` |
| Returns (`curl_download`) | `CallComesNearer`: 2 * Length + 7 steps | |
| Completes (`curl_download`) | `NothingReceivedIsLost`: what is received stays, but for kills and silences, which `MaxFaults` bounds | |
| RequestReturns (`web_request_ends`) | `RequestComesNearer`: 20 steps per address | `RequestGoesOn` |
| Answered (`web_request_ends`) | `AnswerIsKept`: what is on its way to the callback stays so until it is there | `NobodyLeftBehind` |
| Collected (`web_request_ends`) | `CollectionComesNearer`: references only get fewer; `WalkComesNearer`: eight steps per timer | `NobodyLeftBehind`, `WalkNeverStuck` |
| DropEnds (`log_replay`) | `DropComesNearer`: line by line, entry by entry | `DropNeverStuck` |
| CallbackShown (`log_replay`) | `CallsComeNearer`: its place in the queue | `CallsAreQueued` |

What is left to fairness in each row is that whoever has such a step takes it; where
the fairness is strong (section 4), that he gets the lock, or that what is tried
again and again (a timer, a transfer) comes to pass. Where a measure is a sum over
workers, transfers or references, the theorems say of each that its part falls and of
the others that theirs does not rise: the sum itself is not formed, for without
induction over finite sets nothing could be proved of it.

The proofs assume only the ASSUMEs of the modules (finite sets, constants of
their types). Every invariant and every refinement of the passing runs is proved,
and so are their action properties. Induction over data is out of the provers' reach
too: nothing here needs it but the reading of a log, where the least line stands in
for it.

## 6. Not modelled

- External code (curl, WinINet, the file system, Win32 objects) is modelled from
  how it is used, not verified.
- Time is abstract: a time-out may fire whenever it is armed. Tick counters that
  wrap are left out.
- The contents of requests and answers, headers, URLs, proxies, SSL options.
- HttpLib's SYNC run mode; recursive Lock of a monitor; loop and UI timers;
  RemoveTask called from a task of the same object (it waits for itself).
- Two calls of DownloadFile for the same path at once, and files past 2 GB. A body
  without a length that ends with its connection: curl takes what has come for all.
- What nothing is promised of: a call of DownloadFile without breakContinue after a
  break appends the file to the old `.part` file (CurlClient.cpp:256) and delivers that,
  TRUE is returned when the rename failed (347) or when the file that is there is as
  long as an error page (210), and a HEAD may take for ever (481). The model does all of
  it; the properties say where their claims end. A function callback of HttpLib runs
  before the file of its download is closed (HttpLib.cpp:356), which the comment at 361
  does not say. An image takes a restart that follows it for one of its details
  (LogParser.cpp:88): Parsed leaves the choice of the lines to the code.
- Callers of the pool that add a task of an object whose RemoveTask has returned.
- CHttpClientSession: headers, bodies, proxies and the reading of the answer in two
  steps; each may only decide which way a step goes.
- CHttpWebRequest: AsyncUploadFile, Cancel and the download to a file
  (AsyncDowndFile, StartDownloadFile); CHttpDownloader, whose thread keeps a raw
  `this`.
- The queue of the dialog's GUI thread: nothing in the repository puts data into
  it. The thread is there, for StopHLThreads is never called.
- EventHandler's observers, the dispatcher of AsyncFuncCall, the message windows:
  nothing of the modelled code uses them. SafeThreadBase for several threads.
- Most lines below `src/` are third-party: SQLite's shell, the headers of OpenSSL,
  curl, jsoncpp and sigslot, copied once per library. The repository's own code is
  some 29 000 lines, of which most lay out windows, convert strings or call one
  function of Windows. The models cover the parts with state, threads or failures,
  and so a small share of all lines.

## 7. Plan

What would come next, in this order:

1. Downloads and uploads of CHttpWebRequest (break point file, deletion on
   failure, AsyncUploadFile's double callback), and the raw pointer in the thread
   of CHttpDownloader.
2. `EventHandler`: handlers removed while an event fires, cancelled callbacks;
   `AsyncFuncs`: the dispatcher, whose RemoveAsyncFuncs does not wait for a call
   under way.
3. `HttpRequest`: UrlEncode and UrlDecode over bounded strings; SafeThreadBase.
