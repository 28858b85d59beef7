----------------------------- MODULE HttpServer -----------------------------
(***************************************************************************)
(* The status server of a dpe master (src/dpe/http_server.cc).  A thread   *)
(* of its own accepts one connection at a time, posts the request to the   *)
(* UI thread together with the address of a response on its own stack, and *)
(* waits up to ten seconds for task_event_.  When the job is over the UI   *)
(* thread takes the handler away (WillExitDpe) and later runs Stop, which  *)
(* waits for the thread that may be waiting for the UI thread.             *)
(***************************************************************************)
EXTENDS Integers, Sequences, FiniteSets

CONSTANTS
    Pages,          \* requests of browsers, each made at most once
    QuitRequests,   \* requests among them whose path is "quit"
    Silent,         \* connections among them on which nothing is ever sent
    MaxBacklog,     \* the length of the listen queue
    MaxExits,       \* bound: how often WillExitDpe is called
    MaxLate         \* bound: how many waits run into their time limit

NoRequest == "no request"
Empty == "no page"          \* a response without a body
Gone == "no response"       \* no HttpResponse is on the stack
StopSignal == "stop"        \* the connection Stop makes to itself

ASSUME PagesAssumption ==
    /\ QuitRequests \subseteq Pages /\ Silent \subseteq Pages
    /\ QuitRequests \cap Silent = {}
    /\ Pages \cap {NoRequest, Empty, Gone, StopSignal} = {}
ASSUME LimitsAssumption ==
    MaxBacklog \in Nat \ {0} /\ MaxExits \in Nat /\ MaxLate \in Nat

VARIABLES
    thread,         \* what the HTTP thread is doing
    backlog,        \* connections not accepted yet
    request,        \* the connection it serves
    response,       \* the HttpResponse on its stack
    task_event, quit_flag, handler,
    ui_queue,       \* closures posted to the UI thread
    stop,           \* how far Stop is, which blocks the UI thread
    exits,          \* calls of WillExitDpe
    connected,      \* history: requests that were made
    handled,        \* history: what the handler gave for a request
    answers,        \* what was sent to the browsers
    late,           \* how many waits ran into their time limit
    dangling        \* history: the handler wrote to a response that was gone

vars == <<thread, backlog, request, response, task_event, quit_flag, handler,
          ui_queue, stop, exits, connected, handled, answers, late, dangling>>

HandleRequestFor(r) == [kind |-> "HandleRequest", request |-> r]
ExitDpe == [kind |-> "ExitDpe", request |-> NoRequest]
Closures == {ExitDpe} \cup {HandleRequestFor(r) : r \in Pages}

Init ==
    /\ thread = "none"
    /\ backlog = <<>>
    /\ request = NoRequest
    /\ response = Gone
    /\ task_event = FALSE
    /\ quit_flag = FALSE
    /\ handler = FALSE
    /\ ui_queue = <<>>
    /\ stop = "idle"
    /\ exits = 0
    /\ connected = {}
    /\ handled = [r \in Pages |-> Gone]
    /\ answers = {}
    /\ late = 0
    /\ dangling = FALSE

\* SetHandler and Start, in run.
Start ==
    /\ thread = "none"
    /\ thread' = "accept"
    /\ handler' = TRUE
    /\ UNCHANGED <<backlog, request, response, task_event, quit_flag, ui_queue,
                   stop, exits, connected, handled, answers, late, dangling>>

Listening == thread \in {"accept", "recv", "wait"}

\* A browser connects.
Connect(r) ==
    /\ Listening
    /\ r \notin connected
    /\ Len(backlog) < MaxBacklog
    /\ connected' = connected \cup {r}
    /\ backlog' = Append(backlog, r)
    /\ UNCHANGED <<thread, request, response, task_event, quit_flag, handler,
                   ui_queue, stop, exits, handled, answers, late, dangling>>

(***************************************************************************)
(* The HTTP thread: Run and HandleRequestOnThread.                         *)
(***************************************************************************)
\* accept returns: the thread leaves its loop if it is to quit.
Accept ==
    /\ thread = "accept"
    /\ backlog # <<>>
    /\ backlog' = Tail(backlog)
    /\ thread' = IF quit_flag THEN "ended" ELSE "recv"
    /\ request' = IF quit_flag THEN NoRequest ELSE Head(backlog)
    /\ UNCHANGED <<response, task_event, quit_flag, handler, ui_queue, stop, exits,
                   connected, handled, answers, late, dangling>>

\* recv fails: the next connection.
RecvFails ==
    /\ thread = "recv"
    /\ thread' = "accept"
    /\ request' = NoRequest
    /\ UNCHANGED <<backlog, response, task_event, quit_flag, handler, ui_queue,
                   stop, exits, connected, handled, answers, late, dangling>>

\* A request is read and parsed.  The path "quit" ends the loop; any other
\* request is posted with the address of a new response.
Recv ==
    /\ thread = "recv"
    /\ request \notin Silent
    /\ IF request \in Pages \ QuitRequests
       THEN /\ thread' = "wait"
            /\ response' = Empty
            /\ ui_queue' = Append(ui_queue, HandleRequestFor(request))
            /\ UNCHANGED request
       ELSE /\ thread' = "ended"
            /\ request' = NoRequest
            /\ UNCHANGED <<response, ui_queue>>
    /\ UNCHANGED <<backlog, task_event, quit_flag, handler, stop, exits, connected,
                   handled, answers, late, dangling>>

AfterAnswer == "accept"

\* task_event_ is signalled, which resets it: quit, or send what is in the
\* response and take the next connection.
Wake ==
    /\ thread = "wait"
    /\ task_event
    /\ task_event' = FALSE
    /\ IF quit_flag
       THEN /\ thread' = "ended"
            /\ UNCHANGED answers
       ELSE /\ thread' = AfterAnswer
            /\ answers' = answers \cup {[request |-> request, page |-> response]}
    /\ request' = NoRequest
    /\ response' = Gone
    /\ UNCHANGED <<backlog, quit_flag, handler, ui_queue, stop, exits, connected,
                   handled, late, dangling>>

\* Mutation: after the time limit the thread takes the next connection.
GiveUpNext == "accept"

GiveUp == "ended"

\* Ten seconds without the event: HandleRequestOnThread returns false, which
\* ends the loop, and with it the status server, for the rest of the job.
WaitTimesOut ==
    /\ late < MaxLate
    /\ late' = late + 1
    /\ thread = "wait"
    /\ ~task_event
    /\ thread' = GiveUp
    /\ request' = NoRequest
    /\ response' = Gone
    /\ UNCHANGED <<backlog, task_event, quit_flag, handler, ui_queue, stop, exits,
                   connected, handled, answers, dangling>>

(***************************************************************************)
(* The UI thread: posted requests, WillExitDpe and ExitDpeImpl.            *)
(***************************************************************************)
\* The closure that runs next.
NextClosure == Head(ui_queue)

UiFree == stop \in {"idle", "returned"}

\* HandleRequest: the handler, if there is one, fills in the response it was
\* given the address of; the event is signalled in any case.
HandleRequest ==
    /\ UiFree
    /\ ui_queue # <<>>
    /\ NextClosure.kind = "HandleRequest"
    /\ ui_queue' = Tail(ui_queue)
    /\ LET r == NextClosure.request
           live == thread = "wait" /\ request = r
       IN  /\ handled' = [handled EXCEPT ![r] = IF handler THEN r ELSE Empty]
           /\ response' = IF handler /\ live THEN r ELSE response
           /\ dangling' = (dangling \/ (handler /\ ~live))
    /\ task_event' = TRUE
    /\ UNCHANGED <<thread, backlog, request, quit_flag, handler, stop, exits,
                   connected, answers, late>>

\* Mutation: the handler stays.
HandlerAfterExitKept == handler

\* SetHandler(NULL)
HandlerAfterExit == FALSE

\* WillExitDpe, called by the master on the UI thread when the job is over.
WillExitDpe ==
    /\ UiFree
    /\ thread # "none"
    /\ exits < MaxExits
    /\ exits' = exits + 1
    /\ handler' = HandlerAfterExit
    /\ ui_queue' = Append(ui_queue, ExitDpe)
    /\ UNCHANGED <<thread, backlog, request, response, task_event, quit_flag, stop,
                   connected, handled, answers, late, dangling>>

\* Stop sets quit_flag_, when there is a thread to stop.
StopBegins ==
    /\ UiFree
    /\ ui_queue # <<>>
    /\ NextClosure.kind = "ExitDpe"
    /\ IF stop = "returned"
       THEN ui_queue' = Tail(ui_queue) /\ UNCHANGED <<quit_flag, stop>>
       ELSE quit_flag' = TRUE /\ stop' = "quit" /\ UNCHANGED ui_queue
    /\ UNCHANGED <<thread, backlog, request, response, task_event, handler, exits,
                   connected, handled, answers, late, dangling>>

\* Mutation: the event is not signalled.
EventAfterStopUnset == task_event

EventAfterStop == TRUE

\* SetEvent(task_event_), for a thread that waits for this one.
StopSetsEvent ==
    /\ stop = "quit"
    /\ task_event' = EventAfterStop
    /\ stop' = "signalled"
    /\ UNCHANGED <<thread, backlog, request, response, quit_flag, handler, ui_queue,
                   exits, connected, handled, answers, late, dangling>>

\* If the thread is not over, it may be in accept: Stop connects to it.
StopConnects ==
    /\ stop = "signalled"
    /\ stop' = "waiting"
    /\ backlog' = IF Listening /\ Len(backlog) < MaxBacklog
                  THEN Append(backlog, StopSignal) ELSE backlog
    /\ UNCHANGED <<thread, request, response, task_event, quit_flag, handler,
                   ui_queue, exits, connected, handled, answers, late, dangling>>

\* Mutation: Stop waits for the thread without a limit.
StuckNever == FALSE

\* The HTTP thread cannot go on by itself.
Stuck ==
    \/ thread = "accept" /\ backlog = <<>>
    \/ thread = "recv" /\ request \in Silent
    \/ thread = "wait" /\ ~task_event

\* Three seconds later the thread is still there: TerminateThread.
Terminate ==
    /\ stop = "waiting"
    /\ thread' = "terminated"
    /\ request' = NoRequest
    /\ response' = Gone
    /\ UNCHANGED <<backlog, task_event, quit_flag, handler, ui_queue, stop, exits,
                   connected, handled, answers, dangling>>

\* It is still there because it is stuck, or because everything is slow.
StopTerminates == Stuck /\ Terminate /\ UNCHANGED late
StopTerminatesLate ==
    /\ Listening
    /\ ~Stuck
    /\ late < MaxLate
    /\ late' = late + 1
    /\ Terminate

\* The thread is over: Stop returns and the UI thread goes on.
StopReturns ==
    /\ stop = "waiting"
    /\ thread \in {"ended", "terminated"}
    /\ stop' = "returned"
    /\ ui_queue' = Tail(ui_queue)
    /\ UNCHANGED <<thread, backlog, request, response, task_event, quit_flag,
                   handler, exits, connected, handled, answers, late, dangling>>

ThreadStep == Accept \/ Recv \/ Wake
UiStep ==
    \/ HandleRequest \/ StopBegins \/ StopSetsEvent \/ StopConnects
    \/ StopTerminates \/ StopReturns

Next ==
    \/ Start
    \/ \E r \in Pages : Connect(r)
    \/ ThreadStep
    \/ RecvFails
    \/ WaitTimesOut \/ StopTerminatesLate
    \/ UiStep
    \/ WillExitDpe

\* Both threads go on running; nothing obliges a browser to connect, a receive
\* to fail, a job to end or a wait to run into its limit.
Spec == Init /\ [][Next]_vars /\ WF_vars(ThreadStep) /\ WF_vars(UiStep)

-----------------------------------------------------------------------------
\* The variables stay in their types; a response exists while a thread waits.
TypeOK ==
    /\ thread \in {"none", "accept", "recv", "wait", "ended", "terminated"}
    /\ backlog \in Seq(Pages \cup {StopSignal})
    /\ request \in Pages \cup {NoRequest, StopSignal}
    /\ response \in Pages \cup {Empty, Gone}
    /\ response = Gone <=> thread # "wait"
    /\ task_event \in BOOLEAN /\ quit_flag \in BOOLEAN /\ handler \in BOOLEAN
    /\ ui_queue \in Seq(Closures)
    /\ stop \in {"idle", "quit", "signalled", "waiting", "returned"}
    /\ exits \in 0..MaxExits
    /\ connected \subseteq Pages
    /\ handled \in [Pages -> Pages \cup {Empty, Gone}]
    /\ answers \subseteq [request : Pages, page : Pages \cup {Empty, Gone}]
    /\ late \in 0..MaxLate /\ dangling \in BOOLEAN

\* A browser is sent what the handler gave for its own request, and nothing
\* before the handler has run: an event that was left over from an earlier
\* request, or that Stop has signalled, is never taken for an answer.
AnswersAreRight ==
    /\ TypeOK
    /\ \A a \in answers : handled[a.request] = a.page

\* As long as no wait has run into its limit, a handler that still runs after its
\* thread went away finds no handler object to call, so nothing is written to
\* the stack of a thread that has left HandleRequestOnThread.
WritesLiveResponse == dangling => late > 0

\* Stop ends the thread in good order, whatever it is doing: it has to be
\* terminated only when it waits for a browser that sends nothing.
OrderlyStop == thread = "terminated" => late > 0 \/ connected \cap Silent # {}

\* ExitDpeImpl gets past Stop: the UI thread and the HTTP thread never wait for
\* each other for ever, even when the HTTP thread is blocked by a connection
\* on which nothing is sent.
ExitGetsDone == exits > 0 ~> stop = "returned"
=============================================================================
