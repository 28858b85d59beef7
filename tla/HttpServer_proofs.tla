-------------------------- MODULE HttpServer_proofs --------------------------
(***************************************************************************)
(* Safety of the status server: what browsers are sent, what the handler   *)
(* writes to and when Stop has to terminate the thread, for any requests   *)
(* and any length of the listen queue.                                     *)
(***************************************************************************)
EXTENDS HttpServer, QueueFacts

Over == thread \in {"ended", "terminated"}

\* The i-th closure of the UI thread is a request for a page.
Asks(i) == ui_queue[i].kind = "HandleRequest"

\* Every page is asked for once: it is waiting to be accepted, or being served,
\* or answered, and never two of them.
EachPageOnce ==
    /\ \A i \in 1..Len(backlog) : backlog[i] \in Pages =>
          /\ backlog[i] \in connected
          /\ backlog[i] # request
          /\ \A a \in answers : a.request # backlog[i]
    /\ \A i, j \in 1..Len(backlog) :
          backlog[i] \in Pages /\ backlog[i] = backlog[j] => i = j
    /\ request \in Pages =>
          request \in connected /\ \A a \in answers : a.request # request
    /\ \A a \in answers : a.request \in connected
    /\ \A i \in 1..Len(ui_queue) : Asks(i) =>
          \A a \in answers : a.request # ui_queue[i].request

\* A posted request is the one the thread waits for, unless the thread is over.
OneRequestAtATime ==
    /\ \A i \in 1..Len(ui_queue) : Asks(i) =>
          Over \/ (thread = "wait" /\ request = ui_queue[i].request)
    /\ \A i, j \in 1..Len(ui_queue) : Asks(i) /\ Asks(j) => i = j

\* The response is empty until the handler has run, and then what it gave.
ResponseIsCurrent ==
    thread = "wait" =>
      /\ request \in Pages
      /\ \A i \in 1..Len(ui_queue) : Asks(i) => response = Empty
      /\ (\A i \in 1..Len(ui_queue) : ~Asks(i)) => handled[request] = response

\* Before Stop the event says that the request waited for has been handled.
EventMeansHandled ==
    task_event /\ ~quit_flag /\ ~Over =>
      thread = "wait" /\ \A i \in 1..Len(ui_queue) : ~Asks(i)

\* How the handler, the flag and the queue follow the phases of Stop.
StopOrder ==
    /\ thread = "none" => ui_queue = <<>> /\ stop = "idle"
    /\ handler => stop = "idle" /\ \A i \in 1..Len(ui_queue) : Asks(i)
    /\ quit_flag <=> stop # "idle"
    /\ stop \in {"quit", "signalled", "waiting"} =>
          ui_queue # <<>> /\ Head(ui_queue) = ExitDpe
    /\ stop \in {"signalled", "waiting"} => task_event \/ Over
    /\ stop = "waiting" /\ Listening => backlog # <<>>

\* A request outlives the thread that posted it only without a handler, as
\* long as no wait has run into its limit.
LeftOverIsHarmless ==
    /\ Over /\ handler /\ late = 0 => \A i \in 1..Len(ui_queue) : ~Asks(i)
    /\ dangling => late > 0

IInv ==
    /\ TypeOK
    /\ EachPageOnce
    /\ OneRequestAtATime
    /\ ResponseIsCurrent
    /\ EventMeansHandled
    /\ StopOrder
    /\ LeftOverIsHarmless
    /\ AnswersAreRight
    /\ OrderlyStop

-----------------------------------------------------------------------------
\* The values that stand for no request, no page and no response are no pages.
LEMMA NotPages ==
    /\ NoRequest \notin Pages /\ StopSignal \notin Pages
    /\ Empty \notin Pages /\ Gone \notin Pages
    /\ Empty # Gone /\ NoRequest # StopSignal
  BY PagesAssumption DEF NoRequest, StopSignal, Empty, Gone

\* A closure of the queue is ExitDpe or asks for a page.
LEMMA ClosureKinds ==
    /\ ExitDpe \in Closures /\ ExitDpe.kind = "ExitDpe"
    /\ \A r \in Pages : /\ HandleRequestFor(r) \in Closures
                        /\ HandleRequestFor(r).kind = "HandleRequest"
                        /\ HandleRequestFor(r).request = r
    /\ \A c \in Closures : c.kind = "HandleRequest" => c.request \in Pages
    /\ \A c \in Closures : c.kind = "ExitDpe" => c = ExitDpe
  <1>1. ExitDpe \in Closures /\ ExitDpe.kind = "ExitDpe"
    BY DEF Closures, ExitDpe
  <1>2. ASSUME NEW r \in Pages
        PROVE  /\ HandleRequestFor(r) \in Closures
               /\ HandleRequestFor(r).kind = "HandleRequest"
               /\ HandleRequestFor(r).request = r
    BY DEF Closures, HandleRequestFor
  <1>3. ASSUME NEW c \in Closures
        PROVE  /\ c.kind = "HandleRequest" => c.request \in Pages
               /\ c.kind = "ExitDpe" => c = ExitDpe
    <2>1. CASE c = ExitDpe
      BY <2>1 DEF ExitDpe
    <2>2. CASE \E r \in Pages : c = HandleRequestFor(r)
      BY <2>2, <1>2
    <2> QED
      BY <2>1, <2>2 DEF Closures
  <1> QED
    BY <1>1, <1>2, <1>3

\* The inductive invariant holds at the start.
LEMMA InitIInv == Init => IInv
  <1> SUFFICES ASSUME Init PROVE IInv
    OBVIOUS
  <1>1. TypeOK
    <2>1. /\ backlog \in Seq(Pages \cup {StopSignal}) /\ ui_queue \in Seq(Closures)
          /\ handled \in [Pages -> Pages \cup {Empty, Gone}]
      BY DEF Init
    <2> QED
      <3>1. exits \in 0..MaxExits /\ late \in 0..MaxLate
        BY LimitsAssumption DEF Init
      <3> QED
        BY <2>1, <3>1 DEF Init, TypeOK
  <1>2. EachPageOnce /\ OneRequestAtATime /\ ResponseIsCurrent /\ EventMeansHandled
    BY NotPages DEF Init, EachPageOnce, OneRequestAtATime, ResponseIsCurrent,
       EventMeansHandled
  <1>3. StopOrder /\ LeftOverIsHarmless /\ AnswersAreRight /\ OrderlyStop
    BY <1>1 DEF Init, StopOrder, LeftOverIsHarmless, AnswersAreRight, OrderlyStop, Over
  <1> QED
    BY <1>1, <1>2, <1>3 DEF IInv

\* Every step preserves the inductive invariant.
LEMMA NextIInv == IInv /\ [Next]_vars => IInv'
  <1> SUFFICES ASSUME IInv, [Next]_vars PROVE IInv'
    OBVIOUS
  <1>1. CASE Start
    <2>1. TypeOK'
      BY <1>1, NotPages DEF Start, IInv, TypeOK
    <2>2. EachPageOnce'
      BY <1>1, NotPages DEF Start, IInv, Asks, TypeOK, EachPageOnce
    <2>3. OneRequestAtATime'
      BY <1>1 DEF Start, IInv, Over, Asks, TypeOK, OneRequestAtATime
    <2>4. ResponseIsCurrent'
      BY <1>1, NotPages DEF Start, IInv, Asks, TypeOK, ResponseIsCurrent
    <2>5. EventMeansHandled'
      BY <1>1 DEF Start, IInv, Over, Asks, TypeOK, EventMeansHandled
    <2>6. StopOrder'
      BY <1>1 DEF Start, IInv, Over, Asks, Listening, TypeOK, StopOrder
    <2>7. LeftOverIsHarmless'
      BY <1>1 DEF Start, IInv, Over, Asks, TypeOK, LeftOverIsHarmless
    <2>8. AnswersAreRight'
      BY <1>1, <2>1 DEF Start, IInv, TypeOK, AnswersAreRight
    <2>9. OrderlyStop'
      BY <1>1 DEF Start, IInv, TypeOK, OrderlyStop
    <2> QED
      BY <2>1, <2>2, <2>3, <2>4, <2>5, <2>6, <2>7, <2>8, <2>9 DEF IInv
  <1>2. ASSUME NEW r \in Pages, Connect(r) PROVE IInv'
    <2>a. /\ backlog' \in Seq((Pages \cup {StopSignal})) /\ backlog' # <<>>
          /\ Len(backlog) \in Nat /\ Len(backlog') = Len(backlog) + 1
          /\ \A i \in 1..Len(backlog) : backlog'[i] = backlog[i]
          /\ backlog'[Len(backlog) + 1] = r
          /\ backlog # <<>> => Head(backlog') = Head(backlog)
      BY <1>2, AppendFacts DEF Connect, IInv, TypeOK
    <2>1. TypeOK'
      BY <1>2, <2>a, NotPages DEF Connect, IInv, TypeOK
    <2>2. EachPageOnce'
      BY <1>2, <2>a, NotPages DEF Connect, IInv, Asks, TypeOK, EachPageOnce
    <2>3. OneRequestAtATime'
      BY <1>2, <2>a DEF Connect, IInv, Over, Asks, TypeOK, OneRequestAtATime
    <2>4. ResponseIsCurrent'
      BY <1>2, <2>a, NotPages DEF Connect, IInv, Asks, TypeOK, ResponseIsCurrent
    <2>5. EventMeansHandled'
      BY <1>2, <2>a DEF Connect, IInv, Over, Asks, TypeOK, EventMeansHandled
    <2>6. StopOrder'
      BY <1>2, <2>a DEF Connect, IInv, Over, Asks, Listening, TypeOK, StopOrder
    <2>7. LeftOverIsHarmless'
      BY <1>2, <2>a DEF Connect, IInv, Over, Asks, TypeOK, LeftOverIsHarmless
    <2>8. AnswersAreRight'
      BY <1>2, <2>a, <2>1 DEF Connect, IInv, TypeOK, AnswersAreRight
    <2>9. OrderlyStop'
      BY <1>2, <2>a DEF Connect, IInv, TypeOK, OrderlyStop
    <2> QED
      BY <2>1, <2>2, <2>3, <2>4, <2>5, <2>6, <2>7, <2>8, <2>9 DEF IInv
  <1>3. CASE Accept
    <2>a. /\ backlog' \in Seq((Pages \cup {StopSignal})) /\ Len(backlog) \in Nat \ {0}
          /\ Head(backlog) = backlog[1] /\ backlog[1] \in (Pages \cup {StopSignal})
          /\ Len(backlog') = Len(backlog) - 1
          /\ \A i \in 1..Len(backlog') : backlog'[i] = backlog[i + 1]
      BY <1>3, TailFacts DEF Accept, IInv, TypeOK
    <2>1. TypeOK'
      BY <1>3, <2>a, NotPages DEF Accept, IInv, TypeOK
    <2>2. EachPageOnce'
      BY <1>3, <2>a, NotPages DEF Accept, IInv, Asks, TypeOK, EachPageOnce
    <2>3. OneRequestAtATime'
      BY <1>3, <2>a DEF Accept, IInv, Over, Asks, TypeOK, OneRequestAtATime
    <2>4. ResponseIsCurrent'
      BY <1>3, <2>a, NotPages DEF Accept, IInv, Asks, TypeOK, ResponseIsCurrent
    <2>5. EventMeansHandled'
      BY <1>3, <2>a DEF Accept, IInv, Over, Asks, TypeOK, EventMeansHandled
    <2>6. StopOrder'
      BY <1>3, <2>a DEF Accept, IInv, Over, Asks, Listening, TypeOK, StopOrder
    <2>7. LeftOverIsHarmless'
      BY <1>3, <2>a
      DEF Accept, IInv, Over, Asks, OneRequestAtATime, TypeOK, LeftOverIsHarmless
    <2>8. AnswersAreRight'
      BY <1>3, <2>a, <2>1 DEF Accept, IInv, TypeOK, AnswersAreRight
    <2>9. OrderlyStop'
      BY <1>3, <2>a DEF Accept, IInv, TypeOK, OrderlyStop
    <2> QED
      BY <2>1, <2>2, <2>3, <2>4, <2>5, <2>6, <2>7, <2>8, <2>9 DEF IInv
  <1>4. CASE RecvFails
    <2>1. TypeOK'
      BY <1>4, NotPages DEF RecvFails, IInv, TypeOK
    <2>2. EachPageOnce'
      BY <1>4, NotPages DEF RecvFails, IInv, Asks, TypeOK, EachPageOnce
    <2>3. OneRequestAtATime'
      BY <1>4 DEF RecvFails, IInv, Over, Asks, TypeOK, OneRequestAtATime
    <2>4. ResponseIsCurrent'
      BY <1>4, NotPages DEF RecvFails, IInv, Asks, TypeOK, ResponseIsCurrent
    <2>5. EventMeansHandled'
      BY <1>4 DEF RecvFails, IInv, Over, Asks, TypeOK, EventMeansHandled
    <2>6. StopOrder'
      BY <1>4 DEF RecvFails, IInv, Over, Asks, Listening, TypeOK, StopOrder
    <2>7. LeftOverIsHarmless'
      BY <1>4 DEF RecvFails, IInv, Over, Asks, TypeOK, LeftOverIsHarmless
    <2>8. AnswersAreRight'
      BY <1>4, <2>1 DEF RecvFails, IInv, TypeOK, AnswersAreRight
    <2>9. OrderlyStop'
      BY <1>4 DEF RecvFails, IInv, TypeOK, OrderlyStop
    <2> QED
      BY <2>1, <2>2, <2>3, <2>4, <2>5, <2>6, <2>7, <2>8, <2>9 DEF IInv
  <1>5. CASE Recv
    <2>1. CASE request \in Pages \ QuitRequests
      <3>a. /\ HandleRequestFor(request) \in Closures
            /\ ui_queue \in Seq(Closures)
            /\ ui_queue' = Append(ui_queue, HandleRequestFor(request))
            /\ \A i \in 1..Len(ui_queue) : ~Asks(i)
        BY <1>5, <2>1, ClosureKinds
        DEF Recv, IInv, TypeOK, OneRequestAtATime, Over
      <3>b. /\ ui_queue' \in Seq(Closures) /\ ui_queue' # <<>>
            /\ Len(ui_queue) \in Nat /\ Len(ui_queue') = Len(ui_queue) + 1
            /\ \A i \in 1..Len(ui_queue) : ui_queue'[i] = ui_queue[i]
            /\ ui_queue'[Len(ui_queue) + 1] = HandleRequestFor(request)
            /\ ui_queue # <<>> => Head(ui_queue') = Head(ui_queue)
        BY <1>5, <2>1, <3>a, AppendFacts, ClosureKinds DEF Recv, IInv, TypeOK
      <3>1. TypeOK'
        BY <1>5, <2>1, <3>a, <3>b, NotPages DEF Recv, IInv, TypeOK
      <3>2. EachPageOnce'
        BY <1>5, <2>1, <3>a, <3>b, ClosureKinds, NotPages
        DEF Recv, IInv, Asks, TypeOK, EachPageOnce
      <3>3. OneRequestAtATime'
        BY <1>5, <2>1, <3>a, <3>b, ClosureKinds
        DEF Recv, IInv, Over, Asks, TypeOK, OneRequestAtATime
      <3>4. ResponseIsCurrent'
        BY <1>5, <2>1, <3>a, <3>b, ClosureKinds, NotPages
        DEF Recv, IInv, Asks, TypeOK, ResponseIsCurrent
      <3>5. EventMeansHandled'
        BY <1>5, <2>1, <3>a, <3>b, ClosureKinds
        DEF Recv, IInv, Over, Asks, TypeOK, EventMeansHandled
      <3>6. StopOrder'
        BY <1>5, <2>1, <3>a, <3>b, ClosureKinds
        DEF Recv, IInv, Over, Asks, Listening, OneRequestAtATime, TypeOK, StopOrder
      <3>7. LeftOverIsHarmless'
        BY <1>5, <2>1, <3>a, <3>b
        DEF Recv, IInv, Over, Asks, TypeOK, LeftOverIsHarmless
      <3>8. AnswersAreRight'
        BY <1>5, <2>1, <3>a, <3>b, <3>1 DEF Recv, IInv, TypeOK, AnswersAreRight
      <3>9. OrderlyStop'
        BY <1>5, <2>1, <3>a, <3>b DEF Recv, IInv, TypeOK, OrderlyStop
      <3> QED
        BY <3>1, <3>2, <3>3, <3>4, <3>5, <3>6, <3>7, <3>8, <3>9 DEF IInv
    <2>2. CASE request \notin Pages \ QuitRequests
      <3>1. TypeOK'
        BY <1>5, <2>2, NotPages DEF Recv, IInv, TypeOK
      <3>2. EachPageOnce'
        BY <1>5, <2>2, NotPages DEF Recv, IInv, Asks, TypeOK, EachPageOnce
      <3>3. OneRequestAtATime'
        BY <1>5, <2>2 DEF Recv, IInv, Over, Asks, TypeOK, OneRequestAtATime
      <3>4. ResponseIsCurrent'
        BY <1>5, <2>2, NotPages DEF Recv, IInv, Asks, TypeOK, ResponseIsCurrent
      <3>5. EventMeansHandled'
        BY <1>5, <2>2 DEF Recv, IInv, Over, Asks, TypeOK, EventMeansHandled
      <3>6. StopOrder'
        BY <1>5, <2>2 DEF Recv, IInv, Over, Asks, Listening, TypeOK, StopOrder
      <3>7. LeftOverIsHarmless'
        BY <1>5, <2>2
        DEF Recv, IInv, Over, Asks, OneRequestAtATime, TypeOK, LeftOverIsHarmless
      <3>8. AnswersAreRight'
        BY <1>5, <2>2, <3>1 DEF Recv, IInv, TypeOK, AnswersAreRight
      <3>9. OrderlyStop'
        BY <1>5, <2>2 DEF Recv, IInv, TypeOK, OrderlyStop
      <3> QED
        BY <3>1, <3>2, <3>3, <3>4, <3>5, <3>6, <3>7, <3>8, <3>9 DEF IInv
    <2> QED
      BY <2>1, <2>2
  <1>6. CASE Wake
    <2>1. CASE quit_flag
      <3>1. TypeOK'
        BY <1>6, <2>1, NotPages DEF Wake, AfterAnswer, IInv, TypeOK
      <3>2. EachPageOnce'
        BY <1>6, <2>1, NotPages
        DEF Wake, AfterAnswer, IInv, Asks, TypeOK, EachPageOnce
      <3>3. OneRequestAtATime'
        BY <1>6, <2>1
        DEF Wake, AfterAnswer, IInv, Over, Asks, TypeOK, OneRequestAtATime
      <3>4. ResponseIsCurrent'
        BY <1>6, <2>1, NotPages
        DEF Wake, AfterAnswer, IInv, Asks, TypeOK, ResponseIsCurrent
      <3>5. EventMeansHandled'
        BY <1>6, <2>1
        DEF Wake, AfterAnswer, IInv, Over, Asks, TypeOK, EventMeansHandled
      <3>6. StopOrder'
        BY <1>6, <2>1
        DEF Wake, AfterAnswer, IInv, Over, Asks, Listening, TypeOK, StopOrder
      <3>7. LeftOverIsHarmless'
        BY <1>6, <2>1
        DEF Wake, AfterAnswer, IInv, Over, Asks, StopOrder, TypeOK,
            LeftOverIsHarmless
      <3>8. AnswersAreRight'
        BY <1>6, <2>1, <3>1 DEF Wake, AfterAnswer, IInv, TypeOK, AnswersAreRight
      <3>9. OrderlyStop'
        BY <1>6, <2>1 DEF Wake, AfterAnswer, IInv, TypeOK, OrderlyStop
      <3> QED
        BY <3>1, <3>2, <3>3, <3>4, <3>5, <3>6, <3>7, <3>8, <3>9 DEF IInv
    <2>2. CASE ~quit_flag
      <3>b. [request |-> request, page |-> response]
              \in [request : Pages, page : Pages \cup {Empty, Gone}]
        BY <1>6 DEF Wake, IInv, TypeOK, ResponseIsCurrent
      <3>1. TypeOK'
        BY <1>6, <2>2, <3>b, NotPages
        DEF Wake, AfterAnswer, IInv, ResponseIsCurrent, TypeOK
      <3>2. EachPageOnce'
        BY <1>6, <2>2, <3>b, NotPages
        DEF Wake, AfterAnswer, IInv, Asks, ResponseIsCurrent, EventMeansHandled,
            Over, TypeOK, EachPageOnce
      <3>3. OneRequestAtATime'
        BY <1>6, <2>2, <3>b
        DEF Wake, AfterAnswer, IInv, Over, Asks, EventMeansHandled, TypeOK,
            OneRequestAtATime
      <3>4. ResponseIsCurrent'
        BY <1>6, <2>2, <3>b, NotPages
        DEF Wake, AfterAnswer, IInv, Asks, TypeOK, ResponseIsCurrent
      <3>5. EventMeansHandled'
        BY <1>6, <2>2, <3>b
        DEF Wake, AfterAnswer, IInv, Over, Asks, TypeOK, EventMeansHandled
      <3>6. StopOrder'
        BY <1>6, <2>2, <3>b
        DEF Wake, AfterAnswer, IInv, Over, Asks, Listening, TypeOK, StopOrder
      <3>7. LeftOverIsHarmless'
        BY <1>6, <2>2, <3>b
        DEF Wake, AfterAnswer, IInv, Over, Asks, TypeOK, LeftOverIsHarmless
      <3>8. AnswersAreRight'
        BY <1>6, <2>2, <3>b, <3>1
        DEF Wake, AfterAnswer, IInv, ResponseIsCurrent, EventMeansHandled, Over,
            TypeOK, AnswersAreRight
      <3>9. OrderlyStop'
        BY <1>6, <2>2, <3>b DEF Wake, AfterAnswer, IInv, TypeOK, OrderlyStop
      <3> QED
        BY <3>1, <3>2, <3>3, <3>4, <3>5, <3>6, <3>7, <3>8, <3>9 DEF IInv
    <2> QED
      BY <2>1, <2>2
  <1>7. CASE WaitTimesOut
    <2>1. TypeOK'
      BY <1>7, LimitsAssumption, NotPages DEF WaitTimesOut, GiveUp, IInv, TypeOK
    <2>2. EachPageOnce'
      BY <1>7, NotPages DEF WaitTimesOut, GiveUp, IInv, Asks, TypeOK, EachPageOnce
    <2>3. OneRequestAtATime'
      BY <1>7 DEF WaitTimesOut, GiveUp, IInv, Over, Asks, TypeOK, OneRequestAtATime
    <2>4. ResponseIsCurrent'
      BY <1>7, NotPages
      DEF WaitTimesOut, GiveUp, IInv, Asks, TypeOK, ResponseIsCurrent
    <2>5. EventMeansHandled'
      BY <1>7 DEF WaitTimesOut, GiveUp, IInv, Over, Asks, TypeOK, EventMeansHandled
    <2>6. StopOrder'
      BY <1>7
      DEF WaitTimesOut, GiveUp, IInv, Over, Asks, Listening, TypeOK, StopOrder
    <2>7. LeftOverIsHarmless'
      BY <1>7 DEF WaitTimesOut, GiveUp, IInv, Over, Asks, TypeOK, LeftOverIsHarmless
    <2>8. AnswersAreRight'
      BY <1>7, <2>1 DEF WaitTimesOut, GiveUp, IInv, TypeOK, AnswersAreRight
    <2>9. OrderlyStop'
      BY <1>7 DEF WaitTimesOut, GiveUp, IInv, TypeOK, OrderlyStop
    <2> QED
      BY <2>1, <2>2, <2>3, <2>4, <2>5, <2>6, <2>7, <2>8, <2>9 DEF IInv
  <1>8. CASE HandleRequest
    <2>a. /\ ui_queue' \in Seq(Closures) /\ Len(ui_queue) \in Nat \ {0}
          /\ Head(ui_queue) = ui_queue[1] /\ ui_queue[1] \in Closures
          /\ Len(ui_queue') = Len(ui_queue) - 1
          /\ \A i \in 1..Len(ui_queue') : ui_queue'[i] = ui_queue[i + 1]
      BY <1>8, TailFacts DEF HandleRequest, NextClosure, IInv, TypeOK
    <2>b. /\ ui_queue[1].kind = "HandleRequest" /\ ui_queue[1].request \in Pages
          /\ \A i \in 1..Len(ui_queue') : ui_queue'[i].kind # "HandleRequest"
          /\ Over \/ (thread = "wait" /\ request = ui_queue[1].request)
          /\ \A a \in answers : a.request # ui_queue[1].request
      BY <1>8, <2>a, ClosureKinds
      DEF HandleRequest, NextClosure, IInv, OneRequestAtATime, EachPageOnce, Asks
    <2>1. TypeOK'
      BY <1>8, <2>a, <2>b, NotPages DEF HandleRequest, NextClosure, IInv, TypeOK
    <2>2. EachPageOnce'
      BY <1>8, <2>a, <2>b, NotPages
      DEF HandleRequest, NextClosure, IInv, Asks, TypeOK, EachPageOnce
    <2>3. OneRequestAtATime'
      BY <1>8, <2>a, <2>b
      DEF HandleRequest, NextClosure, IInv, Over, Asks, TypeOK, OneRequestAtATime
    <2>4. ResponseIsCurrent'
      BY <1>8, <2>a, <2>b, NotPages
      DEF HandleRequest, NextClosure, IInv, Asks, Over, TypeOK, ResponseIsCurrent
    <2>5. EventMeansHandled'
      BY <1>8, <2>a, <2>b
      DEF HandleRequest, NextClosure, IInv, Over, Asks, TypeOK, EventMeansHandled
    <2>6. StopOrder'
      BY <1>8, <2>a, <2>b
      DEF HandleRequest, NextClosure, IInv, Over, Asks, Listening, UiFree, TypeOK,
          StopOrder
    <2>7. LeftOverIsHarmless'
      BY <1>8, <2>a, <2>b
      DEF HandleRequest, NextClosure, IInv, Over, Asks, TypeOK, LeftOverIsHarmless
    <2>8. AnswersAreRight'
      BY <1>8, <2>a, <2>b, <2>1
      DEF HandleRequest, NextClosure, IInv, TypeOK, AnswersAreRight
    <2>9. OrderlyStop'
      BY <1>8, <2>a, <2>b DEF HandleRequest, NextClosure, IInv, TypeOK, OrderlyStop
    <2> QED
      BY <2>1, <2>2, <2>3, <2>4, <2>5, <2>6, <2>7, <2>8, <2>9 DEF IInv
  <1>9. CASE WillExitDpe
    <2>a. /\ ui_queue' \in Seq(Closures) /\ ui_queue' # <<>>
          /\ Len(ui_queue) \in Nat /\ Len(ui_queue') = Len(ui_queue) + 1
          /\ \A i \in 1..Len(ui_queue) : ui_queue'[i] = ui_queue[i]
          /\ ui_queue'[Len(ui_queue) + 1] = ExitDpe
          /\ ui_queue # <<>> => Head(ui_queue') = Head(ui_queue)
      BY <1>9, AppendFacts, ClosureKinds
      DEF WillExitDpe, HandlerAfterExit, IInv, TypeOK
    <2>b. exits + 1 \in 0..MaxExits
      BY <1>9, LimitsAssumption DEF WillExitDpe, IInv, TypeOK
    <2>1. TypeOK'
      BY <1>9, <2>a, <2>b, LimitsAssumption, NotPages
      DEF WillExitDpe, HandlerAfterExit, IInv, TypeOK
    <2>2. EachPageOnce'
      BY <1>9, <2>a, <2>b, ClosureKinds, NotPages
      DEF WillExitDpe, HandlerAfterExit, IInv, Asks, TypeOK, EachPageOnce
    <2>3. OneRequestAtATime'
      BY <1>9, <2>a, <2>b, ClosureKinds
      DEF WillExitDpe, HandlerAfterExit, IInv, Over, Asks, TypeOK,
          OneRequestAtATime
    <2>4. ResponseIsCurrent'
      BY <1>9, <2>a, <2>b, ClosureKinds, NotPages
      DEF WillExitDpe, HandlerAfterExit, IInv, Asks, TypeOK, ResponseIsCurrent
    <2>5. EventMeansHandled'
      BY <1>9, <2>a, <2>b, ClosureKinds
      DEF WillExitDpe, HandlerAfterExit, IInv, Over, Asks, TypeOK,
          EventMeansHandled
    <2>6. StopOrder'
      BY <1>9, <2>a, <2>b, ClosureKinds
      DEF WillExitDpe, HandlerAfterExit, IInv, Over, Asks, Listening, UiFree,
          TypeOK, StopOrder
    <2>7. LeftOverIsHarmless'
      BY <1>9, <2>a, <2>b, ClosureKinds
      DEF WillExitDpe, HandlerAfterExit, IInv, Over, Asks, TypeOK,
          LeftOverIsHarmless
    <2>8. AnswersAreRight'
      BY <1>9, <2>a, <2>b, <2>1
      DEF WillExitDpe, HandlerAfterExit, IInv, TypeOK, AnswersAreRight
    <2>9. OrderlyStop'
      BY <1>9, <2>a, <2>b
      DEF WillExitDpe, HandlerAfterExit, IInv, TypeOK, OrderlyStop
    <2> QED
      BY <2>1, <2>2, <2>3, <2>4, <2>5, <2>6, <2>7, <2>8, <2>9 DEF IInv
  <1>10. CASE StopBegins
    <2>1. CASE stop = "returned"
      <3>a. ui_queue' = Tail(ui_queue) /\ ui_queue \in Seq(Closures) /\ ui_queue # <<>>
        BY <1>10, <2>1 DEF StopBegins, IInv, TypeOK
      <3>d. ASSUME \A i \in 1..Len(ui_queue') : ~Asks(i)', NEW j \in 1..Len(ui_queue)
            PROVE  ~Asks(j)
        <4>1. CASE j = 1
          BY <4>1, <1>10, <3>a, TailFacts DEF StopBegins, NextClosure, Asks
        <4>2. CASE j # 1
          <5>1. j - 1 \in 1..Len(ui_queue') /\ ui_queue'[j - 1] = ui_queue[j]
            BY <4>2, <3>a, TailFacts
          <5> QED
            BY <5>1, <3>d DEF Asks
        <4> QED
          BY <4>1, <4>2
      <3>b. /\ ui_queue' \in Seq(Closures) /\ Len(ui_queue) \in Nat \ {0}
            /\ Head(ui_queue) = ui_queue[1] /\ ui_queue[1] \in Closures
            /\ Len(ui_queue') = Len(ui_queue) - 1
            /\ \A i \in 1..Len(ui_queue') : ui_queue'[i] = ui_queue[i + 1]
        BY <1>10, <2>1, <3>a, TailFacts DEF StopBegins, NextClosure, IInv, TypeOK
      <3>1. TypeOK'
        BY <1>10, <2>1, <3>a, <3>b, NotPages
        DEF StopBegins, NextClosure, IInv, TypeOK
      <3>2. EachPageOnce'
        BY <1>10, <2>1, <3>a, <3>b, NotPages
        DEF StopBegins, NextClosure, IInv, Asks, TypeOK, EachPageOnce
      <3>3. OneRequestAtATime'
        BY <1>10, <2>1, <3>a, <3>b
        DEF StopBegins, NextClosure, IInv, Over, Asks, TypeOK, OneRequestAtATime
      <3>4. ResponseIsCurrent'
        BY <1>10, <2>1, <3>a, <3>b, <3>d, NotPages
        DEF StopBegins, NextClosure, IInv, Asks, TypeOK, ResponseIsCurrent
      <3>5. EventMeansHandled'
        BY <1>10, <2>1, <3>a, <3>b
        DEF StopBegins, NextClosure, IInv, Over, Asks, TypeOK, EventMeansHandled
      <3>6. StopOrder'
        BY <1>10, <2>1, <3>a, <3>b
        DEF StopBegins, NextClosure, IInv, Over, Asks, Listening, TypeOK, StopOrder
      <3>7. LeftOverIsHarmless'
        BY <1>10, <2>1, <3>a, <3>b
        DEF StopBegins, NextClosure, IInv, Over, Asks, TypeOK, LeftOverIsHarmless
      <3>8. AnswersAreRight'
        BY <1>10, <2>1, <3>a, <3>b, <3>1
        DEF StopBegins, NextClosure, IInv, TypeOK, AnswersAreRight
      <3>9. OrderlyStop'
        BY <1>10, <2>1, <3>a, <3>b
        DEF StopBegins, NextClosure, IInv, TypeOK, OrderlyStop
      <3> QED
        BY <3>1, <3>2, <3>3, <3>4, <3>5, <3>6, <3>7, <3>8, <3>9 DEF IInv
    <2>2. CASE stop # "returned"
      <3>1. TypeOK'
        BY <1>10, <2>2, NotPages DEF StopBegins, NextClosure, IInv, TypeOK
      <3>2. EachPageOnce'
        BY <1>10, <2>2, NotPages
        DEF StopBegins, NextClosure, IInv, Asks, TypeOK, EachPageOnce
      <3>3. OneRequestAtATime'
        BY <1>10, <2>2
        DEF StopBegins, NextClosure, IInv, Over, Asks, TypeOK, OneRequestAtATime
      <3>4. ResponseIsCurrent'
        BY <1>10, <2>2, NotPages
        DEF StopBegins, NextClosure, IInv, Asks, TypeOK, ResponseIsCurrent
      <3>5. EventMeansHandled'
        BY <1>10, <2>2
        DEF StopBegins, NextClosure, IInv, Over, Asks, TypeOK, EventMeansHandled
      <3>6. StopOrder'
        BY <1>10, <2>2, ClosureKinds
        DEF StopBegins, NextClosure, IInv, Over, Asks, Listening, UiFree, TypeOK,
            StopOrder
      <3>7. LeftOverIsHarmless'
        BY <1>10, <2>2
        DEF StopBegins, NextClosure, IInv, Over, Asks, TypeOK, LeftOverIsHarmless
      <3>8. AnswersAreRight'
        BY <1>10, <2>2, <3>1
        DEF StopBegins, NextClosure, IInv, TypeOK, AnswersAreRight
      <3>9. OrderlyStop'
        BY <1>10, <2>2 DEF StopBegins, NextClosure, IInv, TypeOK, OrderlyStop
      <3> QED
        BY <3>1, <3>2, <3>3, <3>4, <3>5, <3>6, <3>7, <3>8, <3>9 DEF IInv
    <2> QED
      BY <2>1, <2>2
  <1>11. CASE StopSetsEvent
    <2>1. TypeOK'
      BY <1>11, NotPages DEF StopSetsEvent, EventAfterStop, IInv, TypeOK
    <2>2. EachPageOnce'
      BY <1>11, NotPages
      DEF StopSetsEvent, EventAfterStop, IInv, Asks, TypeOK, EachPageOnce
    <2>3. OneRequestAtATime'
      BY <1>11
      DEF StopSetsEvent, EventAfterStop, IInv, Over, Asks, TypeOK,
          OneRequestAtATime
    <2>4. ResponseIsCurrent'
      BY <1>11, NotPages
      DEF StopSetsEvent, EventAfterStop, IInv, Asks, TypeOK, ResponseIsCurrent
    <2>5. EventMeansHandled'
      BY <1>11
      DEF StopSetsEvent, EventAfterStop, IInv, Over, Asks, StopOrder, TypeOK,
          EventMeansHandled
    <2>6. StopOrder'
      BY <1>11
      DEF StopSetsEvent, EventAfterStop, IInv, Over, Asks, Listening, TypeOK,
          StopOrder
    <2>7. LeftOverIsHarmless'
      BY <1>11
      DEF StopSetsEvent, EventAfterStop, IInv, Over, Asks, TypeOK,
          LeftOverIsHarmless
    <2>8. AnswersAreRight'
      BY <1>11, <2>1
      DEF StopSetsEvent, EventAfterStop, IInv, TypeOK, AnswersAreRight
    <2>9. OrderlyStop'
      BY <1>11 DEF StopSetsEvent, EventAfterStop, IInv, TypeOK, OrderlyStop
    <2> QED
      BY <2>1, <2>2, <2>3, <2>4, <2>5, <2>6, <2>7, <2>8, <2>9 DEF IInv
  <1>12. CASE StopConnects
    <2>b. /\ backlog' \in Seq(Pages \cup {StopSignal})
          /\ Listening => backlog' # <<>>
          /\ \A i \in 1..Len(backlog') : backlog'[i] \in Pages =>
                i \in 1..Len(backlog) /\ backlog'[i] = backlog[i]
      <3>1. backlog \in Seq(Pages \cup {StopSignal})
        BY DEF IInv, TypeOK
      <3>2. CASE Listening /\ Len(backlog) < MaxBacklog
        BY <1>12, <3>1, <3>2, AppendFacts, NotPages DEF StopConnects
      <3>3. CASE ~(Listening /\ Len(backlog) < MaxBacklog)
        <4>1. backlog' = backlog
          BY <1>12, <3>3 DEF StopConnects
        <4>2. Listening => Len(backlog) # 0
          BY <3>1, <3>3, LimitsAssumption
        <4> QED
          BY <3>1, <4>1, <4>2
      <3> QED
        BY <3>2, <3>3
    <2>1. TypeOK'
      BY <1>12, <2>b, NotPages DEF StopConnects, IInv, TypeOK
    <2>2. EachPageOnce'
      BY <1>12, <2>b, NotPages DEF StopConnects, IInv, Asks, TypeOK, EachPageOnce
    <2>3. OneRequestAtATime'
      BY <1>12, <2>b DEF StopConnects, IInv, Over, Asks, TypeOK, OneRequestAtATime
    <2>4. ResponseIsCurrent'
      BY <1>12, <2>b, NotPages
      DEF StopConnects, IInv, Asks, TypeOK, ResponseIsCurrent
    <2>5. EventMeansHandled'
      BY <1>12, <2>b DEF StopConnects, IInv, Over, Asks, TypeOK, EventMeansHandled
    <2>6. StopOrder'
      BY <1>12, <2>b
      DEF StopConnects, IInv, Over, Asks, Listening, TypeOK, StopOrder
    <2>7. LeftOverIsHarmless'
      BY <1>12, <2>b DEF StopConnects, IInv, Over, Asks, TypeOK, LeftOverIsHarmless
    <2>8. AnswersAreRight'
      BY <1>12, <2>b, <2>1 DEF StopConnects, IInv, TypeOK, AnswersAreRight
    <2>9. OrderlyStop'
      BY <1>12, <2>b DEF StopConnects, IInv, TypeOK, OrderlyStop
    <2> QED
      BY <2>1, <2>2, <2>3, <2>4, <2>5, <2>6, <2>7, <2>8, <2>9 DEF IInv
  <1>13. CASE StopTerminates
    <2>1. TypeOK'
      BY <1>13, NotPages DEF StopTerminates, Terminate, IInv, TypeOK
    <2>2. EachPageOnce'
      BY <1>13, NotPages
      DEF StopTerminates, Terminate, IInv, Asks, TypeOK, EachPageOnce
    <2>3. OneRequestAtATime'
      BY <1>13
      DEF StopTerminates, Terminate, IInv, Over, Asks, TypeOK, OneRequestAtATime
    <2>4. ResponseIsCurrent'
      BY <1>13, NotPages
      DEF StopTerminates, Terminate, IInv, Asks, TypeOK, ResponseIsCurrent
    <2>5. EventMeansHandled'
      BY <1>13
      DEF StopTerminates, Terminate, IInv, Over, Asks, TypeOK, EventMeansHandled
    <2>6. StopOrder'
      BY <1>13
      DEF StopTerminates, Terminate, IInv, Over, Asks, Listening, TypeOK, StopOrder
    <2>7. LeftOverIsHarmless'
      BY <1>13
      DEF StopTerminates, Terminate, IInv, Over, Asks, StopOrder, TypeOK,
          LeftOverIsHarmless
    <2>8. AnswersAreRight'
      BY <1>13, <2>1 DEF StopTerminates, Terminate, IInv, TypeOK, AnswersAreRight
    <2>9. OrderlyStop'
      BY <1>13, PagesAssumption
      DEF StopTerminates, Terminate, IInv, Stuck, StopOrder, EachPageOnce,
          Listening, Over, TypeOK, OrderlyStop
    <2> QED
      BY <2>1, <2>2, <2>3, <2>4, <2>5, <2>6, <2>7, <2>8, <2>9 DEF IInv
  <1>14. CASE StopTerminatesLate
    <2>1. TypeOK'
      BY <1>14, LimitsAssumption, NotPages
      DEF StopTerminatesLate, Terminate, IInv, TypeOK
    <2>2. EachPageOnce'
      BY <1>14, NotPages
      DEF StopTerminatesLate, Terminate, IInv, Asks, TypeOK, EachPageOnce
    <2>3. OneRequestAtATime'
      BY <1>14
      DEF StopTerminatesLate, Terminate, IInv, Over, Asks, TypeOK,
          OneRequestAtATime
    <2>4. ResponseIsCurrent'
      BY <1>14, NotPages
      DEF StopTerminatesLate, Terminate, IInv, Asks, TypeOK, ResponseIsCurrent
    <2>5. EventMeansHandled'
      BY <1>14
      DEF StopTerminatesLate, Terminate, IInv, Over, Asks, TypeOK,
          EventMeansHandled
    <2>6. StopOrder'
      BY <1>14
      DEF StopTerminatesLate, Terminate, IInv, Over, Asks, Listening, TypeOK,
          StopOrder
    <2>7. LeftOverIsHarmless'
      BY <1>14
      DEF StopTerminatesLate, Terminate, IInv, Over, Asks, TypeOK,
          LeftOverIsHarmless
    <2>8. AnswersAreRight'
      BY <1>14, <2>1
      DEF StopTerminatesLate, Terminate, IInv, TypeOK, AnswersAreRight
    <2>9. OrderlyStop'
      BY <1>14 DEF StopTerminatesLate, Terminate, IInv, TypeOK, OrderlyStop
    <2> QED
      BY <2>1, <2>2, <2>3, <2>4, <2>5, <2>6, <2>7, <2>8, <2>9 DEF IInv
  <1>15. CASE StopReturns
    <2>a. /\ ui_queue' \in Seq(Closures) /\ Len(ui_queue) \in Nat \ {0}
          /\ Head(ui_queue) = ui_queue[1] /\ ui_queue[1] \in Closures
          /\ Len(ui_queue') = Len(ui_queue) - 1
          /\ \A i \in 1..Len(ui_queue') : ui_queue'[i] = ui_queue[i + 1]
      BY <1>15, TailFacts DEF StopReturns, StopOrder, IInv, TypeOK
    <2>1. TypeOK'
      BY <1>15, <2>a, NotPages DEF StopReturns, IInv, TypeOK
    <2>2. EachPageOnce'
      BY <1>15, <2>a, NotPages DEF StopReturns, IInv, Asks, TypeOK, EachPageOnce
    <2>3. OneRequestAtATime'
      BY <1>15, <2>a DEF StopReturns, IInv, Over, Asks, TypeOK, OneRequestAtATime
    <2>4. ResponseIsCurrent'
      BY <1>15, <2>a, NotPages
      DEF StopReturns, IInv, Asks, TypeOK, ResponseIsCurrent
    <2>5. EventMeansHandled'
      BY <1>15, <2>a DEF StopReturns, IInv, Over, Asks, TypeOK, EventMeansHandled
    <2>6. StopOrder'
      BY <1>15, <2>a DEF StopReturns, IInv, Over, Asks, Listening, TypeOK, StopOrder
    <2>7. LeftOverIsHarmless'
      BY <1>15, <2>a DEF StopReturns, IInv, Over, Asks, TypeOK, LeftOverIsHarmless
    <2>8. AnswersAreRight'
      BY <1>15, <2>a, <2>1 DEF StopReturns, IInv, TypeOK, AnswersAreRight
    <2>9. OrderlyStop'
      BY <1>15, <2>a DEF StopReturns, IInv, TypeOK, OrderlyStop
    <2> QED
      BY <2>1, <2>2, <2>3, <2>4, <2>5, <2>6, <2>7, <2>8, <2>9 DEF IInv
  <1>16. CASE UNCHANGED vars
    BY <1>16 DEF vars, IInv, TypeOK, EachPageOnce, OneRequestAtATime, ResponseIsCurrent, EventMeansHandled,
       StopOrder, LeftOverIsHarmless, AnswersAreRight, OrderlyStop, Over, Asks, Listening
  <1> QED
    BY <1>1, <1>2, <1>3, <1>4, <1>5, <1>6, <1>7, <1>8,
       <1>9, <1>10, <1>11, <1>12, <1>13, <1>14, <1>15, <1>16 DEF Next, ThreadStep, UiStep

\* Whatever the browsers ask for and whenever the job ends, the inductive
\* invariant of the HTTP thread and the UI thread holds.
LEMMA ServerInvariant == Spec => []IInv
  BY InitIInv, NextIInv, PTL DEF Spec

\* A browser is sent what the handler gave for its own request, and only after
\* the handler has run for it (http_server.cc, HandleRequestOnThread): with the
\* one event that requests and Stop share, for any number of connections.
THEOREM BrowsersGetTheirPage == Spec => []AnswersAreRight
  <1>1. IInv => AnswersAreRight
    BY DEF IInv
  <1> QED
    BY <1>1, ServerInvariant, PTL

\* Without a wait that ran into its limit the handler never writes to the stack
\* of a thread that has left HandleRequestOnThread (http_server.cc, HandleRequest).
THEOREM HandlerWritesLiveResponse == Spec => []WritesLiveResponse
  <1>1. IInv => WritesLiveResponse
    BY DEF IInv, LeftOverIsHarmless, WritesLiveResponse
  <1> QED
    BY <1>1, ServerInvariant, PTL

\* Stop has to terminate the thread only for a silent connection or when
\* everything is slow (http_server.cc, Stop): its event or its own connection
\* wakes a thread that does anything else.
THEOREM StopIsOrderly == Spec => []OrderlyStop
  <1>1. IInv => OrderlyStop
    BY DEF IInv
  <1> QED
    BY <1>1, ServerInvariant, PTL
=============================================================================
