---------------------------- MODULE NetworkProofs ---------------------------
(***************************************************************************)
(* The two loops of the network library.                                     *)
(*                                                                           *)
(* The reactor, for any set of threads and any number of posts: type         *)
(* correctness, no lost wakeup, callbacks on the owner thread only, and each *)
(* callback run once, in the order it was posted.                            *)
(*                                                                           *)
(* The write loop of a connection, for any buffer and any messages: it never *)
(* mixes messages and repeats no byte more often than its bound.             *)
(***************************************************************************)
EXTENDS EventLoop, Stream, SequenceTheorems, FiniteSetTheorems, TLAPS

-----------------------------------------------------------------------------
(* The reactor.                                                            *)

\* The members of EventLoop keep their types under every step of every thread.
LEMMA TypeInduction == TypeOK /\ [Next]_vars => TypeOK'
<1> SUFFICES ASSUME TypeOK, [Next]_vars PROVE TypeOK'
    BY Zenon
<1> USE EventLoopAssumption DEF TypeOK, Channels, PCs
<1>1. ASSUME NEW t \in Threads, run_on_onwer_thread(t) PROVE TypeOK'
    BY Zenon, <1>1 DEF run_on_onwer_thread, CallStates
<1>1a. ASSUME NEW t \in Threads, CallInPlace(t) \/ Push(t) PROVE TypeOK'
    <2>1. NextTask(t) \in Task /\ posted' \in [Threads -> Nat]
        <3>1. posted' = [posted EXCEPT ![t] = posted[t] + 1]
            BY Zenon, <1>1a DEF CallInPlace, Push
        <3>2. posted[t] + 1 \in Nat /\ NextTask(t) = [by |-> t, no |-> posted[t] + 1]
            BY ONLY t \in Threads, posted \in [Threads -> Nat] DEF NextTask
        <3> QED BY ONLY t \in Threads, posted \in [Threads -> Nat], <3>1, <3>2 DEF Task
    <2>2. CASE CallInPlace(t)
        <3>1. [by |-> NextTask(t).by, no |-> NextTask(t).no, on |-> t] \in RanTask
            BY Zenon, <2>1 DEF Task, RanTask
        <3>2. ran' \in Seq(RanTask)
            BY Zenon, <2>2, <3>1, AppendProperties DEF CallInPlace, RunNow
        <3> QED BY Zenon, <2>1, <2>2, <3>2 DEF CallInPlace, CallStates
    <2>3. CASE Push(t)
        <3>1. to_do_list' \in Seq(Task)
            BY Zenon, <2>1, <2>3, AppendProperties DEF Push, add_to_do
        <3> QED BY Zenon, <2>1, <2>3, <3>1 DEF Push, CallStates
    <2> QED BY Zenon, <1>1a, <2>2, <2>3
<1>2. ASSUME NEW t \in Threads, wakeup_loop(t) PROVE TypeOK'
    BY Zenon, <1>2 DEF wakeup_loop, CallStates
<1>3. ASSUME NEW t \in Threads, stop(t) PROVE TypeOK'
    BY Zenon, <1>3 DEF stop
<1>4. CASE SpareWakeup
    BY Zenon, <1>4 DEF SpareWakeup
<1>5. CASE run
    BY Zenon, <1>5 DEF run
<1>6. CASE CheckStop
    BY Zenon, <1>6 DEF CheckStop
<1>7. ASSUME NEW ready \in SUBSET Channels, poll(ready) PROVE TypeOK'
    BY Zenon, <1>7 DEF poll
<1>8. CASE wakeup_callback
    BY Zenon, <1>8 DEF wakeup_callback
<1>9. CASE HandleEvent
    BY Zenon, <1>9 DEF HandleEvent
<1>10. CASE EndOfEvent
    BY Zenon, <1>10 DEF EndOfEvent
<1>11. CASE EndOfDispatch
    BY Zenon, <1>11 DEF EndOfDispatch
<1>12. CASE SwapToDoList
    BY Zenon, <1>12, EmptySeq DEF SwapToDoList
<1>13. CASE RunTask
    <2>1. Head(funcs) \in Task /\ Tail(funcs) \in Seq(Task)
        BY Zenon, <1>13, HeadTailProperties DEF RunTask
    <2>2. [by |-> Head(funcs).by, no |-> Head(funcs).no, on |-> Loop] \in RanTask
        BY Zenon, <2>1 DEF Task, RanTask
    <2>3. ran' \in Seq(RanTask)
        BY Zenon, <1>13, <2>2, AppendProperties DEF RunTask, RunNow
    <2> QED BY Zenon, <1>13, <2>1, <2>3 DEF RunTask
<1>14. CASE EndOfTask
    BY Zenon, <1>14 DEF EndOfTask
<1>15. CASE EndOfTasks
    BY Zenon, <1>15 DEF EndOfTasks
<1>16. CASE UNCHANGED vars
    BY Zenon, <1>16 DEF vars
<1> QED
    BY Zenon, <1>1, <1>2, <1>3, <1>4, <1>5, <1>6, <1>7, <1>8, <1>9, <1>10, <1>11,
       <1>12, <1>13, <1>14, <1>15, <1>16, <1>1a DEF Next, UserStep, CallStep, LoopStep

\* Type correctness of the reactor's members in every reachable state.
THEOREM TypeCorrect == Spec => []TypeOK
<1>1. Init => TypeOK
    <2>1. <<>> \in Seq(Task) /\ <<>> \in Seq(RanTask)
        BY Zenon, EmptySeq
    <2> SUFFICES ASSUME Init PROVE TypeOK
        BY Zenon
    <2>2. /\ tid_ \in Threads \cup {NoThread}
          /\ stop_ \in BOOLEAN
          /\ wakeup_fd_ \in {0, 1}
          /\ pc \in PCs
          /\ active \in SUBSET Channels
          /\ calling \in [Threads -> CallStates]
          /\ posted \in [Threads -> Nat]
        BY Zenon DEF Init, Channels, PCs, CallStates
    <2>3. to_do_list \in Seq(Task) /\ funcs \in Seq(Task) /\ ran \in Seq(RanTask)
        BY Zenon, <2>1 DEF Init
    <2> QED BY Zenon, <2>2, <2>3 DEF TypeOK
<1> QED
    BY <1>1, TypeInduction, PTL DEF Spec

-----------------------------------------------------------------------------

\* A queued callback always has a wakeup on its way: the push of
\* run_on_onwer_thread comes before its eventfd write, and run() swaps the
\* list only after it has read the eventfd.
THEOREM WakeupNeverLost == Spec => []NoLostWakeup
<1>1. Init => NoLostWakeup
    BY Zenon DEF Init, NoLostWakeup
<1>2. TypeOK /\ NoLostWakeup /\ [Next]_vars => NoLostWakeup'
    <2> SUFFICES ASSUME TypeOK, NoLostWakeup, [Next]_vars PROVE NoLostWakeup'
        BY Zenon
    <2> USE EventLoopAssumption DEF NoLostWakeup, TypeOK
    <2>1. ASSUME NEW t \in Threads, run_on_onwer_thread(t) PROVE NoLostWakeup'
        BY Zenon, <2>1 DEF run_on_onwer_thread, isInEpollLoop, InUserCode
    <2>1a. ASSUME NEW t \in Threads, CallInPlace(t) PROVE NoLostWakeup'
        BY Zenon, <2>1a DEF CallInPlace
    <2>1b. ASSUME NEW t \in Threads, Push(t) PROVE NoLostWakeup'
        BY Zenon, <2>1b DEF Push
    <2>2. ASSUME NEW t \in Threads, wakeup_loop(t) PROVE NoLostWakeup'
        BY Zenon, <2>2 DEF wakeup_loop
    <2>3. ASSUME NEW t \in Threads, stop(t) PROVE NoLostWakeup'
        BY Zenon, <2>3 DEF stop
    <2>4. CASE SpareWakeup
        BY Zenon, <2>4 DEF SpareWakeup
    <2>5. CASE run
        BY Zenon, <2>5 DEF run
    <2>6. CASE CheckStop
        BY Zenon, <2>6 DEF CheckStop
    <2>7. ASSUME NEW ready \in SUBSET Channels, poll(ready) PROVE NoLostWakeup'
        BY Zenon, <2>7 DEF poll
    <2>8. CASE wakeup_callback
        BY Zenon, <2>8 DEF wakeup_callback
    <2>9. CASE HandleEvent \/ EndOfEvent \/ EndOfDispatch
        BY Zenon, <2>9 DEF HandleEvent, EndOfEvent, EndOfDispatch
    <2>10. CASE SwapToDoList
        BY Zenon, <2>10 DEF SwapToDoList
    <2>11. CASE RunTask \/ EndOfTask \/ EndOfTasks
        BY Zenon, <2>11 DEF RunTask, EndOfTask, EndOfTasks
    <2>12. CASE UNCHANGED vars
        BY Zenon, <2>12 DEF vars
    <2> QED
        BY Zenon, <2>1, <2>2, <2>3, <2>4, <2>5, <2>6, <2>7, <2>8, <2>9, <2>10, <2>11,
           <2>12, <2>1a, <2>1b DEF Next, UserStep, CallStep, LoopStep
<1> QED
    BY <1>1, <1>2, TypeCorrect, PTL DEF Spec

-----------------------------------------------------------------------------

\* From run() on, tid_ names the loop thread. Before it tid_ is anything, and stays
\* that: a call that has passed the test is made by the thread it names, so that at
\* most one other thread is between the test and its callback.
TidKnown ==
    /\ pc # "new" => tid_ = Loop
    /\ pc = "new" => \A t \in Threads : /\ calling[t] = "call" => tid_ = t
                                        /\ calling[t] = "push" => tid_ # t
    /\ \A t, u \in Strays : t = u

\* run() stores its thread before its first turn and nothing changes it again; no
\* thread but the loop's passes the test after that.
LEMMA TidInvariant == Spec => []TidKnown
<1>1. Init => TidKnown
    BY Zenon DEF Init, TidKnown, Strays
<1>2. TypeOK /\ TidKnown /\ [Next]_vars => TidKnown'
    <2> SUFFICES ASSUME TypeOK, TidKnown, [Next]_vars PROVE TidKnown'
        BY Zenon
    <2> USE DEF TidKnown, Strays
    <2>1. calling \in [Threads -> CallStates]
        BY Zenon DEF TypeOK
    <2>2. ASSUME NEW t \in Threads, run_on_onwer_thread(t) PROVE TidKnown'
        <3>1. /\ UNCHANGED <<pc, tid_>> /\ calling[t] = "idle"
              /\ \A u \in Threads : u # t => calling'[u] = calling[u]
              /\ tid_ = t => calling'[t] = "call"
              /\ tid_ # t => calling'[t] = "push"
            BY Zenon, <2>1, <2>2 DEF run_on_onwer_thread, isInEpollLoop, InUserCode
        <3>2. (pc = "new" => \A u \in Threads : /\ calling[u] = "call" => tid_ = u
                                                /\ calling[u] = "push" => tid_ # u)'
            BY Zenon, <3>1
        <3>3. ASSUME NEW u \in Threads \ {Loop}, NEW w \in Threads \ {Loop},
                     calling'[u] = "call", calling'[w] = "call"
              PROVE  u = w
            <4>1. CASE pc = "new"
                BY Zenon, <3>1, <3>2, <3>3, <4>1
            <4>2. CASE pc # "new"
                BY Zenon, <3>1, <3>3, <4>2
            <4> QED BY Zenon, <4>1, <4>2
        <3> QED BY Zenon, <3>1, <3>2, <3>3
    <2>3. ASSUME NEW t \in Threads, CallStep(t) PROVE TidKnown'
        <3>1. /\ UNCHANGED <<pc, tid_>>
              /\ \A u \in Threads : u # t => calling'[u] = calling[u]
              /\ calling'[t] \in {"idle", "wake"}
            BY Zenon, <2>1, <2>3 DEF CallStep, CallInPlace, Push, wakeup_loop
        <3> QED BY Zenon, <3>1
    <2>4. CASE run
        BY Zenon, <2>4 DEF run
    <2>5. CASE UNCHANGED <<tid_, calling>> /\ (pc' = "new" <=> pc = "new")
        BY Zenon, <2>5
    <2>6. CASE \/ SpareWakeup \/ LoopStep \/ \E t \in Threads : stop(t)
               \/ \E ready \in SUBSET Channels : poll(ready)
               \/ UNCHANGED vars
        BY Zenon, <2>5, <2>6 DEF LoopStep, stop, SpareWakeup, CheckStop, poll, wakeup_callback,
               HandleEvent, EndOfEvent, EndOfDispatch, SwapToDoList, RunTask,
               EndOfTask, EndOfTasks, vars
    <2> QED BY Zenon, <2>2, <2>3, <2>4, <2>6 DEF Next, UserStep
<1> QED
    BY <1>1, <1>2, TypeCorrect, PTL DEF Spec

\* Once run() has been entered, callbacks are run by the loop thread, in place only if
\* the caller is that thread, from the list otherwise; the one exception is a call that
\* another thread began before, and there is one such call at most.
THEOREM StraysEnd == Spec => OneStrayAtMost
<1> DEFINE A == pc # "new" =>
                  /\ Strays' \subseteq Strays
                  /\ \A i \in DOMAIN ran' \ DOMAIN ran : ran'[i].on # Loop => Strays' = {}
<1>1. TypeOK /\ TidKnown /\ [Next]_vars => [A]_vars
    <2> SUFFICES ASSUME TypeOK, TidKnown, Next, pc # "new"
                 PROVE  /\ Strays' \subseteq Strays
                        /\ \A i \in DOMAIN ran' \ DOMAIN ran : ran'[i].on # Loop => Strays' = {}
        BY Zenon
    <2>1. tid_ = Loop /\ calling \in [Threads -> CallStates]
        BY Zenon DEF TidKnown, TypeOK
    <2>2. ASSUME NEW task \in Task, NEW t \in Threads, RunNow(task, t),
                 NEW i \in DOMAIN ran' \ DOMAIN ran
          PROVE  ran'[i].on = t
        <3>1. [by |-> task.by, no |-> task.no, on |-> t] \in RanTask
            BY Zenon, <2>2 DEF RanTask, Task
        <3>2. /\ DOMAIN ran = 1..Len(ran) /\ Len(ran) \in Nat
              /\ DOMAIN ran' = 1..(Len(ran) + 1)
              /\ ran'[Len(ran) + 1].on = t
            BY <2>2, <3>1, AppendProperties, LenProperties DEF RunNow, TypeOK
        <3> QED BY <2>2, <3>2
    <2>3. ASSUME NEW t \in Threads, run_on_onwer_thread(t)
          PROVE  Strays' \subseteq Strays /\ UNCHANGED ran
        BY Zenon, <2>1, <2>3 DEF run_on_onwer_thread, isInEpollLoop, Strays
    <2>4. ASSUME NEW t \in Threads, CallInPlace(t)
          PROVE  /\ Strays' \subseteq Strays
                 /\ \A i \in DOMAIN ran' \ DOMAIN ran : ran'[i].on # Loop => Strays' = {}
        <3>1. NextTask(t) \in Task
            BY DEF NextTask, Task, TypeOK
        <3>2. Strays' \subseteq Strays \ {t}
            BY Zenon, <2>1, <2>4 DEF CallInPlace, Strays
        <3>3. t # Loop => Strays' = {}
            BY Zenon, <2>4, <3>2 DEF CallInPlace, Strays, TidKnown
        <3>4. \A i \in DOMAIN ran' \ DOMAIN ran : ran'[i].on = t
            BY Zenon, <2>2, <2>4, <3>1 DEF CallInPlace
        <3> QED BY Zenon, <3>2, <3>3, <3>4
    <2>5. ASSUME NEW t \in Threads, Push(t) \/ wakeup_loop(t)
          PROVE  Strays' \subseteq Strays /\ UNCHANGED ran
        BY Zenon, <2>1, <2>5 DEF Push, wakeup_loop, Strays
    <2>6. CASE RunTask
        <3>1. Head(funcs) \in Task
            BY Zenon, <2>6, HeadTailProperties DEF RunTask, TypeOK
        <3>2. \A i \in DOMAIN ran' \ DOMAIN ran : ran'[i].on = Loop
            BY Zenon, <2>2, <2>6, <3>1, EventLoopAssumption DEF RunTask
        <3> QED BY Zenon, <2>6, <3>2 DEF RunTask, Strays
    <2>7. CASE UNCHANGED <<ran, calling>>
        BY Zenon, <2>7 DEF Strays
    <2> QED
        BY Zenon, <2>3, <2>4, <2>5, <2>6, <2>7 DEF Next, UserStep, CallStep, LoopStep, stop,
           SpareWakeup, run, CheckStop, poll, wakeup_callback, HandleEvent,
           EndOfEvent, EndOfDispatch, SwapToDoList, EndOfTask, EndOfTasks
<1> QED
    BY <1>1, TypeCorrect, TidInvariant, PTL DEF Spec, OneStrayAtMost

-----------------------------------------------------------------------------

\* Callbacks carry the numbers their posters have given out.
Numbered ==
    \A i \in DOMAIN Pipeline :
        /\ Pipeline[i].by \in Threads
        /\ Pipeline[i].no \in 1..posted[Pipeline[i].by]

\* The swapped-out vector is empty outside do_after_handle_events, and before
\* run() the thread that tid_ happens to name has queued nothing: it runs its
\* callbacks in place. A stray has nothing queued until its call is over.
QueuesInTurn ==
    /\ pc \notin {"task", "in_task"} => funcs = <<>>
    /\ pc = "new" => \A i \in DOMAIN to_do_list : to_do_list[i].by # tid_
    /\ \A t \in Strays : /\ \A i \in DOMAIN to_do_list : to_do_list[i].by # t
                         /\ \A i \in DOMAIN funcs : funcs[i].by # t

\* Callbacks are run or waiting once each, and in order: the inductive
\* strengthening of EveryTaskOnce and PostersInOrder.
OnceInOrder == Numbered /\ QueuesInTurn /\ EveryTaskOnce /\ PostersInOrder

\* The same, said of any sequence of callbacks and any count of posts.
InOrder(P, count) ==
    /\ \A i \in DOMAIN P : P[i].by \in Threads /\ P[i].no \in 1..count[P[i].by]
    /\ \A t \in Threads : \A n \in 1..count[t] :
          \E i \in DOMAIN P : P[i].by = t /\ P[i].no = n
    /\ \A i, j \in DOMAIN P : P[i].by = P[j].by /\ P[i].no = P[j].no => i = j
    /\ \A i, j \in DOMAIN P :
          (i < j /\ P[i].by = P[j].by /\ P[i].by # Loop) => P[i].no < P[j].no

\* OnceInOrder in these terms.
LEMMA OnceInOrderIs == OnceInOrder <=> QueuesInTurn /\ InOrder(Pipeline, posted)
<1>1. EveryTaskOnce <=>
        /\ \A t \in Threads : \A n \in 1..posted[t] :
              \E i \in DOMAIN Pipeline : Pipeline[i].by = t /\ Pipeline[i].no = n
        /\ \A i, j \in DOMAIN Pipeline :
              Pipeline[i].by = Pipeline[j].by /\ Pipeline[i].no = Pipeline[j].no => i = j
    BY DEF EveryTaskOnce, SameTask
<1> QED BY Zenon, <1>1 DEF OnceInOrder, InOrder, Numbered, PostersInOrder

\* P is a, b and c put behind each other.
IsBehind(P, a, b, c) ==
    /\ Len(a) \in Nat /\ Len(b) \in Nat /\ Len(c) \in Nat
    /\ DOMAIN P = 1..(Len(a) + Len(b) + Len(c))
    /\ \A i \in 1..Len(a) : P[i] = a[i]
    /\ \A i \in 1..Len(b) : P[Len(a) + i] = b[i]
    /\ \A i \in 1..Len(c) : P[Len(a) + Len(b) + i] = c[i]

\* Where a callback stands in three queues put behind each other.
LEMMA Behind ==
    ASSUME NEW a \in Seq(RanTask), NEW b \in Seq(Task), NEW c \in Seq(Task)
    PROVE  IsBehind(a \o b \o c, a, b, c)
<1> DEFINE T == Task \cup RanTask
<1>1. a \in Seq(T) /\ b \in Seq(T) /\ c \in Seq(T)
    OBVIOUS
<1>2. /\ a \o b \in Seq(T) /\ Len(a \o b) = Len(a) + Len(b)
      /\ \A i \in 1..(Len(a) + Len(b)) :
            (a \o b)[i] = IF i <= Len(a) THEN a[i] ELSE b[i - Len(a)]
    BY <1>1, ConcatProperties
<1>3. /\ a \o b \o c \in Seq(T) /\ Len(a \o b \o c) = Len(a \o b) + Len(c)
      /\ \A i \in 1..(Len(a \o b) + Len(c)) :
            (a \o b \o c)[i] = IF i <= Len(a \o b) THEN (a \o b)[i] ELSE c[i - Len(a \o b)]
    BY <1>1, <1>2, ConcatProperties
<1>4. /\ Len(a) \in Nat /\ Len(b) \in Nat /\ Len(c) \in Nat
      /\ DOMAIN (a \o b \o c) = 1..Len(a \o b \o c)
    BY Zenon, <1>1, <1>3, LenProperties
<1>5. \A i \in 1..Len(a) : (a \o b \o c)[i] = a[i]
    BY <1>2, <1>3, <1>4
<1>6. \A i \in 1..Len(b) : (a \o b \o c)[Len(a) + i] = b[i]
    <2> TAKE i \in 1..Len(b)
    <2>1. /\ Len(a) + i \in 1..(Len(a) + Len(b)) /\ ~(Len(a) + i <= Len(a))
          /\ Len(a) + i - Len(a) = i
          /\ Len(a) + i \in 1..(Len(a \o b) + Len(c)) /\ Len(a) + i <= Len(a \o b)
        BY <1>2, <1>4
    <2>2. (a \o b \o c)[Len(a) + i] = (a \o b)[Len(a) + i]
        BY ONLY Zenon, <1>3, <2>1
    <2>3. (a \o b)[Len(a) + i] = b[Len(a) + i - Len(a)]
        BY ONLY <1>2, <2>1
    <2> QED BY ONLY Zenon, <2>1, <2>2, <2>3
<1>7. \A i \in 1..Len(c) : (a \o b \o c)[Len(a) + Len(b) + i] = c[i]
    <2> TAKE i \in 1..Len(c)
    <2>1. /\ Len(a) + Len(b) + i \in 1..(Len(a \o b) + Len(c))
          /\ ~(Len(a) + Len(b) + i <= Len(a \o b))
          /\ Len(a) + Len(b) + i - Len(a \o b) = i
        BY <1>2, <1>4
    <2>2. (a \o b \o c)[Len(a) + Len(b) + i] = c[Len(a) + Len(b) + i - Len(a \o b)]
        BY ONLY <1>3, <2>1
    <2> QED BY ONLY Zenon, <2>1, <2>2
<1> QED BY Zenon, <1>2, <1>3, <1>4, <1>5, <1>6, <1>7 DEF IsBehind

\* A step that keeps every callback in its place.
LEMMA KeepInOrder ==
    ASSUME NEW P, NEW Q, NEW count, InOrder(P, count), DOMAIN Q = DOMAIN P,
           \A i \in DOMAIN P : Q[i].by = P[i].by /\ Q[i].no = P[i].no
    PROVE  InOrder(Q, count)
<1>1. \A i \in DOMAIN Q : Q[i].by \in Threads /\ Q[i].no \in 1..count[Q[i].by]
    BY Zenon DEF InOrder
<1>2. \A t \in Threads : \A n \in 1..count[t] :
         \E i \in DOMAIN Q : Q[i].by = t /\ Q[i].no = n
    <2> TAKE t \in Threads
    <2> TAKE n \in 1..count[t]
    <2>1. PICK i \in DOMAIN P : P[i].by = t /\ P[i].no = n
        BY DEF InOrder
    <2> QED BY Zenon, <2>1
<1>3. \A i, j \in DOMAIN Q : Q[i].by = Q[j].by /\ Q[i].no = Q[j].no => i = j
    BY Zenon DEF InOrder
<1>4. \A i, j \in DOMAIN Q :
         (i < j /\ Q[i].by = Q[j].by /\ Q[i].by # Loop) => Q[i].no < Q[j].no
    BY Zenon DEF InOrder
<1> QED BY Zenon, <1>1, <1>2, <1>3, <1>4 DEF InOrder

\* Q is P with callback number m of thread t put in at place p.
Inserted(P, Q, n, p, t, m) ==
    /\ DOMAIN P = 1..n
    /\ DOMAIN Q = 1..(n + 1)
    /\ Q[p].by = t /\ Q[p].no = m
    /\ \A i \in 1..n : i < p => Q[i].by = P[i].by /\ Q[i].no = P[i].no
    /\ \A i \in 1..n : ~(i < p) => Q[i + 1].by = P[i].by /\ Q[i + 1].no = P[i].no
    /\ t # Loop => \A i \in 1..n : ~(i < p) => P[i].by # t

\* A step that puts a thread's next callback in at place p: at the end, or
\* before others of which, unless it is the loop thread, none is the thread's.
LEMMA InsertInOrder ==
    ASSUME NEW P, NEW Q, NEW count \in [Threads -> Nat], InOrder(P, count),
           NEW n \in Nat, NEW p \in 1..(n + 1), NEW t \in Threads,
           Inserted(P, Q, n, p, t, count[t] + 1)
    PROVE  InOrder(Q, [count EXCEPT ![t] = @ + 1])
<1> USE DEF Inserted
<1> DEFINE more == [count EXCEPT ![t] = @ + 1]
           was(i) == IF i < p THEN i ELSE i - 1
           new(i) == IF i < p THEN i ELSE i + 1
<1>1. \A i \in 1..(n + 1) : i # p => was(i) \in 1..n
    OBVIOUS
<1>2. \A i \in 1..(n + 1) : i # p => Q[i].by = P[was(i)].by /\ Q[i].no = P[was(i)].no
    <2> TAKE i \in 1..(n + 1)
    <2> HAVE i # p
    <2>1. CASE i < p
        <3>1. i \in 1..n /\ was(i) = i
            BY <2>1
        <3> QED BY Zenon, <2>1, <3>1
    <2>2. CASE ~(i < p)
        <3>1. i - 1 \in 1..n /\ ~(i - 1 < p) /\ was(i) = i - 1 /\ (i - 1) + 1 = i
            BY <2>2
        <3> HIDE DEF was
        <3> QED BY Zenon, <3>1
    <2> QED BY Zenon, <2>1, <2>2
<1>3. \A i, j \in 1..(n + 1) : i # p /\ j # p => (i < j => was(i) < was(j)) /\ (was(i) = was(j) => i = j)
    OBVIOUS
<1>4. \A i \in 1..n : new(i) \in 1..(n + 1) /\ new(i) # p /\ was(new(i)) = i
    OBVIOUS
<1>5. \A i \in 1..(n + 1) : i > p => ~(was(i) < p)
    OBVIOUS
<1>6. more[t] = count[t] + 1 /\ count[t] \in Nat /\ \A u \in Threads : u # t => more[u] = count[u]
    BY Zenon
<1>7. \A i \in 1..n : P[i].by \in Threads /\ P[i].no \in 1..count[P[i].by]
    BY Zenon DEF InOrder
<1>13. \A u \in Threads : \A m \in 1..count[u] : \E i \in 1..n : P[i].by = u /\ P[i].no = m
    BY DEF InOrder
<1>14. \A i, j \in 1..n : P[i].by = P[j].by /\ P[i].no = P[j].no => i = j
    BY Zenon DEF InOrder
<1>15. \A i, j \in 1..n :
          (i < j /\ P[i].by = P[j].by /\ P[i].by # Loop) => P[i].no < P[j].no
    BY Zenon DEF InOrder
<1> HIDE DEF more, was, new
<1>8. ASSUME NEW i \in 1..(n + 1)
      PROVE  Q[i].by \in Threads /\ Q[i].no \in 1..more[Q[i].by]
    <2>1. CASE i = p
        BY <1>6, <2>1
    <2>2. CASE i # p
        <3>1. P[was(i)].by \in Threads /\ P[was(i)].no \in 1..count[P[was(i)].by]
            BY Zenon, <1>1, <1>7, <2>2
        <3>2. \A u \in Threads : \A m \in 1..count[u] : m \in 1..more[u]
            BY <1>6
        <3> QED BY Zenon, <1>2, <2>2, <3>1, <3>2
    <2> QED BY Zenon, <2>1, <2>2
<1>9. ASSUME NEW u \in Threads, NEW m \in 1..more[u]
      PROVE  \E i \in 1..(n + 1) : Q[i].by = u /\ Q[i].no = m
    <2>1. CASE u = t /\ m = count[t] + 1
        BY Zenon, <2>1
    <2>2. CASE ~(u = t /\ m = count[t] + 1)
        <3>1. m \in 1..count[u]
            BY <1>6, <2>2
        <3>2. PICK i \in 1..n : P[i].by = u /\ P[i].no = m
            BY Zenon, <1>13, <3>1
        <3>3. new(i) \in 1..(n + 1) /\ new(i) # p /\ was(new(i)) = i
            BY Zenon, <1>4
        <3>4. Q[new(i)].by = u /\ Q[new(i)].no = m
            BY Zenon, <1>2, <3>2, <3>3
        <3> QED BY Zenon, <3>3, <3>4
    <2> QED BY Zenon, <2>1, <2>2
<1>10. ASSUME NEW i \in 1..(n + 1), i # p, Q[i].by = t PROVE Q[i].no < count[t] + 1
    <2>1. Q[i].no \in 1..count[t]
        <3>1. /\ was(i) \in 1..n
              /\ Q[i].by = P[was(i)].by /\ Q[i].no = P[was(i)].no
            BY Zenon, <1>1, <1>2, <1>10
        <3>2. P[was(i)].no \in 1..count[P[was(i)].by]
            BY Zenon, <1>7, <3>1
        <3> QED BY Zenon, <1>10, <3>1, <3>2
    <2> QED BY <1>6, <2>1
<1>11. ASSUME NEW i \in 1..(n + 1), NEW j \in 1..(n + 1),
              Q[i].by = Q[j].by, Q[i].no = Q[j].no
       PROVE  i = j
    <2>1. CASE i # p /\ j # p
        <3>1. /\ was(i) \in 1..n /\ was(j) \in 1..n
              /\ Q[i].by = P[was(i)].by /\ Q[i].no = P[was(i)].no
              /\ Q[j].by = P[was(j)].by /\ Q[j].no = P[was(j)].no
            BY Zenon, <1>1, <1>2, <2>1
        <3>2. was(i) = was(j)
            BY Zenon, <1>11, <1>14, <3>1
        <3> QED BY Zenon, <1>3, <2>1, <3>2
    <2>2. CASE i = p /\ j # p
        <3>1. Q[j].no < count[t] + 1 /\ Q[j].no = count[t] + 1
            BY Zenon, <1>10, <1>11, <2>2
        <3> QED BY <1>6, <3>1
    <2>3. CASE i # p /\ j = p
        <3>1. Q[i].no < count[t] + 1 /\ Q[i].no = count[t] + 1
            BY Zenon, <1>10, <1>11, <2>3
        <3> QED BY <1>6, <3>1
    <2> QED BY Zenon, <2>1, <2>2, <2>3
<1>12. ASSUME NEW i \in 1..(n + 1), NEW j \in 1..(n + 1),
              i < j, Q[i].by = Q[j].by, Q[i].by # Loop
       PROVE  Q[i].no < Q[j].no
    <2>1. CASE i # p /\ j # p
        <3>1. /\ was(i) \in 1..n /\ was(j) \in 1..n /\ was(i) < was(j)
              /\ Q[i].by = P[was(i)].by /\ Q[i].no = P[was(i)].no
              /\ Q[j].by = P[was(j)].by /\ Q[j].no = P[was(j)].no
            BY Zenon, <1>1, <1>2, <1>3, <1>12, <2>1
        <3>2. P[was(i)].no < P[was(j)].no
            BY Zenon, <1>12, <1>15, <3>1
        <3> QED BY Zenon, <3>1, <3>2
    <2>2. CASE i = p
        <3>1. j # p /\ j > p
            BY <1>12, <2>2
        <3>2. P[was(j)].by = t /\ was(j) \in 1..n /\ ~(was(j) < p) /\ t # Loop
            BY Zenon, <1>1, <1>2, <1>5, <1>12, <2>2, <3>1
        <3> QED BY Zenon, <3>2
    <2>3. CASE i # p /\ j = p
        BY Zenon, <1>10, <1>12, <2>3
    <2> QED BY Zenon, <2>1, <2>2, <2>3
<1>16. DOMAIN Q = 1..(n + 1)
    BY Zenon
<1> QED BY ONLY Zenon, <1>8, <1>9, <1>11, <1>12, <1>16 DEF InOrder, more

\* A callback run in place goes behind those that ran, before those that wait.
LEMMA RunInPlace ==
    ASSUME TypeOK, TypeOK', TidKnown, OnceInOrder, NEW t \in Threads,
           CallInPlace(t)
    PROVE  InOrder(Pipeline', posted')
<1> DEFINE a == Len(ran)
           b == Len(funcs)
           c == Len(to_do_list)
           x == [by |-> t, no |-> posted[t] + 1, on |-> t]
<1>1. /\ ran' = Append(ran, x) /\ UNCHANGED <<funcs, to_do_list, pc, tid_>>
      /\ posted' = [posted EXCEPT ![t] = @ + 1]
    BY Zenon DEF CallInPlace, NextTask, RunNow
<1>2. ran \in Seq(RanTask) /\ x \in RanTask /\ funcs \in Seq(Task) /\ to_do_list \in Seq(Task)
    BY DEF TypeOK, RanTask
<1>3. /\ ran' \in Seq(RanTask) /\ Len(ran') = a + 1 /\ ran'[a + 1] = x
      /\ \A i \in 1..a : ran'[i] = ran[i]
    BY <1>1, <1>2, AppendProperties
<1>4. /\ a \in Nat /\ b \in Nat /\ c \in Nat /\ DOMAIN Pipeline = 1..(a + b + c)
      /\ \A i \in 1..a : Pipeline[i] = ran[i]
      /\ \A i \in 1..b : Pipeline[a + i] = funcs[i]
      /\ \A i \in 1..c : Pipeline[a + b + i] = to_do_list[i]
    <2>1. IsBehind(Pipeline, ran, funcs, to_do_list)
        BY Zenon, <1>2, Behind DEF Pipeline
    <2> QED BY ONLY Zenon, <2>1 DEF IsBehind
<1>5. /\ DOMAIN Pipeline' = 1..(Len(ran') + b + c)
      /\ \A i \in 1..Len(ran') : Pipeline'[i] = ran'[i]
      /\ \A i \in 1..b : Pipeline'[Len(ran') + i] = funcs[i]
      /\ \A i \in 1..c : Pipeline'[Len(ran') + b + i] = to_do_list[i]
    <2>1. Pipeline' = ran' \o funcs \o to_do_list
        BY Zenon, <1>1 DEF Pipeline
    <2>2. IsBehind(Pipeline', ran', funcs, to_do_list)
        BY ONLY Zenon, <1>2, <1>3, <2>1, Behind
    <2> QED BY ONLY Zenon, <2>2 DEF IsBehind
<1>6. InOrder(Pipeline, posted) /\ QueuesInTurn
    BY Zenon, OnceInOrderIs
<1>7. t # Loop => /\ \A i \in 1..b : funcs[i].by # t
                  /\ \A i \in 1..c : to_do_list[i].by # t
    <2>1. t # Loop => t \in Strays
        BY Zenon DEF CallInPlace, Strays
    <2>2. DOMAIN to_do_list = 1..c /\ DOMAIN funcs = 1..b
        BY Zenon, <1>2, LenProperties
    <2> QED BY Zenon, <1>6, <2>1, <2>2 DEF QueuesInTurn
<1> DEFINE P == Pipeline
           Q == Pipeline'
           n == a + b + c
           p == a + 1
<1> HIDE DEF a, b, c
<1>8. n \in Nat /\ p \in 1..(n + 1) /\ DOMAIN P = 1..n /\ DOMAIN Q = 1..(n + 1)
    <2>1. (a + 1) + b + c = n + 1
        BY <1>4
    <2> QED BY <1>3, <1>4, <1>5, <2>1
<1>9. Q[p] = x
    BY <1>3, <1>4, <1>5
<1>10. ASSUME NEW i \in 1..n, i < p PROVE Q[i] = P[i]
    BY <1>3, <1>4, <1>5, <1>10
<1>11. ASSUME NEW i \in 1..n, ~(i < p)
       PROVE  /\ Q[i + 1] = P[i]
              /\ t # Loop => P[i].by # t
    <2>1. CASE i <= a + b
        <3>1. i - a \in 1..b /\ a + (i - a) = i /\ (a + 1) + (i - a) = i + 1
            BY <1>4, <1>11, <2>1
        <3>2. P[a + (i - a)] = funcs[i - a] /\ Q[(a + 1) + (i - a)] = funcs[i - a]
            BY ONLY Zenon, <1>3, <1>4, <1>5, <3>1
        <3> QED BY Zenon, <1>7, <3>1, <3>2
    <2>2. CASE ~(i <= a + b)
        <3>1. /\ i - (a + b) \in 1..c /\ a + b + (i - (a + b)) = i
              /\ (a + 1) + b + (i - (a + b)) = i + 1
            BY <1>4, <1>11, <2>2
        <3>2. /\ P[a + b + (i - (a + b))] = to_do_list[i - (a + b)]
              /\ Q[(a + 1) + b + (i - (a + b))] = to_do_list[i - (a + b)]
            BY ONLY Zenon, <1>3, <1>4, <1>5, <3>1
        <3> QED BY Zenon, <1>7, <3>1, <3>2
    <2> QED BY Zenon, <2>1, <2>2
<1>12. x.by = t /\ x.no = posted[t] + 1 /\ posted \in [Threads -> Nat]
    BY Zenon DEF TypeOK
<1> HIDE DEF P, Q, n, p, x
<1>13. InOrder(Q, [posted EXCEPT ![t] = @ + 1])
    <2>1. /\ \A i \in 1..n : i < p => Q[i].by = P[i].by /\ Q[i].no = P[i].no
          /\ \A i \in 1..n : ~(i < p) => Q[i + 1].by = P[i].by /\ Q[i + 1].no = P[i].no
          /\ t # Loop => \A i \in 1..n : ~(i < p) => P[i].by # t
          /\ Q[p].by = t /\ Q[p].no = posted[t] + 1
        BY Zenon, <1>9, <1>10, <1>11, <1>12
    <2>2. InOrder(P, posted)
        BY Zenon, <1>6 DEF P
    <2>3. Inserted(P, Q, n, p, t, posted[t] + 1)
        BY ONLY Zenon, <1>8, <2>1 DEF Inserted
    <2> QED BY ONLY Zenon, t \in Threads, <1>8, <1>12, <2>2, <2>3, InsertInOrder
<1> QED BY Zenon, <1>1, <1>13 DEF Q

\* A callback queued by add_to_do goes behind all others.
LEMMA QueueLast ==
    ASSUME TypeOK, TypeOK', OnceInOrder, NEW t \in Threads,
           Push(t)
    PROVE  InOrder(Pipeline', posted')
<1> DEFINE a == Len(ran)
           b == Len(funcs)
           c == Len(to_do_list)
           x == [by |-> t, no |-> posted[t] + 1]
<1>1. /\ to_do_list' = Append(to_do_list, x) /\ UNCHANGED <<funcs, ran>>
      /\ posted' = [posted EXCEPT ![t] = @ + 1]
    BY Zenon DEF Push, NextTask, add_to_do
<1>2. ran \in Seq(RanTask) /\ x \in Task /\ funcs \in Seq(Task) /\ to_do_list \in Seq(Task)
    BY DEF TypeOK, Task
<1>3. /\ to_do_list' \in Seq(Task) /\ Len(to_do_list') = c + 1 /\ to_do_list'[c + 1] = x
      /\ \A i \in 1..c : to_do_list'[i] = to_do_list[i]
    BY <1>1, <1>2, AppendProperties
<1>4. /\ a \in Nat /\ b \in Nat /\ c \in Nat /\ DOMAIN Pipeline = 1..(a + b + c)
      /\ \A i \in 1..a : Pipeline[i] = ran[i]
      /\ \A i \in 1..b : Pipeline[a + i] = funcs[i]
      /\ \A i \in 1..c : Pipeline[a + b + i] = to_do_list[i]
    <2>1. IsBehind(Pipeline, ran, funcs, to_do_list)
        BY Zenon, <1>2, Behind DEF Pipeline
    <2> QED BY ONLY Zenon, <2>1 DEF IsBehind
<1>5. /\ DOMAIN Pipeline' = 1..(a + b + Len(to_do_list'))
      /\ \A i \in 1..a : Pipeline'[i] = ran[i]
      /\ \A i \in 1..b : Pipeline'[a + i] = funcs[i]
      /\ \A i \in 1..Len(to_do_list') : Pipeline'[a + b + i] = to_do_list'[i]
    <2>1. Pipeline' = ran \o funcs \o to_do_list'
        BY Zenon, <1>1 DEF Pipeline
    <2>2. IsBehind(Pipeline', ran, funcs, to_do_list')
        BY ONLY Zenon, <1>2, <1>3, <2>1, Behind
    <2> QED BY ONLY Zenon, <2>2 DEF IsBehind
<1> DEFINE P == Pipeline
           Q == Pipeline'
           n == a + b + c
<1> HIDE DEF a, b, c
<1>6. n \in Nat /\ n + 1 \in 1..(n + 1) /\ DOMAIN P = 1..n /\ DOMAIN Q = 1..(n + 1)
    <2>1. a + b + (c + 1) = n + 1
        BY <1>4
    <2> QED BY <1>3, <1>4, <1>5, <2>1
<1>7. Q[n + 1] = x
    <2>1. a + b + (c + 1) = n + 1 /\ c + 1 \in 1..(c + 1)
        BY <1>4
    <2> QED BY Zenon, <1>3, <1>5, <2>1
<1>8. ASSUME NEW i \in 1..n PROVE Q[i] = P[i]
    <2>1. CASE i <= a
        BY <1>4, <1>5, <2>1
    <2>2. CASE i > a /\ i <= a + b
        <3>1. i - a \in 1..b /\ a + (i - a) = i
            BY <1>4, <2>2
        <3>2. P[a + (i - a)] = funcs[i - a] /\ Q[a + (i - a)] = funcs[i - a]
            BY ONLY Zenon, <1>4, <1>5, <3>1
        <3> QED BY Zenon, <3>1, <3>2
    <2>3. CASE i > a + b
        <3>1. i - (a + b) \in 1..c /\ i - (a + b) \in 1..(c + 1) /\ a + b + (i - (a + b)) = i
            BY <1>4, <2>3
        <3>2. /\ P[a + b + (i - (a + b))] = to_do_list[i - (a + b)]
              /\ Q[a + b + (i - (a + b))] = to_do_list'[i - (a + b)]
              /\ to_do_list'[i - (a + b)] = to_do_list[i - (a + b)]
            BY ONLY Zenon, <1>3, <1>4, <1>5, <3>1
        <3> QED BY Zenon, <3>1, <3>2
    <2> QED BY <1>4, <2>1, <2>2, <2>3
<1>9. x.by = t /\ x.no = posted[t] + 1 /\ posted \in [Threads -> Nat]
    BY Zenon DEF TypeOK
<1>10. InOrder(P, posted)
    BY Zenon, OnceInOrderIs
<1>11. \A i \in 1..n : i < n + 1
    BY <1>6
<1> HIDE DEF P, Q, n, x
<1>12. InOrder(Q, [posted EXCEPT ![t] = @ + 1])
    <2>1. /\ \A i \in 1..n : i < n + 1 => Q[i].by = P[i].by /\ Q[i].no = P[i].no
          /\ \A i \in 1..n : ~(i < n + 1) => Q[i + 1].by = P[i].by /\ Q[i + 1].no = P[i].no
          /\ t # Loop => \A i \in 1..n : ~(i < n + 1) => P[i].by # t
          /\ Q[n + 1].by = t /\ Q[n + 1].no = posted[t] + 1
        BY Zenon, <1>7, <1>8, <1>9, <1>11
    <2>2. Inserted(P, Q, n, n + 1, t, posted[t] + 1)
        BY ONLY Zenon, <1>6, <2>1 DEF Inserted
    <2> QED BY ONLY Zenon, t \in Threads, <1>6, <1>9, <1>10, <2>2, InsertInOrder
<1> QED BY Zenon, <1>1, <1>12 DEF Q

\* Running the first of the swapped-out callbacks moves none of them.
LEMMA RunFirst ==
    ASSUME TypeOK, TypeOK', OnceInOrder, RunTask
    PROVE  InOrder(Pipeline', posted')
<1> DEFINE a == Len(ran)
           b == Len(funcs)
           c == Len(to_do_list)
           x == [by |-> Head(funcs).by, no |-> Head(funcs).no, on |-> Loop]
<1>1. /\ ran' = Append(ran, x) /\ funcs' = Tail(funcs) /\ funcs # <<>>
      /\ UNCHANGED <<to_do_list, posted>>
    BY Zenon DEF RunTask, RunNow
<1>2. ran \in Seq(RanTask) /\ funcs \in Seq(Task) /\ to_do_list \in Seq(Task)
    BY Zenon DEF TypeOK
<1>3. /\ Head(funcs) \in Task /\ Head(funcs) = funcs[1] /\ funcs' \in Seq(Task)
      /\ Len(funcs') = b - 1 /\ \A i \in 1..Len(funcs') : funcs'[i] = funcs[i + 1]
    BY <1>1, <1>2, HeadTailProperties
<1>4. x \in RanTask
    BY Zenon, <1>3, EventLoopAssumption DEF Task, RanTask
<1>5. /\ ran' \in Seq(RanTask) /\ Len(ran') = a + 1 /\ ran'[a + 1] = x
      /\ \A i \in 1..a : ran'[i] = ran[i]
    BY <1>1, <1>2, <1>4, AppendProperties
<1>6. /\ a \in Nat /\ b \in Nat /\ c \in Nat /\ DOMAIN Pipeline = 1..(a + b + c)
      /\ \A i \in 1..a : Pipeline[i] = ran[i]
      /\ \A i \in 1..b : Pipeline[a + i] = funcs[i]
      /\ \A i \in 1..c : Pipeline[a + b + i] = to_do_list[i]
    <2>1. IsBehind(Pipeline, ran, funcs, to_do_list)
        BY Zenon, <1>2, Behind DEF Pipeline
    <2> QED BY ONLY Zenon, <2>1 DEF IsBehind
<1>7. b > 0
    BY <1>1, <1>2, <1>6, EmptySeq
<1>8. /\ DOMAIN Pipeline' = 1..(Len(ran') + Len(funcs') + c)
      /\ \A i \in 1..Len(ran') : Pipeline'[i] = ran'[i]
      /\ \A i \in 1..Len(funcs') : Pipeline'[Len(ran') + i] = funcs'[i]
      /\ \A i \in 1..c : Pipeline'[Len(ran') + Len(funcs') + i] = to_do_list[i]
    <2>1. Pipeline' = ran' \o funcs' \o to_do_list
        BY Zenon, <1>1 DEF Pipeline
    <2>2. IsBehind(Pipeline', ran', funcs', to_do_list)
        BY ONLY Zenon, <1>2, <1>3, <1>5, <2>1, Behind
    <2> QED BY ONLY Zenon, <2>2 DEF IsBehind
<1> DEFINE P == Pipeline
           Q == Pipeline'
<1>9. x.by = Head(funcs).by /\ x.no = Head(funcs).no
    BY Zenon
<1> HIDE DEF a, b, c, x
<1>10. (a + 1) + (b - 1) + c = a + b + c
    BY <1>6
<1>11. DOMAIN Q = DOMAIN P
    BY Zenon, <1>3, <1>5, <1>6, <1>8, <1>10
<1>12. ASSUME NEW i \in 1..(a + b + c) PROVE Q[i].by = P[i].by /\ Q[i].no = P[i].no
    <2>1. CASE i <= a
        <3>1. i \in 1..a /\ i \in 1..(a + 1)
            BY <1>6, <2>1
        <3> QED BY Zenon, <1>5, <1>6, <1>8, <3>1
    <2>2. CASE i = a + 1
        <3>1. a + 1 \in 1..(a + 1) /\ 1 \in 1..b
            BY <1>6, <1>7
        <3>2. Q[i] = x /\ P[i] = funcs[1]
            BY Zenon, <1>5, <1>6, <1>8, <2>2, <3>1
        <3> QED BY Zenon, <1>3, <1>9, <3>2
    <2>3. CASE i > a + 1 /\ i <= a + b
        <3>1. /\ i - a \in 1..b /\ a + (i - a) = i
              /\ i - (a + 1) \in 1..(b - 1) /\ (a + 1) + (i - (a + 1)) = i
              /\ (i - (a + 1)) + 1 = i - a
            BY <1>6, <2>3
        <3>2. P[a + (i - a)] = funcs[i - a]
            BY ONLY Zenon, <1>6, <3>1
        <3>3. Q[(a + 1) + (i - (a + 1))] = funcs'[i - (a + 1)]
            BY ONLY Zenon, <1>3, <1>5, <1>8, <3>1
        <3>4. funcs'[i - (a + 1)] = funcs[(i - (a + 1)) + 1]
            BY ONLY Zenon, <1>3, <3>1
        <3> QED BY Zenon, <3>1, <3>2, <3>3, <3>4
    <2>4. CASE i > a + b
        <3>1. /\ i - (a + b) \in 1..c /\ a + b + (i - (a + b)) = i
              /\ (a + 1) + (b - 1) + (i - (a + b)) = i
            BY <1>6, <2>4
        <3>2. P[a + b + (i - (a + b))] = to_do_list[i - (a + b)]
            BY ONLY Zenon, <1>6, <3>1
        <3>3. Q[(a + 1) + (b - 1) + (i - (a + b))] = to_do_list[i - (a + b)]
            BY ONLY Zenon, <1>3, <1>5, <1>8, <3>1
        <3> QED BY Zenon, <3>1, <3>2, <3>3
    <2> QED BY <1>6, <2>1, <2>2, <2>3, <2>4
<1>13. InOrder(P, posted) /\ DOMAIN P = 1..(a + b + c)
    BY Zenon, <1>6, OnceInOrderIs
<1> HIDE DEF P, Q
<1>14. InOrder(Q, posted)
    BY ONLY Zenon, <1>11, <1>12, <1>13, KeepInOrder
<1> QED BY Zenon, <1>1, <1>14 DEF Q

\* No step loses, repeats or overtakes a callback.
LEMMA OnceInOrderInduction ==
    TypeOK /\ TypeOK' /\ TidKnown /\ OnceInOrder /\ [Next]_vars => OnceInOrder'
<1> SUFFICES ASSUME TypeOK, TypeOK', TidKnown, OnceInOrder, [Next]_vars PROVE OnceInOrder'
    BY Zenon
<1>1. QueuesInTurn /\ InOrder(Pipeline, posted)
    BY Zenon, OnceInOrderIs
<1>2. ASSUME QueuesInTurn', InOrder(Pipeline', posted') PROVE OnceInOrder'
    <2>1. EveryTaskOnce' <=>
            /\ \A t \in Threads : \A n \in 1..posted'[t] :
                  \E i \in DOMAIN Pipeline' : Pipeline'[i].by = t /\ Pipeline'[i].no = n
            /\ \A i, j \in DOMAIN Pipeline' :
                  Pipeline'[i].by = Pipeline'[j].by /\ Pipeline'[i].no = Pipeline'[j].no => i = j
        BY DEF EveryTaskOnce, SameTask
    <2> QED BY Zenon, <1>2, <2>1 DEF OnceInOrder, InOrder, Numbered, PostersInOrder
<1>3. ASSUME UNCHANGED <<ran, funcs, to_do_list, posted>>, QueuesInTurn' PROVE OnceInOrder'
    <2>1. Pipeline' = Pipeline
        BY Zenon, <1>3 DEF Pipeline
    <2> QED BY Zenon, <1>1, <1>2, <1>3, <2>1
<1>4. ASSUME NEW t \in Threads, CallInPlace(t) PROVE OnceInOrder'
    <2>1. InOrder(Pipeline', posted')
        BY Zenon, <1>4, RunInPlace
    <2>2. UNCHANGED <<pc, funcs, tid_, to_do_list>> /\ Strays' \subseteq Strays
        BY Zenon, <1>4 DEF CallInPlace, Strays, TypeOK
    <2>3. QueuesInTurn'
        BY Zenon, <1>1, <2>2 DEF QueuesInTurn
    <2> QED BY Zenon, <1>2, <2>1, <2>3
<1>4a. ASSUME NEW t \in Threads, Push(t) PROVE OnceInOrder'
    <2>1. InOrder(Pipeline', posted')
        BY Zenon, <1>4a, QueueLast
    <2>2. /\ UNCHANGED <<pc, funcs, tid_>> /\ Strays' \subseteq Strays
          /\ t \notin Strays /\ (pc = "new" => tid_ # t)
        BY Zenon, <1>4a DEF Push, Strays, TypeOK, TidKnown
    <2> DEFINE task == NextTask(t)
    <2>3. task \in Task /\ to_do_list \in Seq(Task) /\ task.by = t
        BY DEF Task, TypeOK, NextTask
    <2>4. to_do_list' = Append(to_do_list, task)
        BY Zenon, <1>4a DEF Push, add_to_do
    <2> HIDE DEF task
    <2>5. \A i \in DOMAIN to_do_list' :
             \/ i \in DOMAIN to_do_list /\ to_do_list'[i] = to_do_list[i]
             \/ to_do_list'[i] = task
        BY <2>3, <2>4, AppendProperties, LenProperties
    <2>6. QueuesInTurn'
        BY Zenon, <1>1, <2>2, <2>3, <2>5 DEF QueuesInTurn
    <2> QED BY Zenon, <1>2, <2>1, <2>6
<1>4b. ASSUME NEW t \in Threads, run_on_onwer_thread(t) PROVE OnceInOrder'
    <2>1. /\ UNCHANGED <<pc, tid_, ran, funcs, to_do_list, posted>>
          /\ \A u \in Strays' : u \in Strays \/ (u = t /\ tid_ = t /\ pc = "new")
        BY Zenon, <1>4b DEF run_on_onwer_thread, isInEpollLoop, Strays, TypeOK, TidKnown
    <2>2. pc = "new" => funcs = <<>> /\ DOMAIN funcs = {}
        BY <1>1 DEF QueuesInTurn
    <2>3. QueuesInTurn'
        BY Zenon, <1>1, <2>1, <2>2 DEF QueuesInTurn
    <2> QED BY Zenon, <1>3, <2>1, <2>3
<1>5. CASE SwapToDoList
    <2>1. /\ funcs = <<>> /\ funcs' = to_do_list /\ to_do_list' = <<>>
          /\ UNCHANGED <<ran, posted, calling>> /\ pc' = "task"
        BY Zenon, <1>1, <1>5 DEF SwapToDoList, QueuesInTurn
    <2>2. Pipeline' = Pipeline
        <3> DEFINE T == Task \cup RanTask
        <3>1. ran \in Seq(T) /\ to_do_list \in Seq(T)
            BY DEF TypeOK
        <3>2. ran \o to_do_list \in Seq(T)
            BY Zenon, <3>1, ConcatProperties
        <3>3. ran \o <<>> = ran /\ (ran \o to_do_list) \o <<>> = ran \o to_do_list
            BY Zenon, <3>1, <3>2, ConcatEmptySeq
        <3>4. Pipeline = ran \o <<>> \o to_do_list /\ Pipeline' = ran \o to_do_list \o <<>>
            BY Zenon, <2>1 DEF Pipeline
        <3> QED BY Zenon, <3>3, <3>4
    <2>3. QueuesInTurn'
        <3>1. Strays' = Strays /\ DOMAIN to_do_list' = {}
            BY <2>1 DEF Strays
        <3> QED BY Zenon, <1>1, <2>1, <3>1 DEF QueuesInTurn
    <2> QED BY Zenon, <1>1, <1>2, <2>1, <2>2, <2>3
<1>6. CASE RunTask
    <2>1. InOrder(Pipeline', posted')
        BY Zenon, <1>6, RunFirst
    <2>2. QueuesInTurn'
        <3>1. /\ UNCHANGED <<to_do_list, tid_, calling>> /\ pc = "task" /\ pc' = "in_task"
              /\ funcs \in Seq(Task) /\ funcs # <<>> /\ funcs' = Tail(funcs)
            BY Zenon, <1>6 DEF RunTask, TypeOK
        <3>2. \A i \in DOMAIN funcs' : i + 1 \in DOMAIN funcs /\ funcs'[i] = funcs[i + 1]
            BY <3>1, HeadTailProperties, LenProperties
        <3>3. Strays' = Strays
            BY Zenon, <3>1 DEF Strays
        <3> QED BY Zenon, <1>1, <3>1, <3>2, <3>3 DEF QueuesInTurn
    <2> QED BY Zenon, <1>2, <2>1, <2>2
<1>7. ASSUME NEW t \in Threads, wakeup_loop(t) \/ stop(t) PROVE OnceInOrder'
    <2>1. Strays' \subseteq Strays
        BY Zenon, <1>7 DEF wakeup_loop, stop, Strays, TypeOK
    <2> QED BY Zenon, <1>1, <1>3, <1>7, <2>1 DEF wakeup_loop, stop, QueuesInTurn
<1>8. CASE SpareWakeup \/ run \/ CheckStop
    BY Zenon, <1>1, <1>3, <1>8 DEF SpareWakeup, run, CheckStop, QueuesInTurn, Strays
<1>9. ASSUME NEW ready \in SUBSET Channels, poll(ready) PROVE OnceInOrder'
    BY Zenon, <1>1, <1>3, <1>9 DEF poll, QueuesInTurn, Strays
<1>10. CASE wakeup_callback \/ HandleEvent \/ EndOfEvent \/ EndOfDispatch
    BY Zenon, <1>1, <1>3, <1>10
        DEF wakeup_callback, HandleEvent, EndOfEvent, EndOfDispatch, QueuesInTurn, Strays
<1>11. CASE EndOfTask \/ EndOfTasks
    BY Zenon, <1>1, <1>3, <1>11 DEF EndOfTask, EndOfTasks, QueuesInTurn, Strays
<1>12. CASE UNCHANGED vars
    BY Zenon, <1>1, <1>3, <1>12 DEF vars, QueuesInTurn, Strays
<1> QED
    BY Zenon, <1>4, <1>5, <1>6, <1>7, <1>8, <1>9, <1>10, <1>11, <1>12, <1>4a, <1>4b
       DEF Next, UserStep, CallStep, LoopStep

\* The strengthening holds from the start on.
LEMMA OnceInOrderAlways == Spec => []OnceInOrder
<1>1. Init => OnceInOrder
    <2> SUFFICES ASSUME Init PROVE OnceInOrder
        BY Zenon
    <2>1. DOMAIN Pipeline = {}
        <3>1. <<>> \in Seq(Task) /\ <<>> \in Seq(RanTask) /\ Len(<<>>) = 0
            BY Zenon, EmptySeq
        <3>2. IsBehind(<<>> \o <<>> \o <<>>, <<>>, <<>>, <<>>)
            BY Zenon, <3>1, Behind
        <3>3. Pipeline = <<>> \o <<>> \o <<>>
            BY Zenon DEF Init, Pipeline
        <3> QED BY <3>1, <3>2, <3>3 DEF IsBehind
    <2>2. \A t \in Threads : 1..posted[t] = {}
        <3>1. \A t \in Threads : posted[t] = 0
            BY Zenon DEF Init
        <3>2. 1..0 = {}
            OBVIOUS
        <3> QED BY ONLY Zenon, <3>1, <3>2
    <2>3. InOrder(Pipeline, posted)
        BY Zenon, <2>1, <2>2 DEF InOrder
    <2>4. QueuesInTurn
        BY DEF Init, QueuesInTurn, Strays
    <2> QED BY Zenon, <2>3, <2>4, OnceInOrderIs
<1> QED
    BY <1>1, TypeCorrect, TidInvariant, OnceInOrderInduction, PTL DEF Spec

\* Each call of run_on_onwer_thread is run exactly once or still waits.
THEOREM CallbacksOnce == Spec => []EveryTaskOnce
<1>1. OnceInOrder => EveryTaskOnce
    BY Zenon DEF OnceInOrder
<1> QED BY <1>1, OnceInOrderAlways, PTL

\* The callbacks of a foreign thread run in the order it posted them, whichever of
\* them are run in place and whichever through the list.
THEOREM PostersKeepOrder == Spec => []PostersInOrder
<1>1. OnceInOrder => PostersInOrder
    BY Zenon DEF OnceInOrder
<1> QED BY <1>1, OnceInOrderAlways, PTL

-----------------------------------------------------------------------------
(* The write loop.                                                         *)

\* The places of message m on a wire W.
PlacesOf(W, m) == {i \in DOMAIN W : W[i][1] = m}

\* A message under way is the last one, and was not empty.
LoopSound ==
    /\ Len(lens) <= MaxMsgs
    /\ \A m \in DOMAIN lens : lens[m] > 0
    /\ send_left > 0 =>
          /\ Len(lens) > 0
          /\ send_bytes = lens[Len(lens)]
          /\ send_left <= send_bytes

\* The write puts a beginning of the message behind what is on the wire.
Extended(W, V, m, w) ==
    /\ DOMAIN V = 1..(Len(W) + w)
    /\ \A i \in 1..Len(W) : V[i] = W[i]
    /\ \A i \in 1..w : V[Len(W) + i] = <<m, i>>

\* Bytes behind bytes, whichever are joined first.
LEMMA Joined ==
    \A a, b, c \in Seq(Byte) : (a \o b) \o c = a \o (b \o c)
<1> TAKE a, b, c \in Seq(Byte)
<1> HIDE DEF Byte
<1> QED BY ConcatAssociative

\* What one write does to the wire.
LEMMA WriteExtends ==
    ASSUME StreamTypeOK, LoopSound, WriteNonBlocking
    PROVE  \E w \in 1..send_bytes :
              /\ Extended(OnTheWire, OnTheWire', Len(lens), w)
              /\ send_left' = (IF w < send_left THEN send_left - w ELSE 0)
              /\ unread' \in Seq(Byte)
              /\ UNCHANGED <<state, lens, send_bytes, peer, got>>
<1> DEFINE free == Capacity - Len(unread)
           w == IF send_bytes <= free THEN send_bytes ELSE free
           m == Len(lens)
<1>1. /\ unread \in Seq(Byte) /\ got \in Seq(Byte) /\ Len(unread) \in Nat
      /\ send_bytes \in 0..MaxLen /\ m \in Nat /\ send_left \in Nat
    BY StreamAssumption, LenProperties DEF StreamTypeOK
<1>2. /\ send_left > 0 /\ free > 0 /\ unread' = unread \o Written(w)
      /\ send_left' = Less(send_left, w)
      /\ UNCHANGED <<state, lens, send_bytes, peer, got>>
    BY Zenon DEF WriteNonBlocking
<1>3. send_bytes > 0 /\ m \in 1..MaxMsgs
    BY <1>1, <1>2, StreamAssumption DEF LoopSound
<1>4. w \in 1..send_bytes /\ w \in 1..MaxLen
    BY <1>1, <1>2, <1>3, StreamAssumption
<1> HIDE DEF free, w
<1>5. /\ Written(w) \in Seq(Byte) /\ Len(Written(w)) = w
      /\ \A i \in 1..w : Written(w)[i] = <<m, i>>
    <2>1. \A i \in 1..w : <<m, i>> \in Byte
        BY <1>3, <1>4, StreamAssumption DEF Byte
    <2>2. Written(w) = [i \in 1..w |-> <<m, i>>]
        BY Zenon DEF Written
    <2>3. w \in Nat
        BY <1>1, <1>4
    <2> QED BY <2>1, <2>2, <2>3
<1>6. /\ unread \o Written(w) \in Seq(Byte)
      /\ got \o unread \in Seq(Byte)
      /\ got \o (unread \o Written(w)) = (got \o unread) \o Written(w)
    <2>1. unread \o Written(w) \in Seq(Byte) /\ got \o unread \in Seq(Byte)
        BY Zenon, <1>1, <1>5, ConcatProperties
    <2>2. got \o (unread \o Written(w)) = (got \o unread) \o Written(w)
        <3>1. got \in Seq(Byte) /\ unread \in Seq(Byte) /\ Written(w) \in Seq(Byte)
            BY Zenon, <1>1, <1>5
        <3> QED BY ONLY Zenon, <3>1, Joined
    <2> QED BY Zenon, <2>1, <2>2
<1>7. OnTheWire' = OnTheWire \o Written(w) /\ OnTheWire \in Seq(Byte)
    BY Zenon, <1>2, <1>6 DEF OnTheWire
<1>8. Extended(OnTheWire, OnTheWire', m, w)
    <2> DEFINE W == OnTheWire
               V == OnTheWire \o Written(w)
    <2>1. /\ V \in Seq(Byte) /\ Len(V) = Len(W) + w
          /\ \A i \in 1..(Len(W) + w) :
                V[i] = IF i <= Len(W) THEN W[i] ELSE Written(w)[i - Len(W)]
        BY ZenonT(40), <1>5, <1>7, ConcatProperties
    <2>2. Len(W) \in Nat /\ w \in Nat /\ DOMAIN V = 1..Len(V)
        BY <1>1, <1>4, <1>7, <2>1, LenProperties
    <2> HIDE DEF W, V
    <2>3. \A i \in 1..Len(W) : V[i] = W[i]
        BY <2>1, <2>2
    <2>4. \A i \in 1..w : V[Len(W) + i] = <<m, i>>
        <3> TAKE i \in 1..w
        <3>1. /\ Len(W) + i \in 1..(Len(W) + w) /\ ~(Len(W) + i <= Len(W))
              /\ Len(W) + i - Len(W) = i
            BY <2>2
        <3>2. V[Len(W) + i] = Written(w)[Len(W) + i - Len(W)]
            BY ONLY <2>1, <3>1
        <3> QED BY ONLY Zenon, <1>5, <3>1, <3>2, i \in 1..w
    <2>5. OnTheWire' = V /\ OnTheWire = W
        BY Zenon, <1>7 DEF V, W
    <2> QED BY Zenon, <2>1, <2>2, <2>3, <2>4, <2>5 DEF Extended
<1> QED BY Zenon, <1>2, <1>4, <1>6, <1>8 DEF Less

\* Type correctness and the loop's own numbers, under every step.
LEMMA LoopInduction ==
    StreamTypeOK /\ LoopSound /\ [StreamNext]_streamVars => StreamTypeOK' /\ LoopSound'
<1> SUFFICES ASSUME StreamTypeOK, LoopSound, [StreamNext]_streamVars PROVE StreamTypeOK' /\ LoopSound'
    BY Zenon
<1> USE StreamAssumption
<1>1. ASSUME NEW n \in 1..MaxLen, Send(n) PROVE StreamTypeOK' /\ LoopSound'
    <2>1. /\ lens' \in Seq(0..MaxLen) /\ Len(lens') = Len(lens) + 1
          /\ lens'[Len(lens) + 1] = n /\ \A i \in 1..Len(lens) : lens'[i] = lens[i]
          /\ Len(lens) \in Nat /\ DOMAIN lens = 1..Len(lens)
          /\ DOMAIN lens' = 1..(Len(lens) + 1)
        <3>1. n \in 0..MaxLen /\ lens \in Seq(0..MaxLen) /\ lens' = Append(lens, n)
            BY <1>1 DEF Send, StreamTypeOK
        <3> QED BY <3>1, AppendProperties, LenProperties
    <2>2. StreamTypeOK'
        BY <1>1, <2>1 DEF StreamTypeOK, Send
    <2>3. Len(lens') <= MaxMsgs
        BY <1>1, <2>1 DEF Send
    <2>4. \A m \in DOMAIN lens' : lens'[m] > 0
        BY <2>1 DEF LoopSound
    <2>5. send_bytes' = n /\ send_left' = n
        BY Zenon, <1>1 DEF Send
    <2> QED BY <2>1, <2>2, <2>3, <2>4, <2>5 DEF LoopSound
<1>2. CASE WriteNonBlocking
    <2>1. PICK w \in 1..send_bytes :
              /\ send_left' = (IF w < send_left THEN send_left - w ELSE 0)
              /\ unread' \in Seq(Byte)
              /\ UNCHANGED <<state, lens, send_bytes, peer, got>>
        BY Zenon, <1>2, WriteExtends
    <2>2. send_left \in 0..MaxLen /\ send_bytes \in 0..MaxLen /\ w \in Nat
        BY DEF StreamTypeOK
    <2>3. send_left' \in 0..MaxLen /\ send_left' <= send_left /\ send_left' \in Nat
        BY <2>1, <2>2
    <2> QED BY <2>1, <2>2, <2>3 DEF StreamTypeOK, LoopSound
<1>3. CASE WouldBlock \/ WriteFails
    BY <1>3 DEF WouldBlock, WriteFails, StreamTypeOK, LoopSound
<1>4. CASE PeerReads
    <2>1. Head(unread) \in Byte /\ Tail(unread) \in Seq(Byte)
        BY Zenon, <1>4, HeadTailProperties DEF PeerReads, StreamTypeOK
    <2>2. got' \in Seq(Byte)
        BY Zenon, <1>4, <2>1, AppendProperties DEF PeerReads, StreamTypeOK
    <2> QED BY Zenon, <1>4, <2>1, <2>2 DEF PeerReads, StreamTypeOK, LoopSound
<1>5. CASE PeerLeaves
    BY Zenon, <1>5, EmptySeq DEF PeerLeaves, StreamTypeOK, LoopSound
<1>6. CASE UNCHANGED streamVars
    BY Zenon, <1>6 DEF streamVars, StreamTypeOK, LoopSound
<1> QED BY Zenon, <1>1, <1>2, <1>3, <1>4, <1>5, <1>6 DEF StreamNext, WriteLoop

\* Every reachable state of the write loop is well typed.
THEOREM StreamTyped == StreamSpec => [](StreamTypeOK /\ LoopSound)
<1>1. StreamInit => StreamTypeOK /\ LoopSound
    <2>1. /\ <<>> \in Seq(Byte) /\ <<>> \in Seq(0..MaxLen) /\ Len(<<>>) = 0
          /\ DOMAIN <<>> = {}
        BY EmptySeq
    <2> QED BY <2>1, StreamAssumption DEF StreamInit, StreamTypeOK, LoopSound
<1> QED BY <1>1, LoopInduction, PTL DEF StreamSpec

\* A byte the peer reads stays on the wire; a peer that leaves cuts the wire.
LEMMA PeerKeepsOrder ==
    ASSUME StreamTypeOK, PeerReads \/ PeerLeaves
    PROVE  /\ OnTheWire \in Seq(Byte) /\ OnTheWire' \in Seq(Byte)
           /\ Len(OnTheWire') <= Len(OnTheWire)
           /\ \A i \in 1..Len(OnTheWire') : OnTheWire'[i] = OnTheWire[i]
<1>1. unread \in Seq(Byte) /\ got \in Seq(Byte)
    BY Zenon DEF StreamTypeOK
<1>2. /\ OnTheWire \in Seq(Byte) /\ Len(OnTheWire) = Len(got) + Len(unread)
      /\ \A i \in 1..(Len(got) + Len(unread)) :
            OnTheWire[i] = IF i <= Len(got) THEN got[i] ELSE unread[i - Len(got)]
    BY Zenon, <1>1, ConcatProperties DEF OnTheWire
<1>3. Len(got) \in Nat /\ Len(unread) \in Nat
    BY Zenon, <1>1, LenProperties
<1>4. CASE PeerReads
    <2>1. unread = <<Head(unread)>> \o Tail(unread)
        BY <1>1, <1>4, HeadTailAppend DEF PeerReads
    <2>2. /\ Head(unread) \in Byte /\ Tail(unread) \in Seq(Byte)
        BY Zenon, <1>1, <1>4, HeadTailProperties DEF PeerReads
    <2>3. <<Head(unread)>> \in Seq(Byte) /\ got' = got \o <<Head(unread)>>
        BY <1>1, <1>4, <2>2, AppendIsConcat DEF PeerReads
    <2>4. OnTheWire' = (got \o <<Head(unread)>>) \o Tail(unread)
        BY Zenon, <1>4, <2>3 DEF PeerReads, OnTheWire
    <2>5. OnTheWire' = OnTheWire
        <3>1. OnTheWire' = got \o (<<Head(unread)>> \o Tail(unread))
            <4>1. (got \o <<Head(unread)>>) \o Tail(unread)
                      = got \o (<<Head(unread)>> \o Tail(unread))
                BY ONLY <1>1, <2>2, <2>3, Joined
            <4> QED BY ONLY Zenon, <2>4, <4>1
        <3> QED BY ONLY Zenon, <2>1, <3>1 DEF OnTheWire
    <2> QED BY <1>2, <1>3, <2>5
<1>5. CASE PeerLeaves
    <2>1. OnTheWire' = got
        BY Zenon, <1>1, <1>5, ConcatEmptySeq DEF PeerLeaves, OnTheWire
    <2> QED BY <1>1, <1>2, <1>3, <2>1
<1> QED BY Zenon, <1>4, <1>5

-----------------------------------------------------------------------------

\* What is on the wire, and what the loop has put there of its message.
WireSound ==
    /\ \A i \in DOMAIN OnTheWire : OnTheWire[i][1] <= Len(lens)
    /\ RunsFromStart
    /\ RepeatBound
    /\ send_left > 0 =>
          Cardinality(PlacesOf(OnTheWire, Len(lens))) + send_left <= send_bytes

\* The places of a message are finitely many.
LEMMA PlacesFinite ==
    ASSUME NEW W \in Seq(Byte), NEW m
    PROVE  IsFiniteSet(PlacesOf(W, m)) /\ Cardinality(PlacesOf(W, m)) \in Nat
<1>1. IsFiniteSet(1..Len(W))
    BY LenProperties, FS_Interval
<1>2. PlacesOf(W, m) \subseteq 1..Len(W)
    BY Zenon, LenProperties DEF PlacesOf
<1>3. IsFiniteSet(PlacesOf(W, m))
    BY ONLY Zenon, <1>1, <1>2, FS_Subset
<1> QED BY Zenon, <1>3, FS_CardinalityType

\* A wire cut short has no more places of a message.
LEMMA CutPlaces ==
    ASSUME NEW W \in Seq(Byte), NEW V \in Seq(Byte), NEW m, Len(V) <= Len(W),
           \A i \in 1..Len(V) : V[i] = W[i]
    PROVE  Cardinality(PlacesOf(V, m)) <= Cardinality(PlacesOf(W, m))
<1>1. PlacesOf(V, m) \subseteq PlacesOf(W, m)
    BY LenProperties DEF PlacesOf
<1>2. IsFiniteSet(PlacesOf(W, m))
    BY Zenon, PlacesFinite
<1> QED BY ONLY Zenon, <1>1, <1>2, FS_Subset

\* A write of w bytes adds w places to its own message and none to another.
LEMMA WritePlaces ==
    ASSUME NEW W \in Seq(Byte), NEW V, NEW m \in Nat, NEW w \in Nat,
           Extended(W, V, m, w)
    PROVE  /\ Cardinality(PlacesOf(V, m)) <= Cardinality(PlacesOf(W, m)) + w
           /\ \A k \in Nat \ {m} : PlacesOf(V, k) = PlacesOf(W, k)
<1> DEFINE n == Len(W)
           new == (n + 1)..(n + w)
<1>1. n \in Nat /\ DOMAIN W = 1..n
    BY Zenon, LenProperties
<1>2. /\ DOMAIN V = 1..(n + w) /\ \A i \in 1..n : V[i] = W[i]
      /\ \A i \in new : V[i][1] = m
    <2>1. ASSUME NEW i \in new PROVE V[i][1] = m
        <3>1. i - n \in 1..w /\ n + (i - n) = i
            BY <1>1, <2>1
        <3>2. V[n + (i - n)] = <<m, i - n>>
            BY ONLY Zenon, <3>1, Extended(W, V, m, w) DEF Extended
        <3> QED BY <3>1, <3>2
    <2> QED BY Zenon, <2>1 DEF Extended
<1>3. PlacesOf(V, m) = PlacesOf(W, m) \cup new
    <2>1. \A i : i \in 1..(n + w) <=> i \in 1..n \/ i \in new
        BY <1>1
    <2> HIDE DEF new, n
    <2> QED BY Zenon, <1>1, <1>2, <2>1 DEF PlacesOf
<1>4. ASSUME NEW k \in Nat \ {m} PROVE PlacesOf(V, k) = PlacesOf(W, k)
    <2>1. \A i : i \in 1..(n + w) <=> i \in 1..n \/ i \in new
        BY <1>1
    <2> HIDE DEF new, n
    <2> QED BY <1>1, <1>2, <1>4, <2>1 DEF PlacesOf
<1>5. IsFiniteSet(new) /\ Cardinality(new) = w
    <2>1. n + 1 \in Int /\ n + w \in Int
        BY <1>1
    <2>2. IsFiniteSet(new) /\ Cardinality(new) = IF n + 1 > n + w THEN 0 ELSE (n + w) - (n + 1) + 1
        BY Zenon, <2>1, FS_Interval
    <2> QED BY <1>1, <2>2
<1>6. IsFiniteSet(PlacesOf(W, m)) /\ Cardinality(PlacesOf(W, m)) \in Nat
    BY Zenon, PlacesFinite
<1>7. Cardinality(PlacesOf(W, m) \cup new)
          = Cardinality(PlacesOf(W, m)) + Cardinality(new)
              - Cardinality(PlacesOf(W, m) \cap new)
    BY ONLY Zenon, <1>5, <1>6, FS_Union
<1>8. PlacesOf(W, m) \cap new = {}
    BY <1>1 DEF PlacesOf
<1>9. Cardinality({}) = 0
    BY Zenon, FS_EmptySet
<1> HIDE DEF new, n
<1>10. Cardinality(PlacesOf(V, m)) = Cardinality(PlacesOf(W, m)) + w - 0
    BY ONLY Zenon, <1>3, <1>5, <1>7, <1>8, <1>9
<1>11. Cardinality(PlacesOf(V, m)) <= Cardinality(PlacesOf(W, m)) + w
    BY ONLY <1>6, <1>10, w \in Nat
<1> QED BY ONLY Zenon, <1>4, <1>11

\* A write goes on from nothing: its bytes are a run of their own.
LEMMA WriteRuns ==
    ASSUME StreamTypeOK, WireSound, NEW w \in Nat,
           Extended(OnTheWire, OnTheWire', Len(lens), w), UNCHANGED lens
    PROVE  /\ RunsFromStart'
           /\ \A i \in DOMAIN OnTheWire' : OnTheWire'[i][1] <= Len(lens)
<1> DEFINE W == OnTheWire
           V == OnTheWire'
           n == Len(W)
           m == Len(lens)
<1>1. W \in Seq(Byte)
    BY Zenon, ConcatProperties DEF StreamTypeOK, OnTheWire
<1>2. n \in Nat /\ DOMAIN W = 1..n /\ m \in Nat
    BY Zenon, <1>1, LenProperties DEF StreamTypeOK
<1>3. /\ DOMAIN V = 1..(n + w) /\ \A i \in 1..n : V[i] = W[i]
      /\ \A i \in 1..w : V[n + i] = <<m, i>>
    BY Zenon DEF Extended
<1>4. \A i \in 1..n : /\ W[i][1] <= m
                      /\ \/ W[i][2] = 1 /\ (i > 1 => W[i - 1][1] <= W[i][1])
                         \/ i > 1 /\ W[i] = <<W[i - 1][1], W[i - 1][2] + 1>>
    BY Zenon, <1>2 DEF WireSound, RunsFromStart
<1> HIDE DEF W, V, n, m
<1>5. \A i \in DOMAIN V : i \in 1..n \/ \E j \in 1..w : i = n + j
    <2> SUFFICES ASSUME NEW i \in 1..(n + w), i \notin 1..n
                 PROVE  \E j \in 1..w : i = n + j
        BY Zenon, <1>3
    <2>1. i - n \in 1..w /\ i = n + (i - n)
        BY <1>2
    <2> QED BY Zenon, <2>1
<1>6. ASSUME NEW i \in 1..n
      PROVE  /\ V[i][1] <= m
             /\ \/ V[i][2] = 1 /\ (i > 1 => V[i - 1][1] <= V[i][1])
                \/ i > 1 /\ V[i] = <<V[i - 1][1], V[i - 1][2] + 1>>
    <2>1. V[i] = W[i] /\ (i > 1 => V[i - 1] = W[i - 1])
        BY <1>2, <1>3
    <2> QED BY Zenon, <1>4, <2>1
<1>7. ASSUME NEW j \in 1..w
      PROVE  LET i == n + j
             IN  /\ V[i][1] <= m
                 /\ \/ V[i][2] = 1 /\ (i > 1 => V[i - 1][1] <= V[i][1])
                    \/ i > 1 /\ V[i] = <<V[i - 1][1], V[i - 1][2] + 1>>
    <2> DEFINE i == n + j
    <2>1. V[i] = <<m, j>>
        BY ONLY Zenon, <1>3, j \in 1..w
    <2>2. V[i][1] = m /\ V[i][2] = j
        BY ONLY <2>1
    <2>3. m <= m /\ i > 0 /\ i \in Nat
        BY ONLY <1>2, j \in 1..w, w \in Nat
    <2>4. CASE j = 1
        <3>1. i > 1 => i - 1 \in 1..n
            BY <1>2, <2>4
        <3> HIDE DEF i
        <3>2. i > 1 => V[i - 1][1] <= m
            BY ONLY Zenon, <1>6, <3>1
        <3> QED BY ONLY Zenon, <2>2, <2>3, <2>4, <3>2 DEF i
    <2>5. CASE j # 1
        <3>1. j - 1 \in 1..w /\ i - 1 = n + (j - 1) /\ i > 1 /\ j - 1 + 1 = j
            BY <1>2, <2>5
        <3> HIDE DEF i
        <3>2. V[i - 1] = <<m, j - 1>>
            BY ONLY Zenon, <1>3, <3>1
        <3>3. V[i - 1][1] = m /\ V[i - 1][2] = j - 1
            BY ONLY <3>2
        <3>4. V[i] = <<V[i - 1][1], V[i - 1][2] + 1>>
            BY ONLY Zenon, <2>1, <3>1, <3>3
        <3> QED BY ONLY Zenon, <2>2, <2>3, <3>1, <3>4 DEF i
    <2> QED BY ONLY Zenon, <2>4, <2>5
<1>8. \A i \in DOMAIN V : /\ V[i][1] <= m
                          /\ \/ V[i][2] = 1 /\ (i > 1 => V[i - 1][1] <= V[i][1])
                             \/ i > 1 /\ V[i] = <<V[i - 1][1], V[i - 1][2] + 1>>
    BY ZenonT(40), <1>5, <1>6, <1>7
<1> QED BY Zenon, <1>8 DEF V, m, RunsFromStart

\* The wire stays sound under every step of the loop and of the peer.
LEMMA WireInduction ==
    StreamTypeOK /\ LoopSound /\ WireSound /\ [StreamNext]_streamVars => WireSound'
<1> SUFFICES ASSUME StreamTypeOK, LoopSound, WireSound, [StreamNext]_streamVars PROVE WireSound'
    BY Zenon
<1> DEFINE W == OnTheWire
           m == Len(lens)
<1>1. W \in Seq(Byte) /\ m \in Nat /\ DOMAIN W = 1..Len(W) /\ Len(W) \in Nat
    <2>1. W \in Seq(Byte)
        BY Zenon, ConcatProperties DEF StreamTypeOK, OnTheWire
    <2> QED BY Zenon, <2>1, LenProperties DEF StreamTypeOK
<1>2. /\ \A k : Cardinality(PlacesOf(W, k)) \in Nat
      /\ \A k \in DOMAIN lens : Cardinality(PlacesOf(W, k)) < 2 * lens[k]
      /\ \A k \in DOMAIN lens : lens[k] \in Nat /\ lens[k] > 0
      /\ DOMAIN lens = 1..m
    <2>1. \A k : Cardinality(PlacesOf(W, k)) \in Nat
        BY Zenon, <1>1, PlacesFinite
    <2>2. \A k \in DOMAIN lens : Cardinality(PlacesOf(W, k)) < 2 * lens[k]
        BY Zenon DEF WireSound, RepeatBound, PlacesOf
    <2>3. DOMAIN lens = 1..m /\ \A k \in DOMAIN lens : lens[k] \in Nat
        BY StreamAssumption, LenProperties, ElementOfSeq DEF StreamTypeOK
    <2> QED BY Zenon, <2>1, <2>2, <2>3 DEF LoopSound
<1>3. ASSUME NEW n \in 1..MaxLen, Send(n) PROVE WireSound'
    <2>1. /\ lens' = Append(lens, n) /\ send_left' = n /\ send_bytes' = n
          /\ OnTheWire' = OnTheWire /\ n \in Nat /\ n > 0
        BY <1>3, StreamAssumption DEF Send, OnTheWire
    <2>2. /\ Len(lens') = m + 1 /\ DOMAIN lens' = 1..(m + 1)
          /\ lens'[m + 1] = n /\ \A i \in 1..m : lens'[i] = lens[i]
        <3>1. n \in 0..MaxLen /\ lens \in Seq(0..MaxLen)
            BY StreamAssumption DEF StreamTypeOK
        <3> QED BY <2>1, <3>1, AppendProperties, LenProperties
    <2>3. \A i \in DOMAIN W : W[i][1] <= m /\ W[i][1] \in Nat
        <3>1. \A i \in 1..Len(W) : W[i] \in Byte
            BY Zenon, <1>1, ElementOfSeq
        <3> QED BY <1>1, <3>1, StreamAssumption DEF WireSound, Byte
    <2>4. PlacesOf(W, m + 1) = {}
        BY <1>1, <2>3 DEF PlacesOf
    <2>5. Cardinality(PlacesOf(W, m + 1)) = 0
        BY Zenon, <2>4, FS_EmptySet
    <2>6. \A k \in DOMAIN lens' : Cardinality(PlacesOf(W, k)) < 2 * lens'[k]
        <3> TAKE k \in DOMAIN lens'
        <3>1. CASE k = m + 1
            BY ONLY <2>1, <2>2, <2>5, <3>1
        <3>2. CASE k \in 1..m
            BY ONLY Zenon, <1>2, <2>2, <3>2
        <3> QED BY <1>1, <2>2, <3>1, <3>2
    <2>7. RepeatBound'
        BY Zenon, <2>1, <2>6 DEF RepeatBound, PlacesOf
    <2>8. RunsFromStart'
        BY Zenon, <2>1 DEF WireSound, RunsFromStart
    <2>9. \A i \in DOMAIN W : W[i][1] <= m + 1
        BY <1>1, <2>3
    <2>10. Cardinality(PlacesOf(W, m + 1)) + n <= n
        BY <2>1, <2>5
    <2> HIDE DEF m
    <2> QED BY Zenon, <2>1, <2>2, <2>7, <2>8, <2>9, <2>10 DEF WireSound
<1>4. CASE WriteNonBlocking
    <2>1. PICK w \in 1..send_bytes :
              /\ Extended(OnTheWire, OnTheWire', Len(lens), w)
              /\ send_left' = (IF w < send_left THEN send_left - w ELSE 0)
              /\ UNCHANGED <<state, lens, send_bytes, peer, got>>
        BY Zenon, <1>4, WriteExtends
    <2>2. /\ w \in Nat /\ send_left \in Nat /\ send_bytes \in Nat /\ w <= send_bytes
          /\ send_left > 0 /\ m \in DOMAIN lens /\ send_bytes = lens[m]
        BY <1>1, <1>2, <1>4, StreamAssumption DEF StreamTypeOK, LoopSound, WriteNonBlocking
    <2> DEFINE V == OnTheWire'
    <2>3. /\ Cardinality(PlacesOf(V, m)) <= Cardinality(PlacesOf(W, m)) + w
          /\ \A k \in Nat \ {m} : PlacesOf(V, k) = PlacesOf(W, k)
        <3> HIDE DEF V
        <3>1. Extended(W, V, m, w)
            BY Zenon, <2>1 DEF V
        <3> HIDE DEF W, m
        <3> QED BY Zenon, <1>1, <2>2, <3>1, WritePlaces
    <2>4. Cardinality(PlacesOf(W, m)) + send_left <= send_bytes
        BY Zenon, <2>2 DEF WireSound
    <2>5. Cardinality(PlacesOf(V, m)) \in Nat
        <3>1. V \in Seq(Byte)
            BY Zenon, <1>4, LoopInduction, ConcatProperties DEF StreamTypeOK, OnTheWire
        <3> HIDE DEF V
        <3> QED BY Zenon, <3>1, PlacesFinite
    <2> DEFINE c == Cardinality(PlacesOf(W, m))
               d == Cardinality(PlacesOf(V, m))
    <2>6. /\ c \in Nat /\ d \in Nat /\ d <= c + w /\ c + send_left <= send_bytes
        BY Zenon, <1>2, <2>3, <2>4, <2>5
    <2> HIDE DEF c, d
    <2>7. d < 2 * send_bytes
        BY ONLY <2>2, <2>6
    <2>8. send_left' > 0 => d + send_left' <= send_bytes
        BY ONLY <2>1, <2>2, <2>6
    <2>9. \A k \in DOMAIN lens : Cardinality(PlacesOf(V, k)) < 2 * lens[k]
        <3> HIDE DEF V, W, m
        <3> TAKE k \in DOMAIN lens
        <3>1. CASE k = m
            BY Zenon, <2>2, <2>7, <3>1 DEF d
        <3>2. CASE k # m
            <4>1. k \in Nat \ {m}
                BY <1>1, <1>2, <3>2
            <4> QED BY ONLY Zenon, <1>2, <2>3, <4>1, k \in DOMAIN lens
        <3> QED BY Zenon, <3>1, <3>2
    <2>10. RepeatBound'
        BY Zenon, <2>1, <2>9 DEF RepeatBound, PlacesOf
    <2>11. /\ RunsFromStart'
           /\ \A i \in DOMAIN OnTheWire' : OnTheWire'[i][1] <= Len(lens)
        BY Zenon, <2>1, <2>2, WriteRuns
    <2>12. lens' = lens /\ send_bytes' = send_bytes
        BY Zenon, <2>1
    <2>13. send_left' > 0 => Cardinality(PlacesOf(OnTheWire', Len(lens'))) + send_left' <= send_bytes'
        BY ONLY Zenon, <2>8, <2>12 DEF d, V, m
    <2> QED BY ONLY Zenon, <2>10, <2>11, <2>12, <2>13 DEF WireSound
<1>5. CASE WouldBlock \/ WriteFails
    <2>1. OnTheWire' = OnTheWire /\ lens' = lens /\ send_left' = 0
        BY Zenon, <1>5 DEF WouldBlock, WriteFails, OnTheWire
    <2> QED BY <2>1 DEF WireSound, RunsFromStart, RepeatBound
<1>6. CASE PeerReads \/ PeerLeaves
    <2> DEFINE V == OnTheWire'
    <2>1. /\ V \in Seq(Byte) /\ Len(V) <= Len(W)
          /\ \A i \in 1..Len(V) : V[i] = W[i]
          /\ UNCHANGED <<lens, send_bytes, send_left>>
        BY Zenon, <1>6, PeerKeepsOrder DEF PeerReads, PeerLeaves
    <2>2. DOMAIN V = 1..Len(V) /\ Len(V) \in Nat
        <3> HIDE DEF V
        <3> QED BY Zenon, <2>1, LenProperties
    <2>3. \A k : /\ Cardinality(PlacesOf(V, k)) <= Cardinality(PlacesOf(W, k))
                 /\ Cardinality(PlacesOf(V, k)) \in Nat
        <3> HIDE DEF V, W
        <3> QED BY Zenon, <1>1, <2>1, CutPlaces, PlacesFinite
    <2>4. /\ \A k \in DOMAIN lens : Cardinality(PlacesOf(V, k)) < 2 * lens[k]
          /\ send_left > 0 => Cardinality(PlacesOf(V, m)) + send_left <= send_bytes
        <3>1. /\ send_left > 0 => Cardinality(PlacesOf(W, m)) + send_left <= send_bytes
              /\ send_left \in Nat /\ send_bytes \in Nat
            BY StreamAssumption DEF WireSound, StreamTypeOK
        <3> HIDE DEF V, W, m
        <3> QED BY <1>2, <2>3, <3>1
    <2>5. RunsFromStart' /\ \A i \in DOMAIN V : V[i][1] <= m
        <3>1. \A i \in DOMAIN V : /\ i \in DOMAIN W /\ V[i] = W[i]
                                  /\ i > 1 => V[i - 1] = W[i - 1]
            <4> HIDE DEF V, W
            <4> QED BY <1>1, <2>1, <2>2
        <3> QED BY ZenonT(40), <3>1 DEF WireSound, RunsFromStart
    <2>6. RepeatBound'
        BY Zenon, <2>1, <2>4 DEF RepeatBound, PlacesOf
    <2> QED BY Zenon, <2>1, <2>4, <2>5, <2>6 DEF WireSound
<1>7. CASE UNCHANGED streamVars
    <2>1. OnTheWire' = OnTheWire /\ UNCHANGED <<lens, send_left, send_bytes>>
        BY Zenon, <1>7 DEF streamVars, OnTheWire
    <2> QED BY Zenon, <2>1 DEF WireSound, RunsFromStart, RepeatBound
<1> QED BY Zenon, <1>3, <1>4, <1>5, <1>6, <1>7 DEF StreamNext, WriteLoop

\* The wire is sound in every reachable state.
LEMMA WireInvariant == StreamSpec => []WireSound
<1>1. StreamInit => WireSound
    <2> SUFFICES ASSUME StreamInit PROVE WireSound
        BY Zenon
    <2>1. OnTheWire = <<>> /\ lens = <<>> /\ send_left = 0
        <3>1. <<>> \in Seq(Byte)
            BY Zenon, EmptySeq
        <3> QED BY Zenon, <3>1, ConcatEmptySeq DEF StreamInit, OnTheWire
    <2>2. DOMAIN <<>> = {}
        OBVIOUS
    <2> QED BY <2>1, <2>2 DEF WireSound, RunsFromStart, RepeatBound
<1> QED BY <1>1, WireInduction, StreamTyped, PTL DEF StreamSpec

\* Messages never mix or overtake each other on the wire, whatever write()
\* takes, wherever EAGAIN ends the loop and whenever the peer reads.
THEOREM MessagesNeverMix == StreamSpec => []RunsFromStart
<1>1. WireSound => RunsFromStart
    BY Zenon DEF WireSound
<1> QED BY <1>1, WireInvariant, PTL

\* A call of Send puts less than twice its message on the wire.
THEOREM RepeatsBounded == StreamSpec => []RepeatBound
<1>1. WireSound => RepeatBound
    BY Zenon DEF WireSound
<1> QED BY <1>1, WireInvariant, PTL

=============================================================================
