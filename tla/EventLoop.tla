------------------------------ MODULE EventLoop ------------------------------
(***************************************************************************)
(* The reactor of network/EventLoop.cpp: one thread sits in run() and       *)
(* dispatches epoll events; any thread hands it work through                *)
(* run_on_onwer_thread(), which runs the callback at once on the loop's own *)
(* thread and otherwise pushes it on to_do_list and writes the eventfd.     *)
(*                                                                          *)
(* The steps are the ones another thread can observe: a caller's test of    *)
(* tid_, the callback or the push it decides on, and the eventfd write are  *)
(* steps of their own; so are run()'s store of tid_, the eventfd read, the  *)
(* swap of to_do_list under the mutex and each callback of the loop.        *)
(***************************************************************************)
EXTENDS Naturals, Sequences

CONSTANTS
    Threads,    \* the threads that use this loop, Loop among them
    Loop,       \* the thread that calls run()
    NoThread,   \* a pid_t that is no thread's
    MaxPosts    \* bound, per thread: its calls of run_on_onwer_thread

ASSUME EventLoopAssumption ==
    /\ Loop \in Threads
    /\ NoThread \notin Threads
    /\ MaxPosts \in [Threads -> Nat]

VARIABLES
    tid_,           \* pid_t, uninitialised until run() stores the thread
    to_do_list,     \* callbacks waiting for the loop, under mtx
    stop_,          \* the flag run() tests on every turn
    wakeup_fd_,     \* the eventfd: 0 or, saturated, 1 (only "not zero" shows)
    pc,             \* where the loop thread is in run()
    active,         \* activeChannels still to dispatch
    funcs,          \* the vector do_after_handle_events swapped out
    calling,        \* per thread: how far its call of run_on_onwer_thread is
    posted,         \* per thread: callbacks it has run in place or pushed
    ran             \* history: the callbacks run, and on which thread

vars == <<tid_, to_do_list, stop_, wakeup_fd_, pc, active, funcs, calling,
          posted, ran>>

Channels == {"wakeup", "io"}

Task == [by : Threads, no : Nat]

RanTask == [by : Threads, no : Nat, on : Threads]

\* A call has passed the test ("call"), has failed it ("push") or has pushed
\* its callback and is about to write the eventfd ("wake").
CallStates == {"idle", "call", "push", "wake"}

PCs == {"new", "check", "poll", "dispatch", "io", "swap", "task", "in_task",
        "exited"}

\* Type invariant of the loop's members and of its thread's position.
TypeOK ==
    /\ tid_ \in Threads \cup {NoThread}
    /\ to_do_list \in Seq(Task)
    /\ stop_ \in BOOLEAN
    /\ wakeup_fd_ \in {0, 1}
    /\ pc \in PCs
    /\ active \in SUBSET Channels
    /\ funcs \in Seq(Task)
    /\ calling \in [Threads -> CallStates]
    /\ posted \in [Threads -> Nat]
    /\ ran \in Seq(RanTask)

\* The constructor does not initialise tid_: any value may be found there.
Init ==
    /\ tid_ \in Threads \cup {NoThread}
    /\ to_do_list = <<>>
    /\ stop_ = FALSE
    /\ wakeup_fd_ = 0
    /\ pc = "new"
    /\ active = {}
    /\ funcs = <<>>
    /\ calling = [t \in Threads |-> "idle"]
    /\ posted = [t \in Threads |-> 0]
    /\ ran = <<>>

-----------------------------------------------------------------------------
(* Calls made by the program's own code.                                   *)

\* The loop thread runs such code before run() and inside callbacks; the
\* other threads run it at any time.
InUserCode(t) ==
    /\ calling[t] = "idle"
    /\ t = Loop => pc \in {"new", "io", "in_task"}

isInEpollLoop(t) == tid_ = t

RunNow(task, t) == ran' = Append(ran, [by |-> task.by, no |-> task.no, on |-> t])

\* add_to_do at the front of the vector.
AddToDoFront(task) == to_do_list' = <<task>> \o to_do_list

add_to_do(task) == to_do_list' = Append(to_do_list, task)

\* run_on_onwer_thread begins: the test of tid_, which run() may store at any
\* moment after it.
run_on_onwer_thread(t) ==
    /\ InUserCode(t)
    /\ posted[t] < MaxPosts[t]
    /\ calling' = [calling EXCEPT ![t] = IF isInEpollLoop(t) THEN "call" ELSE "push"]
    /\ UNCHANGED <<tid_, to_do_list, stop_, wakeup_fd_, pc, active, funcs,
                   posted, ran>>

NextTask(t) == [by |-> t, no |-> posted[t] + 1]

\* The test was passed: cb() on the caller's thread.
CallInPlace(t) ==
    /\ calling[t] = "call"
    /\ calling' = [calling EXCEPT ![t] = "idle"]
    /\ posted' = [posted EXCEPT ![t] = @ + 1]
    /\ RunNow(NextTask(t), t)
    /\ UNCHANGED <<tid_, to_do_list, stop_, wakeup_fd_, pc, active, funcs>>

\* The eventfd write left out: the poster returns right after the push.
PushNoWake(t) ==
    /\ calling[t] = "push"
    /\ calling' = [calling EXCEPT ![t] = "idle"]
    /\ posted' = [posted EXCEPT ![t] = @ + 1]
    /\ add_to_do(NextTask(t))
    /\ UNCHANGED <<tid_, stop_, wakeup_fd_, pc, active, funcs, ran>>

\* The test was failed: the push under the mutex.
Push(t) ==
    /\ calling[t] = "push"
    /\ calling' = [calling EXCEPT ![t] = "wake"]
    /\ posted' = [posted EXCEPT ![t] = @ + 1]
    /\ add_to_do(NextTask(t))
    /\ UNCHANGED <<tid_, stop_, wakeup_fd_, pc, active, funcs, ran>>

\* The end of run_on_onwer_thread: the eventfd write.
wakeup_loop(t) ==
    /\ calling[t] = "wake"
    /\ calling' = [calling EXCEPT ![t] = "idle"]
    /\ wakeup_fd_' = 1
    /\ UNCHANGED <<tid_, to_do_list, stop_, pc, active, funcs, posted, ran>>

\* A wakeup with nothing queued: Server::disconnectHandle does this from a
\* callback after its task has already run in place.
SpareWakeup ==
    /\ pc \in {"io", "in_task"}
    /\ calling[Loop] = "idle"
    /\ wakeup_fd_' = 1
    /\ UNCHANGED <<tid_, to_do_list, stop_, pc, active, funcs, calling,
                   posted, ran>>

\* stop() only sets the flag; it does not write the eventfd.
stop(t) ==
    /\ InUserCode(t)
    /\ stop_' = TRUE
    /\ UNCHANGED <<tid_, to_do_list, wakeup_fd_, pc, active, funcs, calling,
                   posted, ran>>

-----------------------------------------------------------------------------
(* The steps of run().                                                     *)

\* run() that does not record its thread.
RunWithoutTid ==
    /\ pc = "new"
    /\ calling[Loop] = "idle"
    /\ pc' = "check"
    /\ UNCHANGED <<tid_, to_do_list, stop_, wakeup_fd_, active, funcs,
                   calling, posted, ran>>

run ==
    /\ pc = "new"
    /\ calling[Loop] = "idle"
    /\ tid_' = Loop
    /\ pc' = "check"
    /\ UNCHANGED <<to_do_list, stop_, wakeup_fd_, active, funcs, calling,
                   posted, ran>>

\* The stop_ test left out of the loop head.
CheckStopIgnored ==
    /\ pc = "check"
    /\ pc' = "poll"
    /\ UNCHANGED <<tid_, to_do_list, stop_, wakeup_fd_, active, funcs,
                   calling, posted, ran>>

CheckStop ==
    /\ pc = "check"
    /\ pc' = IF stop_ THEN "exited" ELSE "poll"
    /\ UNCHANGED <<tid_, to_do_list, stop_, wakeup_fd_, active, funcs,
                   calling, posted, ran>>

\* epoll_wait with an infinite timeout. The eventfd is level triggered, so it
\* is reported whenever it is not zero. EINTR, possible only when nothing is
\* ready, gives an empty vector and the loop starts over.
poll(ready) ==
    /\ pc = "poll"
    /\ "wakeup" \in ready <=> wakeup_fd_ = 1
    /\ active' = ready
    /\ pc' = IF ready = {} THEN "check" ELSE "dispatch"
    /\ UNCHANGED <<tid_, to_do_list, stop_, wakeup_fd_, funcs, calling,
                   posted, ran>>

wakeup_callback ==
    /\ pc = "dispatch"
    /\ "wakeup" \in active
    /\ wakeup_fd_' = 0
    /\ active' = active \ {"wakeup"}
    /\ UNCHANGED <<tid_, to_do_list, stop_, pc, funcs, calling, posted, ran>>

\* handle_event of any other channel: user code runs until the return.
HandleEvent ==
    /\ pc = "dispatch"
    /\ "io" \in active
    /\ active' = active \ {"io"}
    /\ pc' = "io"
    /\ UNCHANGED <<tid_, to_do_list, stop_, wakeup_fd_, funcs, calling,
                   posted, ran>>

EndOfEvent ==
    /\ pc = "io"
    /\ calling[Loop] = "idle"
    /\ pc' = "dispatch"
    /\ UNCHANGED <<tid_, to_do_list, stop_, wakeup_fd_, active, funcs,
                   calling, posted, ran>>

EndOfDispatch ==
    /\ pc = "dispatch"
    /\ active = {}
    /\ pc' = "swap"
    /\ UNCHANGED <<tid_, to_do_list, stop_, wakeup_fd_, active, funcs,
                   calling, posted, ran>>

\* funcs = to_do_list, the list left as it was.
CopyToDoList ==
    /\ pc = "swap"
    /\ funcs' = to_do_list
    /\ pc' = "task"
    /\ UNCHANGED <<tid_, to_do_list, stop_, wakeup_fd_, active, calling,
                   posted, ran>>

\* do_after_handle_events: the swap under the mutex.
SwapToDoList ==
    /\ pc = "swap"
    /\ funcs' = to_do_list
    /\ to_do_list' = <<>>
    /\ pc' = "task"
    /\ UNCHANGED <<tid_, stop_, wakeup_fd_, active, calling, posted, ran>>

\* do_after_handle_events: one turn of "for (auto &func : funcs) func();".
RunTask ==
    /\ pc = "task"
    /\ funcs # <<>>
    /\ RunNow(Head(funcs), Loop)
    /\ funcs' = Tail(funcs)
    /\ pc' = "in_task"
    /\ UNCHANGED <<tid_, to_do_list, stop_, wakeup_fd_, active, calling,
                   posted>>

EndOfTask ==
    /\ pc = "in_task"
    /\ calling[Loop] = "idle"
    /\ pc' = "task"
    /\ UNCHANGED <<tid_, to_do_list, stop_, wakeup_fd_, active, funcs,
                   calling, posted, ran>>

EndOfTasks ==
    /\ pc = "task"
    /\ funcs = <<>>
    /\ pc' = "check"
    /\ UNCHANGED <<tid_, to_do_list, stop_, wakeup_fd_, active, funcs,
                   calling, posted, ran>>

-----------------------------------------------------------------------------

\* What a call of run_on_onwer_thread does once it has begun.
CallStep(t) == CallInPlace(t) \/ Push(t) \/ wakeup_loop(t)

UserStep(t) == run_on_onwer_thread(t) \/ CallStep(t) \/ stop(t)

\* What the loop thread does without the help of any new I/O event.
LoopStep ==
    \/ CheckStop
    \/ \E ready \in SUBSET Channels : "wakeup" \in ready /\ poll(ready)
    \/ wakeup_callback \/ HandleEvent \/ EndOfEvent \/ EndOfDispatch
    \/ SwapToDoList \/ RunTask \/ EndOfTask \/ EndOfTasks

Next ==
    \/ \E t \in Threads : UserStep(t)
    \/ SpareWakeup
    \/ run
    \/ LoopStep
    \/ \E ready \in SUBSET Channels : poll(ready)

Spec == Init /\ [][Next]_vars

\* The scheduler runs every thread; callbacks return; run() is called. No I/O
\* event is ever promised, so an idle epoll_wait may block for good.
Fairness ==
    /\ WF_vars(run)
    /\ WF_vars(LoopStep)
    /\ \A t \in Threads : WF_vars(CallStep(t))

FairSpec == Spec /\ Fairness

-----------------------------------------------------------------------------

\* No lost wakeup: while a callback is queued, the eventfd is readable, or a
\* poster is about to write it, or the loop has read it and has yet to swap
\* the list. Without this a callback could sit behind an idle epoll_wait
\* (EventLoop.cpp, run_on_onwer_thread against run).
NoLostWakeup ==
    to_do_list # <<>> =>
        \/ wakeup_fd_ = 1
        \/ \E t \in Threads : calling[t] = "wake"
        \/ pc \in {"dispatch", "io", "swap"}

\* Every callback that went through the loop, in the order run or to be run.
Pipeline == ran \o funcs \o to_do_list

SameTask(x, y) == x.by = y.by /\ x.no = y.no

\* No callback is lost or run twice: each call of run_on_onwer_thread is
\* exactly one entry of: run, swapped out, queued (add_to_do, the swap).
EveryTaskOnce ==
    /\ \A t \in Threads : \A n \in 1..posted[t] :
          \E i \in DOMAIN Pipeline : SameTask(Pipeline[i], [by |-> t, no |-> n])
    /\ \A i, j \in DOMAIN Pipeline : SameTask(Pipeline[i], Pipeline[j]) => i = j

\* The callbacks of one foreign thread run in the order it posted them. (The
\* loop thread's own do not: what it queued before run() is overtaken by what
\* it runs in place.)
PostersInOrder ==
    \A i, j \in DOMAIN Pipeline :
        (i < j /\ Pipeline[i].by = Pipeline[j].by /\ Pipeline[i].by # Loop)
            => Pipeline[i].no < Pipeline[j].no

\* The threads that are about to run a callback in place and are not the
\* loop's: tid_, not yet initialised, held their id when they tested it.
Strays == {t \in Threads \ {Loop} : calling[t] = "call"}

\* The test and the call are two steps, so run() may store tid_ between them and
\* a callback may still run on another thread beside the loop's. From run() on it
\* is one callback at most: no other thread passes the test any more, and the one
\* that runs elsewhere was the last that could (run_on_onwer_thread against
\* run(); Server and Client touch their maps without a lock).
OneStrayAtMost ==
    [][pc # "new" =>
          /\ Strays' \subseteq Strays
          /\ \A i \in DOMAIN ran' \ DOMAIN ran : ran'[i].on # Loop => Strays' = {}]_vars

\* A posted callback is eventually run, unless the loop is told to stop.
TaskEventuallyRuns ==
    \A t \in Threads : \A n \in 1..MaxPosts[t] :
        (posted[t] >= n) ~>
            (stop_ \/ \E i \in DOMAIN ran : SameTask(ran[i], [by |-> t, no |-> n]))

\* stop() takes effect when the loop is not asleep or has a wakeup pending. An
\* idle loop is not woken by stop(), so nothing more can be promised.
StopEventuallySeen ==
    (stop_ /\ pc # "new" /\ (pc # "poll" \/ wakeup_fd_ = 1)) ~> (pc = "exited")

=============================================================================
