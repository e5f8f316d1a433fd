------------------------------ MODULE Shutdown ------------------------------
(***************************************************************************)
(* Stop_And_Exit, the handler of SIGINT and SIGTERM (dns_client.c), on top *)
(* of the running queue.  A signal interrupts any thread, between any two  *)
(* of its steps; the handler then runs in that thread, which never runs    *)
(* again, while the other threads go on.  It closes the IP database, frees *)
(* the regular expression, walks and frees the queue without its lock,     *)
(* closes the log, and exits.  A second, different signal may interrupt    *)
(* the first handler, or another thread; a handler that is interrupted     *)
(* never runs again, for the one on top of it exits.                       *)
(*                                                                         *)
(* A step that would use freed memory, or a null pointer, has no defined   *)
(* outcome: the behaviour ends there, with fate = "undefined".             *)
(*                                                                         *)
(* As in BufQueue, X_Y before X is X with the mistake Y.                   *)
(***************************************************************************)
EXTENDS BufQueueInv

CONSTANTS
  MainThread,    \* the thread of main(), asleep after it has started the others
  Signals,       \* each is delivered at most once
  MaxLate        \* bound: the datagrams that arrive once a handler has begun

ASSUME SignalAssumption ==
  /\ MainThread \notin Threads
  /\ IsFiniteSet(Signals)
  /\ MaxLate \in Nat

AllThreads == Threads \cup {MainThread}

(* What the handler releases besides the queue, in its order: the searcher's*)
(* file, the vector index, the two halves of the regex matcher, the log.   *)
Resources == {"handle", "v_index", "re", "match_data", "hselog"}

VARIABLES
  fate,        \* "running", "exited" or "undefined"
  live,        \* the resources that are open
  ptr,         \* those whose pointer is not null; v_index's is never set to null
  indexed,     \* v_index->length is not 0
  queueLive,   \* *g_queue is allocated
  g_queue,     \* g_queue is not null
  checked,     \* threads past GetQueueSize's or IsEmptyQueue's null test
  stack,       \* the handlers on each thread's stack, innermost last
  hpc,         \* the next step of each handler
  curr, following,   \* LIST_DESTROY's curr and next
  late,        \* datagrams received since a handler has begun
  disturbed,   \* history: another thread has got in while a handler was at work
  struck       \* history: the steps before which a handler has been interrupted

resourceVars == <<live, ptr, indexed, queueLive, g_queue>>
handlerVars  == <<stack, hpc, curr, following>>
historyVars  == <<disturbed, struck>>
shutdownVars == <<fate, resourceVars, handlerVars, checked, late, historyVars>>
allVars == <<vars, shutdownVars>>

(* dns_client_init has succeeded and no signal has come.                   *)
ShutdownInit ==
  /\ Init
  /\ fate = "running"
  /\ live = Resources /\ ptr = Resources /\ indexed = TRUE
  /\ queueLive = TRUE /\ g_queue = TRUE
  /\ checked = {}
  /\ stack = [t \in AllThreads |-> <<>>]
  /\ hpc = [s \in Signals |-> <<"none", "none">>]
  /\ curr = [s \in Signals |-> NULL]
  /\ following = [s \in Signals |-> NULL]
  /\ late = 0
  /\ disturbed = FALSE /\ struck = {}

Handling == \E t \in AllThreads : stack[t] # <<>>

-----------------------------------------------------------------------------
(* The other threads: BufQueue's steps, each guarded by what it touches.   *)

Runs(t) == fate = "running" /\ stack[t] = <<>>

(* GetQueueSize and IsEmptyQueue test g_queue before they take the lock.   *)
TestedLabels == {"size_lock", "log_lock", "empty_lock"}

(* Under the lock they read through g_queue again; BufferInQueue and       *)
(* BufferOutQueue use the pointer they copied when they were called.       *)
TouchesList(t) == pc[t] \in CriticalLabels \ UnlockLabels

(* (LIST_LPOP on an empty list whose size LIST_DESTROY has brought to -1   *)
(* takes the null head and goes through it; the behaviour ends when it has *)
(* taken it.)                                                              *)
Sound(t) ==
  /\ Dereferences(t) \subseteq alloc
  /\ pc[t] = "pop_size" => node[t] # NULL
  /\ TouchesList(t) => queueLive
  /\ pc[t] \in {"size_read", "log_read", "empty_read"} => g_queue

(* main_loop's use of a packet takes the regex, the database and the log;  *)
(* of these pcre2_match and Selog_Write answer a null argument with an     *)
(* error, which is logged.                                                 *)
Usable(r) == r \in live \/ (r \in {"re", "match_data", "hselog"} /\ r \notin ptr)

(* BufferInQueue prints list->len when it has released the lock.           *)
ReadsLen(t) == pc[t] = "log_lock" /\ t \notin checked

CheckQueue(t) ==
  /\ pc[t] \in TestedLabels /\ t \notin checked /\ g_queue
  /\ checked' = checked \cup {t}
  /\ UNCHANGED <<vars, late>>

(* The null test is repeated while the thread waits for the lock.          *)
SkipQueue_WhileWaiting(p) ==
  /\ pc[p] \in {"size_lock", "log_lock"} /\ ~g_queue
  /\ pc' = [pc EXCEPT ![p] = IF pc[p] = "size_lock" THEN "enqueue" ELSE "recv"]
  /\ UNCHANGED <<lock, listVars, nodeVars, localVars, order, checked, late>>

(* The queue is gone: its size is 0, and main_loop sleeps again.           *)
SkipQueue(p) ==
  /\ pc[p] \in {"size_lock", "log_lock"} /\ p \notin checked /\ ~g_queue
  /\ pc' = [pc EXCEPT ![p] = IF pc[p] = "size_lock" THEN "enqueue" ELSE "recv"]
  /\ UNCHANGED <<lock, listVars, nodeVars, localVars, order, checked, late>>

Lock(t) ==
  /\ pc[t] \in TestedLabels => t \in checked
  /\ AtomicLock(t)
  /\ checked' = checked \ {t}
  /\ UNCHANGED late

(* BufferInQueue refuses the packet when there is no queue.                *)
Proceed(t) ==
  /\ Work(t) \/ (t \in Producers /\ ReceiveFails(t))
  /\ pc[t] = "enqueue" /\ ~g_queue => pc'[t] = "recv"
  /\ UNCHANGED <<checked, late>>

ReceiveLate(p) ==
  /\ Receive(p)
  /\ Handling => late < MaxLate
  /\ late' = IF Handling THEN late + 1 ELSE late
  /\ UNCHANGED checked

ThreadStep(t) ==
  /\ Runs(t) /\ Sound(t)
  /\ \/ CheckQueue(t) \/ Lock(t) \/ Proceed(t)
     \/ t \in Producers /\ (SkipQueue(t) \/ ReceiveLate(t))
  /\ disturbed' = (disturbed \/ Handling)
  /\ UNCHANGED <<fate, resourceVars, handlerVars, struck>>

Undefined(t) ==
  /\ Runs(t)
  /\ \/ ~Sound(t)
     \/ pc[t] = "process" /\ \E r \in Resources : ~Usable(r)
     \/ ReadsLen(t) /\ ~queueLive
  /\ fate' = "undefined"
  /\ disturbed' = (disturbed \/ Handling)
  /\ UNCHANGED <<vars, resourceVars, handlerVars, checked, late, struck>>

-----------------------------------------------------------------------------
(* Delivery: a handler masks its own signal in its thread, no other.       *)
Deliver(s, t) ==
  /\ fate = "running"
  /\ hpc[s] = <<"none", "none">>
  /\ stack' = [stack EXCEPT ![t] = Append(@, s)]
  /\ hpc' = [hpc EXCEPT ![s] = <<"handle", "test">>]
  /\ IF stack[t] = <<>>
       THEN disturbed' = (disturbed \/ Handling) /\ UNCHANGED struck
       ELSE struck' = struck \cup {hpc[Last(stack[t])]} /\ UNCHANGED disturbed
  /\ UNCHANGED <<vars, fate, resourceVars, checked, late, curr, following>>

(* The innermost handler on its thread's stack is the one that runs.       *)
HandlerRuns(s) ==
  fate = "running" /\ \E t \in AllThreads : stack[t] # <<>> /\ Last(stack[t]) = s

HandlerAt(s, r, step) == HandlerRuns(s) /\ hpc[s] = <<r, step>>
HandlerGoto(s, r, step) == hpc' = [hpc EXCEPT ![s] = <<r, step>>]

NextResource(r) ==
  CASE r = "handle"     -> <<"v_index", "test">>
    [] r = "v_index"    -> <<"re", "test">>
    [] r = "re"         -> <<"match_data", "test">>
    [] r = "match_data" -> <<"queue", "test">>
    [] r = "hselog"     -> <<"exit", "exit">>

(* xdb_close, regex_free and log_deinit test the pointer.                  *)
TestResource(s, r) ==
  /\ r # "v_index"
  /\ HandlerAt(s, r, "test")
  /\ hpc' = [hpc EXCEPT ![s] = IF r \in ptr THEN <<r, "free">> ELSE NextResource(r)]
  /\ UNCHANGED <<vars, fate, resourceVars, stack, curr, following, checked, late,
                 historyVars>>

(* xdb_close_vector_index tests the length, through the pointer,           *)
TestLength(s) ==
  /\ HandlerAt(s, "v_index", "test")
  /\ "v_index" \in live
  /\ hpc' = [hpc EXCEPT ![s] = IF indexed THEN <<"v_index", "zero">>
                                           ELSE NextResource("v_index")]
  /\ UNCHANGED <<vars, fate, resourceVars, stack, curr, following, checked, late,
                 historyVars>>

(* sets it to 0, and frees what it is in.                                  *)
ZeroLength(s) ==
  /\ HandlerAt(s, "v_index", "zero")
  /\ "v_index" \in live
  /\ indexed' = FALSE
  /\ HandlerGoto(s, "v_index", "free")
  /\ UNCHANGED <<vars, fate, live, ptr, queueLive, g_queue, stack, curr, following,
                 checked, late, historyVars>>

(* The pointer is not set to NULL after the free.                          *)
FreeResource_NotCleared(s, r) ==
  /\ HandlerAt(s, r, "free")
  /\ r \in live
  /\ live' = live \ {r}
  /\ hpc' = [hpc EXCEPT ![s] = NextResource(r)]
  /\ UNCHANGED <<vars, fate, ptr, indexed, queueLive, g_queue, stack, curr, following,
                 checked, late, historyVars>>

FreeResource(s, r) ==
  /\ HandlerAt(s, r, "free")
  /\ r \in live
  /\ live' = live \ {r}
  /\ hpc' = [hpc EXCEPT ![s] = IF r = "v_index" THEN NextResource(r) ELSE <<r, "null">>]
  /\ UNCHANGED <<vars, fate, ptr, indexed, queueLive, g_queue, stack, curr, following,
                 checked, late, historyVars>>

ClearPointer(s, r) ==
  /\ HandlerAt(s, r, "null")
  /\ ptr' = ptr \ {r}
  /\ hpc' = [hpc EXCEPT ![s] = NextResource(r)]
  /\ UNCHANGED <<vars, fate, live, indexed, queueLive, g_queue, stack, curr, following,
                 checked, late, historyVars>>

-----------------------------------------------------------------------------
(* bufferDestroy and LIST_DESTROY, which take no lock.                     *)

(* The walk begins with LOCK().                                            *)
BufferDestroy_Locks(s) ==
  /\ HandlerAt(s, "queue", "test")
  /\ IF g_queue
       THEN /\ queueLive /\ lock = 0
            /\ curr' = [curr EXCEPT ![s] = head]
            /\ HandlerGoto(s, "queue", "while")
       ELSE /\ HandlerGoto(s, "hselog", "test")
            /\ UNCHANGED curr
  /\ UNCHANGED <<vars, fate, resourceVars, stack, following, checked, late, historyVars>>

BufferDestroy(s) ==
  /\ HandlerAt(s, "queue", "test")
  /\ IF g_queue
       THEN /\ queueLive
            /\ curr' = [curr EXCEPT ![s] = head]
            /\ HandlerGoto(s, "queue", "while")
       ELSE /\ HandlerGoto(s, "hselog", "test")
            /\ UNCHANGED curr
  /\ UNCHANGED <<vars, fate, resourceVars, stack, following, checked, late, historyVars>>

(* while (list->size-- >= 0)                                               *)
DestroyWhile_OneMore(s) ==
  /\ HandlerAt(s, "queue", "while")
  /\ queueLive /\ g_queue
  /\ size' = size - 1
  /\ HandlerGoto(s, "queue", IF size >= 0 THEN "next" ELSE "free")
  /\ UNCHANGED <<lockVars, head, tail, len, nodeVars, localVars, order, fate,
                 resourceVars, stack, curr, following, checked, late, historyVars>>

(* while (list->size--)                                                    *)
DestroyWhile(s) ==
  /\ HandlerAt(s, "queue", "while")
  /\ queueLive /\ g_queue
  /\ size' = size - 1
  /\ HandlerGoto(s, "queue", IF size # 0 THEN "next" ELSE "free")
  /\ UNCHANGED <<lockVars, head, tail, len, nodeVars, localVars, order, fate,
                 resourceVars, stack, curr, following, checked, late, historyVars>>

DestroyNext(s) ==
  /\ HandlerAt(s, "queue", "next")
  /\ curr[s] \in alloc
  /\ following' = [following EXCEPT ![s] = next[curr[s]]]
  /\ HandlerGoto(s, "queue", "free_node")
  /\ UNCHANGED <<vars, fate, resourceVars, stack, curr, checked, late, historyVars>>

DestroyNode(s) ==
  /\ HandlerAt(s, "queue", "free_node")
  /\ curr[s] \in alloc
  /\ alloc' = alloc \ {curr[s]}
  /\ curr' = [curr EXCEPT ![s] = following[s]]
  /\ HandlerGoto(s, "queue", "while")
  /\ UNCHANGED <<lockVars, listVars, prev, next, data, localVars, order, fate,
                 resourceVars, stack, following, checked, late, historyVars>>

(* list->len = 0; free(list)                                               *)
DestroyList(s) ==
  /\ HandlerAt(s, "queue", "free")
  /\ queueLive /\ g_queue
  /\ queueLive' = FALSE
  /\ HandlerGoto(s, "queue", "null")
  /\ UNCHANGED <<vars, fate, live, ptr, indexed, g_queue, stack, curr, following,
                 checked, late, historyVars>>

ClearQueue(s) ==
  /\ HandlerAt(s, "queue", "null")
  /\ g_queue' = FALSE
  /\ HandlerGoto(s, "hselog", "test")
  /\ UNCHANGED <<vars, fate, live, ptr, indexed, queueLive, stack, curr, following,
                 checked, late, historyVars>>

Exit(s) ==
  /\ HandlerAt(s, "exit", "exit")
  /\ fate' = "exited"
  /\ UNCHANGED <<vars, resourceVars, handlerVars, checked, late, historyVars>>

(* The handler's own uses of freed memory, and its double frees.           *)
HandlerUndefined(s) ==
  /\ \/ \E step \in {"test", "zero"} :
          HandlerAt(s, "v_index", step) /\ "v_index" \notin live
     \/ \E r \in Resources : HandlerAt(s, r, "free") /\ r \notin live
     \/ HandlerAt(s, "queue", "test") /\ g_queue /\ ~queueLive
     \/ HandlerAt(s, "queue", "while") /\ ~(queueLive /\ g_queue)
     \/ HandlerAt(s, "queue", "next") /\ curr[s] \notin alloc
     \/ HandlerAt(s, "queue", "free_node") /\ curr[s] \notin alloc
     \/ HandlerAt(s, "queue", "free") /\ ~(queueLive /\ g_queue)
  /\ fate' = "undefined"
  /\ UNCHANGED <<vars, resourceVars, handlerVars, checked, late, historyVars>>

HandlerStep(s) ==
  \/ \E r \in Resources : TestResource(s, r) \/ FreeResource(s, r) \/ ClearPointer(s, r)
  \/ TestLength(s) \/ ZeroLength(s)
  \/ BufferDestroy(s) \/ DestroyWhile(s) \/ DestroyNext(s) \/ DestroyNode(s)
  \/ DestroyList(s) \/ ClearQueue(s) \/ Exit(s) \/ HandlerUndefined(s)

ShutdownNext ==
  \/ \E t \in Threads : ThreadStep(t) \/ Undefined(t)
  \/ \E s \in Signals : HandlerStep(s) \/ \E t \in AllThreads : Deliver(s, t)

ShutdownSpec == ShutdownInit /\ [][ShutdownNext]_allVars

(* The kernel goes on running the thread that a signal has interrupted.    *)
ShutdownFairSpec ==
  ShutdownSpec /\ \A s \in Signals : WF_allVars(HandlerStep(s))

-----------------------------------------------------------------------------
(* The types of what the handlers and the threads share; a thread that has *)
(* passed GetQueueSize's or IsEmptyQueue's null test is still to lock.     *)
ShutdownTypeOK ==
  /\ fate \in {"running", "exited", "undefined"}
  /\ live \subseteq Resources /\ ptr \subseteq Resources
  /\ indexed \in BOOLEAN /\ queueLive \in BOOLEAN /\ g_queue \in BOOLEAN
  /\ disturbed \in BOOLEAN
  /\ checked \subseteq {t \in Threads : pc[t] \in TestedLabels}
  /\ stack \in [AllThreads -> Seq(Signals)]
  /\ curr \in [Signals -> Pointer] /\ following \in [Signals -> Pointer]
  /\ late \in 0 .. MaxLate

(* LIST_RPUSH links a node before ++size and LIST_LPOP does --size before  *)
(* it unlinks one, so wherever the signal strikes, in the middle of a push *)
(* or a pop too, the size that LIST_DESTROY counts down never exceeds the  *)
(* nodes it can reach: a teardown that nobody else gets in the way of ends *)
(* the process without an invalid access or a double free.                 *)
AloneIsSafe == fate = "undefined" => disturbed \/ struck # {}

(* Up to the free of v_index a handler can be interrupted between any two  *)
(* of its steps but one: the file that is closed and not yet set to NULL.  *)
Harmless ==
  {<<"handle", "test">>, <<"handle", "free">>,
   <<"v_index", "test">>, <<"v_index", "zero">>, <<"v_index", "free">>}

(* SIGINT and SIGTERM share the handler and mask only themselves, so the   *)
(* one runs the whole teardown on top of the other's.  While the other has *)
(* not yet freed the vector index (nor closed the file without clearing    *)
(* its pointer) that is safe: what was tested but not yet freed is freed   *)
(* once, for the interrupted handler never goes on.  At any later step it  *)
(* is not, and cannot end well: v_index is never set to NULL, so           *)
(* xdb_close_vector_index reads the length in the memory that is freed.    *)
(* (A third signal, after one between length = 0 and the free, would find  *)
(* the index still there.)                                                 *)
NestedIsSafe ==
  ~disturbed =>
    /\ fate = "undefined" => ~(struck \subseteq Harmless)
    /\ fate = "exited" => struck \subseteq Harmless \/ <<"v_index", "free">> \in struck

(* The handler takes no lock, so a thread interrupted inside the critical  *)
(* section cannot keep it from finishing: a delivered signal ends the      *)
(* process.                                                                *)
ShutdownEnds ==
  \A s \in Signals : hpc[s] # <<"none", "none">> ~> fate # "running"

(* "stopping threads and exiting..." (dns_client.c:464): after the handler *)
(* has stopped the threads nobody uses what it frees.                      *)
StoppedBeforeFreed == fate # "undefined"
=============================================================================
