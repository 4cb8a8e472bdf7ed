------------------------------- MODULE Queues -------------------------------
(***************************************************************************)
(* One callback queue of a namespace with its pointers (include/lrcu/list.h *)
(* as src/lrcu.c uses it): free_list and worker_list, or free_hlist and     *)
(* worker_hlist.  Callers insert, one after the other under list_lock or    *)
(* with a compare-and-exchange loop (LRCU_LIST_ATOMIC); the worker splices  *)
(* and goes through its own list while it unlinks from it.  Destructors may *)
(* call lrcu_call.  Memory is reused as soon as it is freed.                *)
(***************************************************************************)
EXTENDS Naturals, Sequences, FiniteSets

CONSTANTS
    Caller,       \* threads that call lrcu_call or lrcu_call_head
    Worker,       \* the thread that runs lrcu_worker
    Node,         \* addresses of list elements (bound)
    NULL,
    NoProc,       \* the owner of a free lock
    Build,        \* records [atomic |-> LRCU_LIST_ATOMIC, check |-> LRCU_LIST_DEBUG]
    Kind          \* "list": the queue allocates its elements; "hlist": the caller does

Proc == Caller \cup {Worker}

ASSUME NodeAssumption ==
    /\ Worker \notin Caller /\ NoProc \notin Proc
    /\ NULL \notin Node /\ IsFiniteSet(Node)
    /\ Build \subseteq [atomic : BOOLEAN, check : BOOLEAN] /\ Kind \subseteq {"list", "hlist"}

VARIABLES
    build, kind,
    head,         \* ns->free_list.head
    workHead,     \* ns->worker_list.head
    next,         \* e->next of every element
    live,         \* allocated elements
    lock,         \* owner of ns->list_lock
    call, e,      \* where each process is in its call, and its element or cursor
    worker,       \* where the worker is
    n, nPrev,     \* its cursor, and the element before it
    chain         \* t of lrcu_list_splice_atomic

listVars == <<head, next, live, lock, call, e>>
workVars == <<workHead, worker, n, nPrev, chain>>
vars == <<build, kind, listVars, workVars>>

Ptr == Node \cup {NULL}

\* The elements from pointer h on, cut off after Cardinality(Node) of them.
Walk(nx, h) == LET walk[k \in 0 .. Cardinality(Node)] ==
                       [p \in Ptr |-> IF p = NULL \/ k = 0 THEN <<>>
                                      ELSE <<p>> \o walk[k - 1][nx[p]]]
               IN walk[Cardinality(Node)][h]
Path(h) == Walk(next, h)

LastOf(h) == CHOOSE x \in Node : next[x] = NULL /\ \E i \in DOMAIN Path(h) : Path(h)[i] = x

-----------------------------------------------------------------------------
(* lrcu_call_ns, lrcu_call_head_ns: the worker calls from its destructors. *)

\* Takes list_lock and allocates, or is given, an element.
Call(p) ==
    /\ call[p] = "idle" /\ (p = Worker => worker = "func")
    /\ IF build.atomic THEN UNCHANGED lock ELSE lock = NoProc /\ lock' = p
    /\ \E x \in Node \ live : live' = live \cup {x} /\ e' = [e EXCEPT ![p] = x]
    /\ call' = [call EXCEPT ![p] = "link"]
    /\ UNCHANGED <<build, kind, head, next, workVars>>

\* Mutant: goes on without an element.
CallFailsUnchecked(p) ==
    /\ call[p] = "idle" /\ (p = Worker => worker = "func")
    /\ kind = "list" /\ (build.atomic \/ lock = NoProc)
    /\ call' = [call EXCEPT ![p] = "link"]
    /\ UNCHANGED <<build, kind, head, next, live, lock, e, workVars>>

\* Out of memory: lrcu_list_add returns NULL, and nobody is told.
CallFails(p) ==
    /\ call[p] = "idle" /\ (p = Worker => worker = "func")
    /\ kind = "list" /\ (build.atomic \/ lock = NoProc)
    /\ UNCHANGED vars

\* e->next = lh->head; nobody else sees e yet.
Link(p) ==
    /\ call[p] = "link"
    /\ next' = [next EXCEPT ![e[p]] = head]
    /\ call' = [call EXCEPT ![p] = "publish"]
    /\ UNCHANGED <<build, kind, head, live, lock, e, workVars>>

\* The element is in; with LRCU_LIST_DEBUG the caller walks the list.
Inserted(p) ==
    /\ head' = e[p]
    /\ call' = [call EXCEPT ![p] = IF build.check THEN "check" ELSE "unlock"]
    /\ UNCHANGED <<build, kind, next, live, lock, e, workVars>>

\* Mutant: the head is stored although it has changed.
PublishBlind(p) == call[p] = "publish" /\ Inserted(p)

\* lh->head = e, or the compare-and-exchange with the next that e was given.
Publish(p) ==
    /\ call[p] = "publish"
    /\ IF ~build.atomic \/ head = next[e[p]] THEN Inserted(p)
       ELSE /\ next' = [next EXCEPT ![e[p]] = head]
            /\ UNCHANGED <<build, kind, head, live, lock, call, e, workVars>>

\* lrcu_list_check_loop reads e->next of one element after the other.
CheckLoop(p) ==
    /\ call[p] = "check" /\ e[p] # NULL
    /\ e' = [e EXCEPT ![p] = next[@]]
    /\ call' = [call EXCEPT ![p] = IF next[e[p]] = NULL THEN "unlock" ELSE "check"]
    /\ UNCHANGED <<build, kind, head, next, live, lock, workVars>>

Return(p) ==
    /\ call[p] = "unlock"
    /\ call' = [call EXCEPT ![p] = "idle"] /\ e' = [e EXCEPT ![p] = NULL]
    /\ lock' = IF build.atomic THEN lock ELSE NoProc
    /\ UNCHANGED <<build, kind, head, next, live, workVars>>

-----------------------------------------------------------------------------
(* The part of lrcu_worker that concerns this queue.                       *)

\* Tests free_list without the lock.
Test ==
    /\ worker = "test"
    /\ worker' = IF head = NULL THEN "round" ELSE IF build.atomic THEN "reset" ELSE "splice"
    /\ chain' = IF head # NULL /\ build.atomic THEN head ELSE chain
    /\ UNCHANGED <<build, kind, listVars, workHead, n, nPrev>>

\* lrcu_list_reset_atomic: exchanges the head it has read with NULL, or reads on.
Reset ==
    /\ worker = "reset"
    /\ IF head = chain THEN head' = NULL /\ worker' = "attach" /\ UNCHANGED chain
       ELSE chain' = head /\ UNCHANGED <<head, worker>>
    /\ UNCHANGED <<build, kind, next, live, lock, call, e, workHead, n, nPrev>>

\* Mutant: the list is taken for one of at most one element.
AppendSecond(h) ==
    IF workHead = NULL THEN workHead' = h /\ UNCHANGED next
    ELSE next' = [next EXCEPT ![workHead] = h] /\ UNCHANGED workHead

\* Behind the last element of worker_list, or as worker_list.
Concat(h) ==
    IF workHead = NULL THEN workHead' = h /\ UNCHANGED next
    ELSE next' = [next EXCEPT ![LastOf(workHead)] = h] /\ UNCHANGED workHead

Attach ==
    /\ worker = "attach" /\ worker' = "round"
    /\ Concat(chain) /\ chain' = NULL
    /\ UNCHANGED <<build, kind, head, live, lock, call, e, n, nPrev>>

\* lrcu_list_splice under list_lock ...
Splice ==
    /\ worker = "splice" /\ lock = NoProc
    /\ lock' = Worker /\ worker' = "init"
    /\ Concat(head)
    /\ UNCHANGED <<build, kind, head, live, call, e, n, nPrev, chain>>

\* ... which ends with lrcu_list_init of free_list.
SpliceInit ==
    /\ worker = "init" /\ worker' = "round"
    /\ head' = NULL /\ lock' = NoProc
    /\ UNCHANGED <<build, kind, next, live, call, e, workHead, n, nPrev, chain>>

\* The scan and the loop's start, if worker_list is not empty.
Round ==
    /\ worker = "round"
    /\ worker' = IF workHead = NULL THEN "test" ELSE "iter"
    /\ n' = NULL /\ nPrev' = NULL
    /\ UNCHANGED <<build, kind, listVars, workHead, chain>>

\* Mutant: the element before the cursor is the last one visited, unlinked or not.
StepCursorAlways ==
    /\ n' = IF n = NULL THEN workHead ELSE next[n]
    /\ nPrev' = n

\* __lrcu_list_for_each_get___n: has the element of the last step been unlinked?
StepCursor ==
    IF nPrev = NULL
    THEN IF n = NULL \/ n # workHead THEN n' = workHead /\ UNCHANGED nPrev
         ELSE nPrev' = workHead /\ n' = next[n]
    ELSE IF next[nPrev] = n THEN nPrev' = n /\ n' = next[n]
         ELSE n' = next[nPrev] /\ UNCHANGED nPrev

Iterate ==
    /\ worker = "iter"
    /\ StepCursor
    /\ worker' = IF n' = NULL THEN "test" ELSE "visit"
    /\ UNCHANGED <<build, kind, listVars, workHead, chain>>

\* A reader may still use the element's pointer.
Keep ==
    /\ worker = "visit" /\ worker' = "iter"
    /\ UNCHANGED <<build, kind, listVars, workHead, n, nPrev, chain>>

\* The other elements of worker_list are called before they are unlinked, those
\* of worker_hlist after.
Run ==
    /\ worker = "visit" /\ worker' = IF kind = "list" THEN "func" ELSE "unlink"
    /\ UNCHANGED <<build, kind, listVars, workHead, n, nPrev, chain>>

\* The element behind nPrev, or the first.
Target == IF nPrev = NULL THEN workHead ELSE next[nPrev]

\* Mutant: unlinks the first element whatever nPrev says.
UnlinkFirst ==
    /\ workHead' = next[workHead]
    /\ next' = [next EXCEPT ![workHead] = NULL]

\* lrcu_list_unlink_next: worker_list is private, so the stores are one step.
Unlink ==
    IF nPrev = NULL
    THEN /\ workHead' = next[workHead]
         /\ next' = [next EXCEPT ![workHead] = NULL]
    ELSE /\ next' = [next EXCEPT ![Target] = NULL, ![nPrev] = next[Target]]
         /\ UNCHANGED workHead

\* worker_list: the destructor returns, the element is unlinked and freed.
FuncReturns ==
    /\ worker = "func" /\ kind = "list" /\ call[Worker] = "idle"
    /\ Unlink
    /\ live' = live \ {n} /\ worker' = "iter"
    /\ UNCHANGED <<build, kind, head, lock, call, e, n, nPrev, chain>>

\* worker_hlist: unlinked first, then the destructor frees the caller's object.
UnlinkHead ==
    /\ worker = "unlink" /\ Unlink
    /\ live' = live \ {n} /\ worker' = "func"
    /\ UNCHANGED <<build, kind, head, lock, call, e, n, nPrev, chain>>

HeadFuncReturns ==
    /\ worker = "func" /\ kind = "hlist" /\ call[Worker] = "idle"
    /\ worker' = "iter"
    /\ UNCHANGED <<build, kind, listVars, workHead, n, nPrev, chain>>

-----------------------------------------------------------------------------
Init ==
    /\ build \in Build /\ kind \in Kind
    /\ head = NULL /\ workHead = NULL /\ chain = NULL /\ n = NULL /\ nPrev = NULL
    /\ next = [x \in Node |-> NULL] /\ live = {} /\ lock = NoProc
    /\ call = [p \in Proc |-> "idle"] /\ e = [p \in Proc |-> NULL]
    /\ worker = "test"

CallStep(p) == Call(p) \/ CallFails(p) \/ Link(p) \/ Publish(p) \/ CheckLoop(p) \/ Return(p)
WorkerStep == \/ Test \/ Reset \/ Attach \/ Splice \/ SpliceInit \/ Round \/ Iterate
              \/ Keep \/ Run \/ FuncReturns \/ UnlinkHead \/ HeadFuncReturns

Next == WorkerStep \/ \E p \in Proc : CallStep(p)

Spec == Init /\ [][Next]_vars

-----------------------------------------------------------------------------
(* Properties.                                                             *)

\* Every variable keeps its type; a process past its allocation has an element.
QTypeOK ==
    /\ build \in Build /\ kind \in Kind
    /\ head \in Ptr /\ workHead \in Ptr /\ chain \in Ptr /\ n \in Ptr /\ nPrev \in Ptr
    /\ next \in [Node -> Ptr] /\ live \subseteq Node /\ lock \in Proc \cup {NoProc}
    /\ call \in [Proc -> {"idle", "link", "publish", "check", "unlock"}]
    /\ e \in [Proc -> Ptr]
    /\ \A p \in Proc : call[p] \in {"link", "publish"} => e[p] \in Node
    /\ worker \in {"test", "reset", "attach", "splice", "init", "round", "iter",
                   "visit", "func", "unlink"}

Elements(s) == {s[i] : i \in DOMAIN s}

\* The two lists as the callers and the worker mean them: between the link and
\* the lrcu_list_init of a splice the elements are the worker's already.
Pending == IF worker = "init" THEN <<>> ELSE Path(head)
Batch == Path(workHead) \o (IF worker = "attach" THEN Path(chain) ELSE <<>>)

\* Nothing is lost, queued twice or leaked (lines 202-211, 231-238 and 450-503):
\* an allocated element is on exactly one of the lists, at one place, or on its
\* way into one, and no list holds a freed element.
EachOnce ==
    LET inserting == {p \in Proc : call[p] \in {"link", "publish"}}
    IN /\ live = Elements(Pending) \cup Elements(Batch) \cup {e[p] : p \in inserting}
       /\ Cardinality(live) = Len(Pending) + Len(Batch) + Cardinality(inserting)

\* The loop over a list it unlinks from (list.h:268-297) reads e->next of
\* allocated elements only and unlinks the element it is at; the walk of
\* lrcu_list_check_loop reads allocated elements only.
TouchesLive ==
    /\ worker = "iter" =>
           /\ nPrev # NULL => nPrev \in live /\ (next[nPrev] = n => n \in live)
           /\ nPrev = NULL /\ n # NULL /\ n = workHead => n \in live
    /\ worker = "visit" => n \in live /\ Target = n
    /\ worker \in {"func", "unlink"} /\ (worker = "func" => kind = "list") => Target = n
    /\ \A p \in Proc : call[p] = "check" => e[p] \in live

IndexOf(x) == CHOOSE i \in DOMAIN Path(workHead) : Path(workHead)[i] = x
Kept == IF n \in Elements(Path(workHead))
        THEN IF worker = "iter" THEN IndexOf(n) ELSE IndexOf(n) - 1
        ELSE IF nPrev = NULL THEN 0 ELSE IndexOf(nPrev)
InRound == worker \in {"iter", "visit", "func", "unlink"}

Abstract == INSTANCE CallQueue WITH
    pending <- Pending, batch <- Batch, round <- InRound,
    pos <- IF InRound THEN Kept ELSE 0

\* The pointers implement the abstract queue: inserts go to the front, a splice
\* appends all that is pending, and a round of the worker comes to every element
\* once and in order, whichever it unlinks and whatever is called meanwhile.
ImplementsCallQueue == Abstract!Spec
=============================================================================
