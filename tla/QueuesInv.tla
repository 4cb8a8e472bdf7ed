----------------------------- MODULE QueuesInv ------------------------------
(***************************************************************************)
(* The inductive invariant of Queues, in named parts.  The pointers head,   *)
(* workHead and chain start proper lists s, w and t, apart from each other  *)
(* and from the elements still to be inserted, and the worker's cursor is   *)
(* at a known place of w, or at an element it has just unlinked.            *)
(***************************************************************************)
EXTENDS Queues

\* Pointer h starts the list s: no element occurs twice, each points to the
\* one behind it, and the last one points nowhere.
Linked(nx, h, s) ==
    /\ s \in Seq(Node)
    /\ \A i, j \in 1 .. Len(s) : s[i] = s[j] => i = j
    /\ h = IF s = <<>> THEN NULL ELSE s[1]
    /\ \A i \in 1 .. Len(s) : nx[s[i]] = IF i = Len(s) THEN NULL ELSE s[i + 1]

Inserting == {p \in Proc : call[p] \in {"link", "publish"}}
Apart(s, t) == Elements(s) \cap Elements(t) = {}

\* What the worker has taken off the queue and not attached yet.
Taken == IF worker = "attach" THEN Path(chain) ELSE <<>>

\* The head of the queue stays in place until the end of a splice.
Lists(s, w, t) ==
    /\ Linked(next, head, s) /\ Linked(next, workHead, w)
    /\ worker = "attach" => Linked(next, chain, t)
    /\ worker # "attach" => t = <<>>

\* What is on the queue: at the end of a splice the worker has it all.
Queued(s) == IF worker = "init" THEN {} ELSE Elements(s)

\* No element is in two places, and each allocated one is in some place.
Places(s, w, t) ==
    /\ Queued(s) \cap Elements(w) = {} /\ Apart(s, t) /\ Apart(w, t)
    /\ \A p \in Inserting :
           /\ e[p] \notin Elements(s) \cup Elements(w) \cup Elements(t)
           /\ \A q \in Inserting : e[q] = e[p] => q = p
    /\ live = Queued(s) \cup Elements(w) \cup Elements(t) \cup {e[p] : p \in Inserting}

\* j elements have been kept in this round; nPrev is the last of them.
At(w, j) ==
    /\ IF j = 0 THEN nPrev = NULL ELSE nPrev = w[j] /\ n \in Node
    /\ worker \in {"visit", "unlink"} \/ (worker = "func" /\ kind = "list") =>
           j < Len(w) /\ n = w[j + 1]
    /\ worker = "unlink" => kind = "hlist"
    /\ worker = "func" /\ kind = "hlist" => n \notin Elements(w)
    /\ worker = "iter" => n \notin Elements(w) \/ (j < Len(w) /\ n = w[j + 1])

Cursor(w) == InRound => \E j \in 0 .. Len(w) : At(w, j)

\* lrcu_list_check_loop is at an element of the queue while its caller holds
\* list_lock.
Checks(s) == \A p \in Proc : call[p] = "check" =>
                 build.check /\ (build.atomic \/ e[p] \in Elements(s))

\* Without LRCU_LIST_ATOMIC a call, and a splice, holds list_lock: the head is
\* still what the new element points to.
HeldInv ==
    /\ \A p \in Proc : call[p] # "idle" => build.atomic \/ lock = p
    /\ \A p \in Proc : call[p] = "publish" => build.atomic \/ next[e[p]] = head
    /\ worker = "init" => lock = Worker
    /\ worker \in {"reset", "attach"} => build.atomic
    /\ worker \in {"splice", "init"} => ~build.atomic
    /\ call[Worker] # "idle" => worker = "func"

QueueIs(s, w, t) == Lists(s, w, t) /\ Places(s, w, t) /\ Cursor(w) /\ Checks(s)

QueueInv == QTypeOK /\ HeldInv /\ QueueIs(Path(head), Path(workHead), Taken)
=============================================================================
