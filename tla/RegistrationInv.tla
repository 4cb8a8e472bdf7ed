-------------------------- MODULE RegistrationInv ---------------------------
(***************************************************************************)
(* The inductive invariant of Registration, in named parts.                 *)
(***************************************************************************)
EXTENDS Registration

Publishing == pc[Main] \in {"store_ns", "store_worker_ns"}
Serving == pc[Worker] \in {"loop", "round", "bump"}
Exiting == pc[Worker] \in {"exit", "freed", "done"}

\* How far the main thread and the worker are from each other.
PhaseInv ==
    /\ pc[Main] = "start" => pc[Worker] = "none"
    /\ pc[Worker] \in {"start", "announce"} => pc[Main] = "wait" /\ state = "RUN"
    /\ state = "RUNNING" => Serving
    /\ pc[Main] \in MainPc \ {"start", "wait", "join", "end"} => state = "RUNNING"

\* A record is allocated while its owner can use it.
RecordInv ==
    /\ pc[Worker] \in WorkerPc \ {"none", "start", "freed", "done"} => record[Worker] = "live"
    /\ \A r \in Record : record[r] = "freed" => pc[r] \in {"freed", "done"}

\* ns_lock excludes.
LockInv ==
    /\ Publishing \/ pc[Main] = "ns_deinit" => nsLock = Main
    /\ \A r \in Record : pc[r] = "exit" => nsLock = r

\* h->ns[] and h->worker_ns[] differ only under ns_lock, and LRCU_NS_DEFAULT is
\* the first slot to be set.
SlotInv ==
    /\ workerNs \subseteq ns \/ pc[Main] = "ns_deinit"
    /\ ns \subseteq workerNs \/ pc[Main] = "store_worker_ns"
    /\ pc[Main] = "store_worker_ns" => at[Main] \in ns /\ ns \subseteq workerNs \cup {at[Main]}
    /\ Publishing => at[Main] \in Ns /\ (at[Main] = 0 \/ 0 \in workerNs)
    /\ pc[Main] = "up" \/ workerNs # {} => 0 \in workerNs
    /\ pc[Worker] = "bump" => at[Worker] \in workerNs
    /\ \A t \in Thread : joined[t] \subseteq workerNs
    /\ \A t \in Thread : pc[t] \in {"set_add", "init_add"} => at[t] \in workerNs

\* The worker is on the list of every namespace, until it exits; a thread that
\* exits is in no section.
ListInv ==
    /\ \A i \in Ns : hung[i][Worker] = 0
    /\ \A i \in Ns : i \in workerNs \/ (Publishing /\ i = at[Main])
                         => Exiting \/ threads[i][Worker] > 0
    /\ ReaderListed
    /\ \A t \in Thread : pc[t] \in {"exit", "done"} => open[t] = {}

\* The loop of an exit that is not excused: nothing is left behind it, and what
\* is ahead is in ns->threads of one namespace, once.
ExitInv == \A r \in Record : pc[r] = "exit" /\ r \notin excused =>
    /\ \A i \in Ns : hung[i][r] = 0 /\ threads[i][r] <= 1
    /\ \A i, j \in Ns : threads[i][r] > 0 /\ threads[j][r] > 0 => i = j
    /\ \A i \in Ns : i < at[r] \/ found[r] => threads[i][r] = 0

\* ... and a thread that set LRCU_NS_DEFAULT is found there, as is the worker.
SearchInv ==
    /\ \A t \in Thread : pc[t] = "exit" /\ t \notin excused /\ 0 \in joined[t] =>
           found[t] \/ (at[t] = 0 /\ threads[0][t] > 0)
    /\ pc[Worker] = "exit" /\ workerNs # {} =>
           found[Worker] \/ (at[Worker] = 0 /\ threads[0][Worker] > 0)

RegInv == /\ RegTypeOK /\ PhaseInv /\ RecordInv /\ LockInv /\ SlotInv
          /\ ListInv /\ ExitInv /\ SearchInv /\ OnlyExcusedDangles /\ AssertsHold
=============================================================================
