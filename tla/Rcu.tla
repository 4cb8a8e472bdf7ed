-------------------------------- MODULE Rcu ---------------------------------
(***************************************************************************)
(* What one light-rcu namespace promises its callers: an object that was    *)
(* unlinked and handed over for destruction outlives every read section     *)
(* that can still use it, and a wait for the running read sections does not *)
(* end before they do.  A thread that stays in a section for too long may   *)
(* be declared stalled; nothing waits for a stalled thread.  The promise may *)
(* become void, from when on anything can happen.                           *)
(***************************************************************************)
EXTENDS TLAPS

CONSTANTS Thread, Obj, NoObj

VARIABLES
    current,     \* the published object
    fresh,       \* objects never published
    held,        \* objects each thread uses in its read section
    inSection,   \* threads inside a read section
    retired,     \* unlinked objects handed over for destruction
    freed,       \* destroyed objects
    stalled,     \* threads nobody waits for
    calling,     \* threads inside a wait for the read sections
    waiting,     \* the sections each of them has still to see end
    due,         \* the sections each handed over object has still to outlive
    void         \* the promise has become void

promised == <<current, fresh, held, inSection, retired, freed, stalled, calling, waiting, due>>
vars == <<promised, void>>

Init ==
    /\ current \in Obj \cup {NoObj} /\ fresh = Obj \ {current}
    /\ held = [t \in Thread |-> {}] /\ inSection = {}
    /\ retired = {} /\ freed = {} /\ stalled = {}
    /\ calling = {} /\ waiting = [t \in Thread |-> {}]
    /\ due = [o \in Obj |-> {}] /\ void = FALSE

Enter(t) ==
    /\ t \notin inSection
    /\ inSection' = inSection \cup {t}
    /\ UNCHANGED <<current, fresh, held, retired, freed, stalled, calling, waiting, due>>

Take(t) ==
    /\ t \in inSection /\ current \in Obj
    /\ held' = [held EXCEPT ![t] = @ \cup {current}]
    /\ UNCHANGED <<current, fresh, inSection, retired, freed, stalled, calling, waiting, due>>

Leave(t) ==
    /\ t \in inSection
    /\ inSection' = inSection \ {t}
    /\ held' = [held EXCEPT ![t] = {}]
    /\ waiting' = [s \in Thread |-> waiting[s] \ {t}]
    /\ due' = [o \in Obj |-> due[o] \ {t}]
    /\ UNCHANGED <<current, fresh, retired, freed, stalled, calling>>

Publish ==
    /\ \E new \in fresh \cup {NoObj} : current' = new /\ fresh' = fresh \ {new}
    /\ UNCHANGED <<held, inSection, retired, freed, stalled, calling, waiting, due>>

\* Only an unlinked object is handed over, and only once.
Retire(o) ==
    /\ o \notin fresh \cup {current} \cup retired \cup freed
    /\ retired' = retired \cup {o}
    /\ due' = [due EXCEPT ![o] = inSection]
    /\ UNCHANGED <<current, fresh, held, inSection, freed, stalled, calling, waiting>>

Reclaim(o) ==
    /\ o \in retired
    /\ due[o] \subseteq stalled
    /\ retired' = retired \ {o} /\ freed' = freed \cup {o}
    /\ UNCHANGED <<current, fresh, held, inSection, stalled, calling, waiting, due>>

Stall(t) ==
    /\ stalled' = stalled \cup {t}
    /\ UNCHANGED <<current, fresh, held, inSection, retired, freed, calling, waiting, due>>

\* A thread whose section an object did not outlive is not taken back in it.
Recover(t) ==
    /\ \A o \in freed : t \notin due[o]
    /\ stalled' = stalled \ {t}
    /\ UNCHANGED <<current, fresh, held, inSection, retired, freed, calling, waiting, due>>

WaitBegin(t) ==
    /\ t \notin calling
    /\ calling' = calling \cup {t}
    /\ waiting' = [waiting EXCEPT ![t] = inSection]
    /\ UNCHANGED <<current, fresh, held, inSection, retired, freed, stalled, due>>

WaitEnd(t) ==
    /\ t \in calling /\ waiting[t] \subseteq stalled
    /\ calling' = calling \ {t}
    /\ waiting' = [waiting EXCEPT ![t] = {}]
    /\ UNCHANGED <<current, fresh, held, inSection, retired, freed, stalled, due>>

\* Nothing is promised of a step that leads to a void promise.
Void == void' = TRUE

Keep == \/ \E t \in Thread : \/ Enter(t) \/ Take(t) \/ Leave(t) \/ Stall(t) \/ Recover(t)
                             \/ WaitBegin(t) \/ WaitEnd(t)
        \/ Publish
        \/ \E o \in Obj : Retire(o) \/ Reclaim(o)

Next == Void \/ (Keep /\ UNCHANGED void)

Spec == Init /\ [][Next]_vars

-----------------------------------------------------------------------------
\* What the promise is for: nobody but a stalled thread uses a destroyed object.
NoUseAfterFree == \A t \in Thread : held[t] \cap freed # {} => t \in stalled

\* Every variable that matters to it keeps its type, ...
Typed ==
    /\ current \in Obj \cup {NoObj} /\ fresh \subseteq Obj /\ retired \subseteq Obj /\ freed \subseteq Obj
    /\ inSection \subseteq Thread /\ stalled \subseteq Thread
    /\ held \in [Thread -> SUBSET Obj] /\ due \in [Obj -> SUBSET Thread]

\* ... an object handed over is not published again, whoever uses it is in the
\* section it took it in, and a destroyed one outlived all but stalled threads.
RcuInv ==
    /\ Typed
    /\ current \notin fresh \cup retired \cup freed /\ fresh \cap (retired \cup freed) = {}
    /\ \A t \in Thread : held[t] # {} => t \in inSection
    /\ \A t \in Thread : \A o \in held[t] \cap (retired \cup freed) : t \in due[o]
    /\ \A o \in freed : due[o] \subseteq stalled

\* As long as the promise stands an object is destroyed only when the sections
\* that were open when it was handed over have ended, and what a section uses it
\* took before that.
THEOREM NeverUsedAfterFree ==
  ASSUME NoObj \notin Obj PROVE Spec => [](void \/ NoUseAfterFree)
<1>1. Init => void \/ RcuInv
  BY DEF Init, RcuInv, Typed
<1>2. (void \/ RcuInv) /\ [Next]_vars => (void \/ RcuInv)'
  <2> SUFFICES ASSUME void \/ RcuInv, [Next]_vars, ~void' PROVE RcuInv'
    OBVIOUS
  <2>a. RcuInv /\ (Keep \/ UNCHANGED promised)
    BY DEF Next, Void, vars
  <2> USE <2>a DEF RcuInv, Typed
  <2>1. ASSUME NEW t \in Thread, Enter(t) PROVE RcuInv'
    BY <2>1 DEF Enter
  <2>2. ASSUME NEW t \in Thread, Take(t) PROVE RcuInv'
    BY <2>2 DEF Take
  <2>3. ASSUME NEW t \in Thread, Leave(t) PROVE RcuInv'
    BY <2>3 DEF Leave
  <2>4. ASSUME NEW t \in Thread, Stall(t) PROVE RcuInv'
    BY <2>4 DEF Stall
  <2>5. ASSUME NEW t \in Thread, Recover(t) PROVE RcuInv'
    BY <2>5 DEF Recover
  <2>6. ASSUME NEW t \in Thread, WaitBegin(t) \/ WaitEnd(t) PROVE RcuInv'
    BY <2>6 DEF WaitBegin, WaitEnd
  <2>7. ASSUME Publish PROVE RcuInv'
    BY <2>7 DEF Publish
  <2>8. ASSUME NEW o \in Obj, Retire(o) PROVE RcuInv'
    BY <2>8 DEF Retire
  <2>9. ASSUME NEW o \in Obj, Reclaim(o) PROVE RcuInv'
    BY <2>9 DEF Reclaim
  <2>10. CASE UNCHANGED promised
    BY <2>10 DEF promised
  <2> QED BY <2>a, <2>1, <2>2, <2>3, <2>4, <2>5, <2>6, <2>7, <2>8, <2>9, <2>10 DEF Keep
<1>3. RcuInv => NoUseAfterFree
  <2> SUFFICES ASSUME RcuInv, NEW t \in Thread, held[t] \cap freed # {} PROVE t \in stalled
    BY DEF NoUseAfterFree
  <2>1. PICK o \in held[t] : o \in freed
    OBVIOUS
  <2> QED BY <2>1 DEF RcuInv
<1> QED BY <1>1, <1>2, <1>3, PTL DEF Spec
=============================================================================
