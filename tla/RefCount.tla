------------------------------ MODULE RefCount ------------------------------
(***************************************************************************)
(* Reference counting: objbase and typedobj of testProgs/test_uls.c on the *)
(* atomic operations that vlstp/vlstp.c offers for it.  The test uses one  *)
(* thread; the operations are atomic so that several may share an object,  *)
(* and that is what is modelled.  Only the change of the count is atomic:  *)
(* a release tests what it returned, and destroys, in steps of their own.  *)
(***************************************************************************)
EXTENDS Naturals, FiniteSets

CONSTANTS
  Thread,
  Ref,           \* the pointer variables of the program
  NULL,
  CountSpace     \* vlstp_atomic_t counts modulo this number

ASSUME RefCountAssumption ==
  /\ IsFiniteSet(Ref)
  /\ CountSpace \in Nat
  /\ Cardinality(Ref) < CountSpace
  /\ CountSpace > 1
  /\ NULL \notin Thread

VARIABLES
  mem,      \* the object: "live" or "free"
  buf,      \* its string: "live" or "free"
  refcnt,
  owner,    \* owner[r]: the thread whose reference r is, or NULL
  pc,       \* where each thread is: "run", or inside objbase_release
  count     \* what vlstp_atomic_dec returned to it

vars == <<mem, buf, refcnt, owner, pc, count>>

Counts == 0 .. CountSpace - 1

\* The references that stand for a count each.
Held == {r \in Ref : owner[r] # NULL}

Init ==
  /\ mem = "free"
  /\ buf = "free"
  /\ refcnt \in Counts
  /\ owner = [r \in Ref |-> NULL]
  /\ pc = [t \in Thread |-> "run"]
  /\ count = [t \in Thread |-> 0]
-----------------------------------------------------------------------------
vlstp_atomic_inc(n) == (n + 1) % CountSpace
vlstp_atomic_dec(n) == (n + (CountSpace - 1)) % CountSpace

\* Mutant: the creator's reference is not counted.
objbase_init_zero == 0

objbase_init == 1

\* malloc may return the memory of the object destroyed last.  An allocation
\* that fails is not modelled: the code writes through the NULL pointer.
typedobj_new(t, r) ==
  /\ pc[t] = "run"
  /\ mem = "free"
  /\ owner[r] = NULL
  /\ mem' = "live"
  /\ refcnt' = objbase_init
  /\ buf' = "live"
  /\ owner' = [owner EXCEPT ![r] = t]
  /\ UNCHANGED <<pc, count>>

\* Only a thread that has a reference can add one.
objbase_addref(t, r) ==
  /\ pc[t] = "run"
  /\ \E s \in Ref : owner[s] = t
  /\ owner[r] = NULL
  /\ refcnt' = vlstp_atomic_inc(refcnt)
  /\ owner' = [owner EXCEPT ![r] = t]
  /\ UNCHANGED <<mem, buf, pc, count>>

\* The program hands a reference to another thread, with its count.
HandOver(t, r) ==
  /\ pc[t] = "run"
  /\ owner[r] = t
  /\ \E u \in Thread : owner' = [owner EXCEPT ![r] = u]
  /\ UNCHANGED <<mem, buf, refcnt, pc, count>>

objbase_release(t, r) ==
  /\ pc[t] = "run"
  /\ owner[r] = t
  /\ owner' = [owner EXCEPT ![r] = NULL]
  /\ refcnt' = vlstp_atomic_dec(refcnt)
  /\ count' = [count EXCEPT ![t] = refcnt']
  /\ pc' = [pc EXCEPT ![t] = "test"]
  /\ UNCHANGED <<mem, buf>>

\* Mutants: the count is read again; the unsigned value is taken for a
\* signed one that goes below zero.
IsLast_reread(t) == refcnt = 0
IsLast_below(t)  == count[t] < 0

\* <= 0, of an unsigned value.
IsLast(t) == count[t] = 0

Test(t) ==
  /\ pc[t] = "test"
  /\ pc' = [pc EXCEPT ![t] = IF IsLast(t) THEN "destroy" ELSE "run"]
  /\ UNCHANGED <<mem, buf, refcnt, owner, count>>

\* typedobj_destroy frees the string, then the object that points to it.
FreeBuf(t) ==
  /\ pc[t] = "destroy"
  /\ buf' = "free"
  /\ pc' = [pc EXCEPT ![t] = "free"]
  /\ UNCHANGED <<mem, refcnt, owner, count>>

FreeObj(t) ==
  /\ pc[t] = "free"
  /\ mem' = "free"
  /\ pc' = [pc EXCEPT ![t] = "run"]
  /\ UNCHANGED <<buf, refcnt, owner, count>>

\* The rest of a release after the count was changed.
Finish(t) == Test(t) \/ FreeBuf(t) \/ FreeObj(t)

Next ==
  \E t \in Thread :
    \/ \E r \in Ref :
         \/ typedobj_new(t, r)
         \/ objbase_addref(t, r)
         \/ HandOver(t, r)
         \/ objbase_release(t, r)
    \/ Finish(t)

Spec == Init /\ [][Next]_vars

\* Threads may keep their references for ever, but a release once begun is
\* not abandoned.
FairSpec == Spec /\ \A t \in Thread : WF_vars(Finish(t))
-----------------------------------------------------------------------------
(* Properties.                                                             *)

TypeOK ==
  /\ mem \in {"live", "free"}
  /\ buf \in {"live", "free"}
  /\ refcnt \in Counts
  /\ owner \in [Ref -> Thread \cup {NULL}]
  /\ pc \in [Thread -> {"run", "test", "destroy", "free"}]
  /\ count \in [Thread -> Counts]

\* The threads that have found themselves last, whether they know it yet.
Destroyers == {t \in Thread : pc[t] \in {"destroy", "free"}
                              \/ (pc[t] = "test" /\ count[t] = 0)}

\* As long as the object lives, its count is the number of references to it:
\* no increment or decrement of objbase_addref and objbase_release is lost.
ReferencesAreCounted == mem = "live" => refcnt = Cardinality(Held)

\* Whoever has a reference finds the object and its string whole, and of
\* several threads that release at once exactly one destroys it, when no
\* reference is left; so nothing is freed twice or read after free.
NoUseAfterFree ==
  /\ Held # {} => mem = "live" /\ buf = "live"
  /\ \A t \in Thread :
       /\ pc[t] \in {"destroy", "free"} =>
            Held = {} /\ mem = "live" /\ Destroyers = {t}
       /\ pc[t] = "destroy" => buf = "live"

\* An object whose last reference was released is freed.
UnusedIsDestroyed == (mem = "live" /\ Held = {}) ~> mem = "free"
=============================================================================
