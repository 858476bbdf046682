----------------------------- MODULE WaitGroup -----------------------------
(***************************************************************************)
(* The hand-written wait group every analyzer owns (pkg/analyze/wait.go).   *)
(* Unlike sync.WaitGroup it is a counter beside a mutex that is born locked: *)
(* Done opens the mutex when the counter reaches 0, and Wait, having seen a  *)
(* positive counter, blocks on that mutex.  Every method is one critical     *)
(* section of `access`, except Wait, which is two steps: the read of the     *)
(* counter (MustBlock) and, later, the lock of the mutex (Acquire).          *)
(***************************************************************************)
EXTENDS Integers

VARIABLES
  waitValue,   \* WaitGroup.value
  waitLocked   \* whether the mutex WaitGroup.wait is held

waitVars == <<waitValue, waitLocked>>

WaitTypeOK == waitValue \in Int /\ waitLocked \in BOOLEAN

\* (&WaitGroup{}).Init()
WaitInit == waitValue = 0 /\ waitLocked = TRUE

WaitReset == waitValue' = 0 /\ waitLocked' = TRUE

\* Add(1)
WaitAdd == waitValue' = waitValue + 1 /\ UNCHANGED waitLocked

\* Done: decrement, and check() opens the mutex at 0 (TryLock, then Unlock:
\* open afterwards whatever it was before).
WaitDone ==
  /\ waitValue' = waitValue - 1
  /\ waitLocked' = (waitLocked /\ waitValue' # 0)

\* Wait, first half: the value read under `access`.
MustBlock == waitValue > 0

\* Wait, second half: s.wait.Lock().
WaitAcquire == ~waitLocked /\ waitLocked' = TRUE /\ UNCHANGED waitValue
=============================================================================
