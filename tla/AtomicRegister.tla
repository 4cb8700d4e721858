--------------------------- MODULE AtomicRegister ---------------------------
(***************************************************************************)
(* What zerofido_storage.c promises its callers about one atomic file: it  *)
(* behaves like a register that holds a value or nothing.  An operation    *)
(* (a write of a value, or a removal) takes effect in one step or not at   *)
(* all, a power loss may happen at any moment and never damages the        *)
(* register, and the Boolean the C function returns tells the truth.       *)
(***************************************************************************)
CONSTANTS Value, None

VARIABLES reg,     \* the content of the register
          phase,   \* "idle", "busy" with an operation, or "down" (no power)
          target,  \* what the operation under way wants the register to hold
          before,  \* what the register held when that operation began
          reply    \* what the last operation returned to its caller

vars == <<reg, phase, target, before, reply>>

Init == /\ reg \in Value \cup {None}
        /\ phase = "down"
        /\ target = None
        /\ before = None
        /\ reply = "none"

Begin(t) == /\ phase = "idle"
            /\ phase' = "busy"
            /\ target' = t
            /\ before' = reg
            /\ reply' = "none"
            /\ UNCHANGED reg

Commit == /\ phase = "busy"
          /\ reg' = target
          /\ UNCHANGED <<phase, target, before, reply>>

\* A reported success took effect.  A failed write took no effect; a failed
\* removal may already have emptied the register.
Return(r) == /\ phase = "busy"
             /\ r = "true" => reg = target
             /\ r = "false" /\ target # None => reg = before
             /\ phase' = "idle"
             /\ reply' = r
             /\ UNCHANGED <<reg, target, before>>

Crash == /\ phase' = "down"
         /\ reply' = "none"
         /\ UNCHANGED <<reg, target, before>>

Restart(r) == /\ phase = "down"
              /\ phase' = "idle"
              /\ reply' = r
              /\ UNCHANGED <<reg, target, before>>

Next == \/ \E t \in Value \cup {None} : Begin(t)
        \/ Commit
        \/ \E r \in {"true", "false"} : Return(r) \/ Restart(r)
        \/ Crash

Spec == Init /\ [][Next]_vars
=============================================================================
