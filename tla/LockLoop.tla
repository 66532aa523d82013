------------------------------ MODULE LockLoop ------------------------------
(***************************************************************************)
(* The loop of lock_table::unlock as it is written, one step per request   *)
(* of the queue, and the binary lock_max it accumulates the granted mode   *)
(* with.  LockTable states the result of the loop in closed form; this     *)
(* module compares the two on every queue the lock table reaches.          *)
(***************************************************************************)
EXTENDS LockTable, SequencesExt

\* The case analysis of lock_max.
LockMaxTable(m1, m2) ==
    CASE m1 = "NULL" -> m2
      [] m2 = "NULL" -> m1
      [] m1 = "x" \/ m2 = "x" -> "x"
      [] m1 = "six" \/ m2 = "six" -> "six"
      [] m1 = m2 -> m1
      [] m1 = "is" -> m2
      [] m2 = "is" -> m1
      [] OTHER -> "six"

\* The loop's state: the queue so far, the head's two fields and the two flags.
LoopStart(q) == [queue |-> q, granted_mode |-> "NULL", waiting |-> FALSE,
                 convert_request_waiting |-> FALSE, done |-> FALSE]

ConvertFits(q, i) ==
    \A k \in DOMAIN q : q[k].status = "GRANTED" /\ q[k].tran # q[i].tran
                           => lock_compat(q[i].convert_mode, q[k].mode)

AddMode(s, m) == [s EXCEPT !.granted_mode = LockMaxTable(m, @)]

LoopStep(s, i) ==
    LET req == s.queue[i] IN
    CASE s.done -> s
      [] s.convert_request_waiting /\ req.status = "WAITING" -> [s EXCEPT !.done = TRUE]
      [] s.convert_request_waiting \/ req.status = "GRANTED" -> AddMode(s, req.mode)
      [] req.status = "WAITING" /\ lock_compat(req.mode, s.granted_mode) ->
            AddMode([s EXCEPT !.queue[i].status = "GRANTED"], req.mode)
      [] req.status = "WAITING" -> [s EXCEPT !.waiting = TRUE, !.done = TRUE]
      [] ConvertFits(s.queue, i) ->
            AddMode([s EXCEPT !.queue[i].status = "GRANTED",
                              !.queue[i].mode = req.convert_mode,
                              !.queue[i].convert_mode = "NULL"], req.convert_mode)
      [] OTHER -> [s EXCEPT !.convert_request_waiting = TRUE, !.waiting = TRUE]

Loop(q) == FoldLeft(LoopStep, LoopStart(q), [i \in 1..Len(q) |-> i])

-----------------------------------------------------------------------------
SameAsLoop(q) ==
    LET loop == Loop(q) IN
    /\ Traversed(q) = loop.queue
    /\ TraversedMode(q) = loop.granted_mode
    /\ TraversedWaiting(q) = loop.waiting

\* The closed form of the traversal agrees with the loop of unlock() on every queue that
\* a request may leave behind: the same requests are granted, and the head gets the same
\* granted mode and waiting flag.
TraversalIsLoop ==
    \A r \in Resource :
        /\ SameAsLoop(queue[r])
        /\ \A p \in DOMAIN queue[r] : SameAsLoop(Without(queue[r], p))
=============================================================================
